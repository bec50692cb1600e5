--------------------------- MODULE SessionProofs ----------------------------
(***************************************************************************)
(* Theorems about Session, for any threads and modules, any EnumCap and    *)
(* MaxOps: types, the framing of the pipe, handles, that the pipe client   *)
(* implements Channel, that hello opens what OnAttach opens, that what is  *)
(* opened there is told which modules are mapped, and that object events   *)
(* reach the sinks that are open.                                          *)
(***************************************************************************)
EXTENDS Session, SequenceTheorems, FiniteSetTheorems, TLAPS

-----------------------------------------------------------------------------
(* The inductive invariant *)

Odd(n) == n % 2 = 1

\* Nothing has happened to the pipe.
Fresh == wire = <<>> /\ ~pipe_ /\ pipe_closed = 0 /\ pipe_mu = NoThread

\* The pipe is connected once, by a thread that is alone in the DLL.
AloneInv ==
  /\ dll = "out" => Fresh /\ \A t \in Thread : call[t] = Idle
  /\ \A t \in Thread : call[t].pc = "connect" =>
       Fresh /\ dll = "attach" /\ \A u \in Thread \ {t} : call[u] = Idle

\* Where a call goes on after it has emitted an event.
Labels == {"idle", "track", "enum", "unlockLoader", "load", "unregister"}

\* What is sent is an event, and Send returns to its caller.
CallInv ==
  \A t \in Thread :
    /\ call[t].pc \in Sending => call[t].ev # NoEvent
    /\ call[t].next \in Labels

\* A header whose payload is missing has an owner, who holds the lock, or is the
\* last that the pipe has been given.  Who holds the lock has a header to write,
\* when none is open, or a payload, or is dead.
FramingInv ==
  /\ WireWellFramed
  /\ \A t \in Thread : call[t].pc = "payload" =>
       pipe_mu = t /\ Odd(Len(wire)) /\ wire[Len(wire)].ev = call[t].ev
  /\ Odd(Len(wire)) => pipe_mu # NoThread \/ ~pipe_
  /\ \A t \in Thread : pipe_mu = t =>
       \/ call[t].pc = "header" /\ ~Odd(Len(wire))
       \/ call[t].pc \in {"payload", "dead"}

\* A handle that is in use has not been closed.
HandleInv == pipe_closed <= 1 /\ (pipe_ => pipe_closed = 0)

ClosedInv ==
  \A i \in 1..Len(files) :
    files[i].closed <= 1 /\ (i = file_ => files[i].closed = 0)

-----------------------------------------------------------------------------
(* Frames *)

LEMMA EventTypes ==
  /\ NoEvent \in Event
  /\ \A k \in {"hello", "goodbye", "object"}, n \in Nat :
       /\ Plain(k) \in Event \ {NoEvent}
       /\ [Plain(k) EXCEPT !.n = n] \in Event \ {NoEvent}
  /\ \A k \in {"module_loaded", "module_unloaded"}, m \in Module :
       ModuleEvent(k, m) \in Event \ {NoEvent}
  BY DEF NoEvent, Event, Plain, ModuleEvent

LEMMA FrameTypes ==
  /\ Idle \in Frame /\ Dead \in Frame
  /\ Idle.pc = "idle" /\ Idle.op = "none" /\ Dead.pc = "dead" /\ Idle # Dead
  /\ Idle.next = "idle" /\ Dead.next = "idle" /\ Idle.ev = NoEvent /\ Dead.ev = NoEvent
<1>1. NoEvent \in Event
  BY EventTypes
<1>2. QED
  BY <1>1 DEF Idle, Dead, Frame, PC

\* The frame of a thread that emits an event.
LEMMA EmitFrameType ==
  ASSUME TypeOK, NEW t \in Thread, NEW e \in Event, NEW first \in {"send", "append"},
         NEW label \in PC
  PROVE  /\ EmitFrame(t, e, first, label) \in Frame
         /\ EmitFrame(t, e, first, label).pc = first
         /\ EmitFrame(t, e, first, label).ev = e
         /\ EmitFrame(t, e, first, label).next = label
<1>1. call[t] \in Frame
  BY DEF TypeOK
<1>2. first \in PC
  BY DEF PC
<1>3. QED
  BY <1>1, <1>2 DEF EmitFrame, Frame

\* Become moves one thread.
LEMMA BecomeStep ==
  ASSUME TypeOK, NEW t \in Thread, NEW f \in Frame, Become(t, f)
  PROVE  /\ call' \in [Thread -> Frame]
         /\ call'[t] = f
         /\ \A u \in Thread \ {t} : call'[u] = call[u]
  BY DEF TypeOK, Become

LEMMA GotoType ==
  ASSUME TypeOK, NEW t \in Thread, NEW p \in PC
  PROVE  /\ [call[t] EXCEPT !.pc = p] \in Frame
         /\ [call[t] EXCEPT !.pc = p].pc = p
         /\ [call[t] EXCEPT !.pc = p].ev = call[t].ev
         /\ [call[t] EXCEPT !.pc = p].next = call[t].next
<1>1. call[t] \in Frame
  BY DEF TypeOK
<1>2. QED
  BY <1>1 DEF Frame

\* Resume ends the call or goes on outside Send.
LEMMA ResumeType ==
  ASSUME TypeOK, NEW t \in Thread, NEW p \in PC, Resume(t, p)
  PROVE  \E f \in Frame : Become(t, f) /\ f.pc = p /\ f.next = "idle"
<1> DEFINE f == [Idle EXCEPT !.op = call[t].op, !.pc = p, !.todo = call[t].todo]
<1>1. call[t] \in Frame /\ Idle \in Frame
  BY FrameTypes DEF TypeOK
<1>2. f \in Frame /\ f.pc = p /\ f.next = "idle"
  BY <1>1, FrameTypes DEF Frame
<1>3. QED
  BY <1>2, FrameTypes DEF Resume

-----------------------------------------------------------------------------
(* The log files *)

FilesOK == files \in Seq(File) /\ file_ \in 0..Len(files)

\* One operation of JsonLog, or none.
LogDoes ==
  \/ UNCHANGED <<file_, files>>
  \/ \E by \in {"attach", "start"} : OpenLog(by)
  \/ files' = CloseFile(files) /\ file_' = 0
  \/ /\ file_ # 0 /\ UNCHANGED file_
     /\ \E e \in Event :
          \/ files' = [files EXCEPT ![file_].lines = Append(@, e)]
          \/ files' = [files EXCEPT ![file_].lost = @ \cup {e}]

\* Closing the open file leaves none that is in use.
LEMMA CloseFileStep ==
  ASSUME FilesOK, ClosedInv
  PROVE  /\ CloseFile(files) \in Seq(File) /\ Len(CloseFile(files)) = Len(files)
         /\ \A i \in 1..Len(files) : CloseFile(files)[i].closed <= 1
<1>1. CASE file_ = 0
  BY <1>1 DEF CloseFile, FilesOK, ClosedInv
<1>2. CASE file_ # 0
  <2> DEFINE c == [files[file_] EXCEPT !.closed = @ + 1]
  <2>1. file_ \in 1..Len(files) /\ files[file_] \in File
    BY <1>2, ElementOfSeq, LenProperties DEF FilesOK
  <2>2. c \in File /\ c.closed = 1
    BY <2>1 DEF File, ClosedInv
  <2>3. CloseFile(files) = [files EXCEPT ![file_] = c]
    BY <1>2 DEF CloseFile
  <2>4. /\ [files EXCEPT ![file_] = c] \in Seq(File)
        /\ Len([files EXCEPT ![file_] = c]) = Len(files)
        /\ \A j \in 1..Len(files) :
             [files EXCEPT ![file_] = c][j] = IF j = file_ THEN c ELSE files[j]
    BY <2>1, <2>2, ExceptSeq DEF FilesOK
  <2>5. QED
    BY <2>2, <2>3, <2>4 DEF ClosedInv
<1>3. QED
  BY <1>1, <1>2

\* Every operation of the log keeps both: the index of an open file is given up
\* with its handle.
LEMMA LogStep ==
  ASSUME FilesOK, ClosedInv, LogDoes
  PROVE  FilesOK' /\ ClosedInv'
<1> DEFINE fs == CloseFile(files)
<1>1. /\ fs \in Seq(File) /\ Len(fs) = Len(files) /\ Len(files) \in Nat
      /\ \A i \in 1..Len(files) : fs[i].closed <= 1
  BY CloseFileStep, LenProperties DEF FilesOK
<1> HIDE DEF fs
<1>2. CASE UNCHANGED <<file_, files>>
  BY <1>2 DEF FilesOK, ClosedInv
<1>3. CASE files' = fs /\ file_' = 0
  BY <1>1, <1>3 DEF FilesOK, ClosedInv
<1>4. ASSUME NEW by \in {"attach", "start"},
             files' = Append(fs, NewFile(by)),
             file_' = Len(files) + 1
      PROVE  FilesOK' /\ ClosedInv'
  <2> DEFINE new == NewFile(by)
  <2>1. new \in File /\ new.closed = 0
    BY DEF File, NewFile
  <2> HIDE DEF new
  <2>2. /\ Append(fs, new) \in Seq(File) /\ Len(Append(fs, new)) = Len(fs) + 1
        /\ \A i \in 1..Len(fs) : Append(fs, new)[i] = fs[i]
        /\ Append(fs, new)[Len(fs) + 1] = new
    BY <1>1, <2>1, AppendProperties
  <2>3. files' = Append(fs, new)
    BY <1>4 DEF new
  <2>4. QED
    BY <1>1, <1>4, <2>1, <2>2, <2>3 DEF FilesOK, ClosedInv
<1>5. ASSUME UNCHANGED file_, file_ # 0,
             NEW w \in File, w.closed = files[file_].closed,
             files' = [files EXCEPT ![file_] = w]
      PROVE  FilesOK' /\ ClosedInv'
  <2>1. file_ \in 1..Len(files) /\ files[file_] \in File
    BY <1>1, <1>5, ElementOfSeq DEF FilesOK
  <2>2. /\ [files EXCEPT ![file_] = w] \in Seq(File)
        /\ Len([files EXCEPT ![file_] = w]) = Len(files)
        /\ \A j \in 1..Len(files) :
             [files EXCEPT ![file_] = w][j] = IF j = file_ THEN w ELSE files[j]
    BY <1>5, <2>1, ExceptSeq DEF FilesOK
  <2>3. QED
    BY <1>5, <2>2 DEF FilesOK, ClosedInv
<1>6. ASSUME NEW by \in {"attach", "start"}, OpenLog(by)
      PROVE  FilesOK' /\ ClosedInv'
  BY <1>3, <1>4, <1>6 DEF OpenLog, fs
<1>7. ASSUME NEW e \in Event, UNCHANGED file_, file_ # 0,
             \/ files' = [files EXCEPT ![file_].lines = Append(@, e)]
             \/ files' = [files EXCEPT ![file_].lost = @ \cup {e}]
      PROVE  FilesOK' /\ ClosedInv'
  <2> DEFINE written == [files[file_] EXCEPT !.lines = Append(@, e)]
             missing == [files[file_] EXCEPT !.lost = @ \cup {e}]
  <2>1. files[file_] \in File
    BY <1>7, ElementOfSeq DEF FilesOK
  <2>2. /\ written \in File /\ written.closed = files[file_].closed
        /\ missing \in File /\ missing.closed = files[file_].closed
    <3>1. written \in File /\ written.closed = files[file_].closed
      <4>1. Append(files[file_].lines, e) \in Seq(Event)
        BY <2>1, AppendProperties DEF File
      <4>2. QED
        BY <2>1, <4>1 DEF File
    <3>2. files[file_].lost \cup {e} \in SUBSET Event
      BY <2>1 DEF File
    <3>3. missing \in File /\ missing.closed = files[file_].closed
      BY <2>1, <3>2 DEF File
    <3>4. QED
      BY <3>1, <3>3
  <2>3. files' = [files EXCEPT ![file_] = written] \/ files' = [files EXCEPT ![file_] = missing]
    BY <1>7
  <2> HIDE DEF written, missing
  <2>4. QED
    BY <1>5, <1>7, <2>2, <2>3
<1>8. QED
  BY <1>2, <1>3, <1>6, <1>7 DEF LogDoes, fs

-----------------------------------------------------------------------------
(* What a step does to the pipe *)

\* t does something that is not about the pipe.
Quiet(t) ==
  /\ UNCHANGED pipeVars
  /\ call[t].pc \notin Sending \cup {"dead"}
  /\ \E f \in Frame :
       /\ Become(t, f)
       /\ f.pc \notin Sending \cup {"dead"} /\ f.next \in Labels
       /\ f.pc = "connect" => dll = "out" /\ dll' = "attach"

\* t has an event for both sinks.
Offers(t) ==
  /\ UNCHANGED pipeVars
  /\ call[t].pc \notin Sending \cup {"dead"}
  /\ \E f \in Frame :
       Become(t, f) /\ f.pc = "send" /\ f.ev # NoEvent /\ f.next \in Labels

\* ExitProcess: t has a last event, the others are gone.
LastOffer(t) ==
  /\ UNCHANGED pipeVars
  /\ call[t] = Idle
  /\ \E f \in Frame :
       /\ call' = [u \in Thread |-> IF u = t THEN f ELSE Dead]
       /\ f.pc = "send" /\ f.ev # NoEvent /\ f.next \in Labels

\* The threads inside the DLL are terminated, or their code is.
Dies ==
  /\ UNCHANGED pipeVars
  /\ \E S \in SUBSET Thread :
       /\ call' = [u \in Thread |-> IF u \in S THEN Dead ELSE Idle]
       /\ \A u \in Thread \ S : call[u].pc \notin Sending \cup {"dead"}

LEMMA QuietGoto ==
  ASSUME TypeOK, CallInv, NEW t \in Thread,
         NEW p \in PC \ (Sending \cup {"dead", "connect"}), Goto(t, p),
         call[t].pc \notin Sending \cup {"dead"}, UNCHANGED pipeVars
  PROVE  Quiet(t)
<1> DEFINE f == [call[t] EXCEPT !.pc = p]
<1>1. f \in Frame /\ f.pc = p /\ f.next = call[t].next
  BY GotoType
<1>2. Become(t, f)
  BY DEF Goto
<1> HIDE DEF f
<1>3. call[t].next \in Labels
  BY DEF CallInv
<1>4. QED
  BY <1>1, <1>2, <1>3 DEF Quiet

LEMMA QuietResume ==
  ASSUME TypeOK, NEW t \in Thread,
         NEW p \in PC \ (Sending \cup {"dead", "connect"}), Resume(t, p),
         call[t].pc \notin Sending \cup {"dead"}, UNCHANGED pipeVars
  PROVE  Quiet(t)
<1>1. PICK f \in Frame : Become(t, f) /\ f.pc = p /\ f.next = "idle"
  BY ResumeType
<1>2. QED
  BY <1>1 DEF Quiet, Labels

LEMMA QuietIdle ==
  ASSUME NEW t \in Thread, Become(t, Idle),
         call[t].pc \notin Sending \cup {"dead"}, UNCHANGED pipeVars
  PROVE  Quiet(t)
  BY FrameTypes DEF Quiet, Labels, Sending

LEMMA EmitOffers ==
  ASSUME TypeOK, NEW t \in Thread, NEW e \in Event \ {NoEvent}, NEW label \in Labels,
         Become(t, EmitFrame(t, e, "send", label)),
         call[t].pc \notin Sending \cup {"dead"}, UNCHANGED pipeVars
  PROVE  Offers(t)
<1>1. label \in PC
  BY DEF Labels, PC
<1>2. QED
  BY <1>1, EmitFrameType DEF Offers

\* A notification of the loader.
LEMMA NotificationKind ==
  ASSUME TypeOK, CallInv, NEW t \in Thread, NEW m \in Module,
         NEW kind \in {"module_loaded", "module_unloaded"},
         NEW label \in {"unlockLoader", "load"},
         OnLdrNotification(t, kind, m, label),
         call[t].pc \notin Sending \cup {"dead"}, UNCHANGED pipeVars
  PROVE  Quiet(t) \/ Offers(t)
<1>1. /\ ModuleEvent(kind, m) \in Event \ {NoEvent} /\ label \in Labels
      /\ label \in PC \ (Sending \cup {"dead", "connect"})
  BY EventTypes DEF Labels, PC, Sending
<1>2. CASE registered
  BY <1>1, <1>2, EmitOffers DEF OnLdrNotification
<1>3. CASE ~registered
  BY <1>1, <1>3, QuietGoto DEF OnLdrNotification
<1>4. QED
  BY <1>2, <1>3

\* The steps that begin something.
LEMMA EnvironmentKind ==
  ASSUME TypeOK, CallInv, NEW t \in Thread, Environment(t)
  PROVE  Quiet(t) \/ Offers(t) \/ LastOffer(t)
<1> USE DEF lifeVars, moduleVars, logVars
<1>1. call[t] = Idle /\ call[t].pc \notin Sending \cup {"dead"} /\ call[t] \in Frame
  BY FrameTypes DEF Environment, Attach, ObjectEvent, StartLogging, StopLogging, LoadModule,
     UnloadModule, Detach, Begin, Sending
<1>2. CASE Attach(t)
  <2> DEFINE f == [Idle EXCEPT !.op = "attach", !.pc = "connect"]
  <2>1. f \in Frame /\ f.pc = "connect" /\ f.next \in Labels
    BY FrameTypes DEF Frame, PC, Labels
  <2>2. Become(t, f) /\ dll = "out" /\ dll' = "attach" /\ UNCHANGED pipeVars
    BY <1>2 DEF Attach
  <2> HIDE DEF f
  <2>3. QED
    BY <1>1, <2>1, <2>2 DEF Quiet, Sending
<1>3. CASE ObjectEvent(t)
  <2> DEFINE e == [Plain("object") EXCEPT !.n = ops + 1]
             f == [EmitFrame(t, e, "send", "idle") EXCEPT !.op = "object"]
  <2>1. e \in Event \ {NoEvent}
    <3>1. ops + 1 \in Nat
      BY DEF TypeOK
    <3>2. QED
      BY <3>1, EventTypes
  <2>2. Become(t, f) /\ UNCHANGED pipeVars
    BY <1>3 DEF ObjectEvent
  <2> HIDE DEF e
  <2>3. f \in Frame /\ f.pc = "send" /\ f.ev = e /\ f.next = "idle"
    <3>1. "idle" \in PC
      BY DEF PC
    <3>2. QED
      BY <2>1, <3>1, EmitFrameType DEF Frame
  <2> HIDE DEF f
  <2>4. QED
    BY <1>1, <2>1, <2>2, <2>3 DEF Offers, Labels
<1>4. ASSUME NEW p \in {"open", "close"}, NEW op \in {"start", "stop"},
             Become(t, [Idle EXCEPT !.op = op, !.pc = p]), UNCHANGED pipeVars
      PROVE  Quiet(t)
  <2> DEFINE f == [Idle EXCEPT !.op = op, !.pc = p]
  <2>1. f \in Frame /\ f.pc = p /\ f.next \in Labels
    BY FrameTypes DEF Frame, PC, Labels
  <2> HIDE DEF f
  <2>2. Become(t, f)
    BY <1>4 DEF f
  <2>3. QED
    BY <1>1, <1>4, <2>1, <2>2 DEF Quiet, Sending
<1>5. CASE StopLogging(t) \/ \E callstacks \in BOOLEAN : StartLogging(t, callstacks)
  BY <1>4, <1>5 DEF StartLogging, StopLogging
<1>6. CASE \E m \in Module : LoadModule(t, m) \/ UnloadModule(t, m)
  BY <1>1, <1>6, NotificationKind DEF LoadModule, UnloadModule
<1>7. ASSUME NEW op \in {"detach", "exit"}, Detach(t, op)
      PROVE  Offers(t) \/ LastOffer(t)
  <2> DEFINE f == [EmitFrame(t, Plain("goodbye"), "send", "unregister") EXCEPT !.op = op]
  <2>1. Plain("goodbye") \in Event \ {NoEvent}
    BY EventTypes
  <2>2. f \in Frame /\ f.pc = "send" /\ f.ev = Plain("goodbye") /\ f.next = "unregister"
    <3>1. "unregister" \in PC
      BY DEF PC
    <3>2. QED
      BY <2>1, <3>1, EmitFrameType DEF Frame
  <2>3. UNCHANGED pipeVars /\ IF op = "exit" THEN call' = [u \in Thread |-> IF u = t THEN f ELSE Dead]
                              ELSE Become(t, f)
    BY <1>7 DEF Detach
  <2> HIDE DEF f
  <2>4. QED
    BY <1>1, <2>1, <2>2, <2>3 DEF Offers, LastOffer, Labels
<1>8. QED
  BY <1>2, <1>3, <1>5, <1>6, <1>7 DEF Environment

\* The steps that go on with it.
LEMMA ContinueKind ==
  ASSUME TypeOK, CallInv, NEW t \in Thread, Continue(t)
  PROVE  \/ SendCheck(t) \/ SendHeader(t) \/ SendPayload(t)
         \/ Connect(t) \/ ClosePipeAtDetach(t)
         \/ Quiet(t) \/ Offers(t) \/ Dies
<1> USE DEF lifeVars, moduleVars, logVars
<1>1. /\ call[t] \in Frame /\ call[t].next \in Labels
      /\ Labels \subseteq PC \ (Sending \cup {"dead", "connect"})
  BY DEF TypeOK, CallInv, Labels, PC, Sending
<1> DEFINE Outside == call[t].pc \notin Sending \cup {"dead"}
<1>2. {"lock", "line", "enum", "register", "load", "install", "close", "open", "idle",
       "closePipe", "closeLog"} \subseteq PC \ (Sending \cup {"dead", "connect"})
  BY DEF PC, Sending
<1>3. CASE AppendCheck(t) \/ AppendLock(t) \/ WriteLine(t)
  <2>1. Outside /\ UNCHANGED pipeVars
    BY <1>3 DEF AppendCheck, AppendLock, WriteLine, Sending
  <2>2. Resume(t, call[t].next) \/ Goto(t, "lock") \/ Goto(t, "line")
    BY <1>3 DEF AppendCheck, AppendLock, WriteLine
  <2>3. QED
    BY <1>1, <1>2, <2>1, <2>2, QuietGoto, QuietResume
<1>4. AfterTracking(t) \in {"load", "idle"}
  BY DEF AfterTracking
<1>5. CASE StartModuleTracking(t)
  <2>1. Outside /\ UNCHANGED pipeVars
    BY <1>5 DEF StartModuleTracking, Sending
  <2>2. CASE capture /\ ~started
    <3>1. PICK ms \in Enumerated : Become(t, [call[t] EXCEPT !.pc = "enum", !.todo = ms])
      BY <1>5, <2>2 DEF StartModuleTracking, Enumerate
    <3> DEFINE f == [call[t] EXCEPT !.pc = "enum", !.todo = ms]
    <3>2. ms \in SUBSET Module
      BY DEF Enumerated, TypeOK
    <3>3. f \in Frame /\ f.pc = "enum" /\ f.next \in Labels
      BY <1>1, <3>2 DEF Frame, PC
    <3>4. Become(t, f)
      BY <3>1
    <3> HIDE DEF f
    <3>5. QED
      BY <2>1, <3>3, <3>4 DEF Quiet, Sending
  <2>3. CASE ~(capture /\ ~started)
    <3>1. Resume(t, AfterTracking(t))
      BY <1>5, <2>3 DEF StartModuleTracking
    <3>2. QED
      BY <1>2, <1>4, <2>1, <3>1, QuietResume
  <2>4. QED
    BY <2>2, <2>3
<1>6. CASE EmitModuleLoaded(t)
  <2>1. Outside /\ UNCHANGED pipeVars
    BY <1>6 DEF EmitModuleLoaded, Sending
  <2>2. CASE call[t].todo = {}
    BY <1>2, <1>6, <2>1, <2>2, QuietGoto DEF EmitModuleLoaded
  <2>3. CASE call[t].todo # {}
    <3> DEFINE g(m) == EmitFrame(t, ModuleEvent("module_loaded", m), "send", "enum")
               f(m) == [g(m) EXCEPT !.todo = @ \ {m}]
    <3>1. PICK m \in call[t].todo : Become(t, f(m))
      BY <1>6, <2>3 DEF EmitModuleLoaded
    <3>2. m \in Module
      BY <1>1 DEF Frame
    <3>3. ModuleEvent("module_loaded", m) \in Event \ {NoEvent}
      BY <3>2, EventTypes
    <3>4. /\ g(m) \in Frame /\ g(m).pc = "send" /\ g(m).next = "enum"
          /\ g(m).ev = ModuleEvent("module_loaded", m)
      <4>1. "enum" \in PC
        BY DEF PC
      <4>2. QED
        BY <3>3, <4>1, EmitFrameType
    <3> HIDE DEF g
    <3>5. f(m) \in Frame /\ f(m).pc = "send" /\ f(m).next = "enum" /\ f(m).ev # NoEvent
      BY <3>3, <3>4 DEF Frame
    <3> HIDE DEF f
    <3>6. QED
      BY <2>1, <3>1, <3>5 DEF Offers, Labels
  <2>4. QED
    BY <2>2, <2>3
<1>7. CASE FaultOnUnmapped(t)
  <2>1. call' = [u \in Thread |-> IF u \in Thread THEN Dead ELSE Idle] /\ UNCHANGED pipeVars
    BY <1>7 DEF FaultOnUnmapped
  <2>2. QED
    BY <2>1 DEF Dies
<1>8. CASE Register(t)
  <2>1. Outside /\ UNCHANGED pipeVars /\ Resume(t, AfterTracking(t))
    BY <1>8 DEF Register, Sending
  <2>2. QED
    BY <1>2, <1>4, <2>1, QuietResume
<1>9. CASE UnlockLoader(t) \/ InstallExportHooks(t) \/ CloseLog(t)
  <2>1. Outside /\ UNCHANGED pipeVars /\ Become(t, Idle)
    BY <1>9 DEF UnlockLoader, InstallExportHooks, CloseLog, Sending
  <2>2. QED
    BY <2>1, QuietIdle
<1>10. ASSUME NEW e \in Event \ {NoEvent}, NEW first \in {"send", "append"},
              Become(t, EmitFrame(t, e, first, "track")), Outside, UNCHANGED pipeVars
       PROVE  Quiet(t) \/ Offers(t)
  <2> DEFINE f == EmitFrame(t, e, first, "track")
  <2>1. "track" \in PC
    BY DEF PC
  <2>2. Become(t, f)
    BY <1>10
  <2>3. f \in Frame /\ f.pc = first /\ f.ev = e /\ f.next = "track"
    BY <2>1, EmitFrameType
  <2> HIDE DEF f
  <2>5. CASE first = "send"
    BY <1>10, <2>2, <2>3, <2>5 DEF Offers, Labels
  <2>6. CASE first = "append"
    BY <1>10, <2>2, <2>3, <2>6 DEF Quiet, Labels, Sending
  <2>7. QED
    BY <2>5, <2>6
<1>12. Plain("hello") \in Event \ {NoEvent}
  BY EventTypes
<1>13. CASE OpenAtAttach(t)
  <2>1. Outside /\ UNCHANGED pipeVars /\ OpenLog("attach")
        /\ Become(t, EmitFrame(t, Plain("hello"), "send", "track"))
    BY <1>13 DEF OpenAtAttach, Sending
  <2>2. QED
    BY <1>10, <1>12, <2>1
<1>14. CASE OpenAtStart(t)
  <2>1. Outside /\ UNCHANGED pipeVars /\ OpenLog("start")
    BY <1>14 DEF OpenAtStart, Sending
  <2>2. CASE file_' = 0
    BY <1>14, <2>1, <2>2, QuietIdle DEF OpenAtStart
  <2>3. CASE file_' # 0
    <3>1. Become(t, EmitFrame(t, Plain("hello"), "append", "track"))
      BY <1>14, <2>3 DEF OpenAtStart
    <3>2. QED
      BY <1>10, <1>12, <2>1, <3>1
  <2>4. QED
    BY <2>2, <2>3
<1>15. CASE LoadD3D12(t)
  <2>1. Outside /\ UNCHANGED pipeVars
    BY <1>15 DEF LoadD3D12, Sending
  <2>2. \/ Goto(t, "install")
        \/ \E m \in Module : OnLdrNotification(t, "module_loaded", m, "load")
    BY <1>15 DEF LoadD3D12
  <2>3. QED
    BY <1>2, <2>1, <2>2, QuietGoto, NotificationKind
<1>16. CASE StopModuleTracking(t)
  <2>1. Outside /\ UNCHANGED pipeVars /\ Goto(t, "closePipe")
    BY <1>16 DEF StopModuleTracking, Sending
  <2>2. QED
    BY <1>2, <2>1, QuietGoto
<1>17. CASE CloseLogAtDetach(t)
  <2> DEFINE S == {u \in Thread : call[t].op = "exit" \/ (u # t /\ call[u] # Idle)}
  <2>1. Outside /\ UNCHANGED pipeVars
    BY <1>17 DEF CloseLogAtDetach, Sending
  <2>2. call' = [u \in Thread |-> IF u \in S THEN Dead ELSE Idle]
    BY <1>17 DEF CloseLogAtDetach
  <2>3. \A u \in Thread \ S : u = t \/ call[u] = Idle
    OBVIOUS
  <2>4. Idle.pc \notin Sending \cup {"dead"}
    BY FrameTypes DEF Sending
  <2>5. QED
    BY <2>1, <2>2, <2>3, <2>4 DEF Dies
<1>18. QED
  BY <1>3, <1>5, <1>6, <1>7, <1>8, <1>9, <1>13, <1>14, <1>15, <1>16, <1>17 DEF Continue

\* What a step is for the pipe.
PipeStep(t) ==
  \/ SendCheck(t) \/ SendHeader(t) \/ SendPayload(t)
  \/ Connect(t) \/ ClosePipeAtDetach(t)
  \/ Quiet(t) \/ Offers(t) \/ LastOffer(t)

LEMMA StepKind ==
  ASSUME TypeOK, CallInv, [Next]_vars
  PROVE  \/ UNCHANGED <<call, pipeVars>> \/ LauncherActs \/ Dies
         \/ \E t \in Thread : PipeStep(t)
<1>1. UNCHANGED vars => UNCHANGED <<call, pipeVars>>
  BY DEF vars
<1>2. ASSUME NEW t \in Thread, Environment(t) \/ Continue(t)
      PROVE  Dies \/ PipeStep(t)
  BY <1>2, EnvironmentKind, ContinueKind DEF PipeStep
<1>3. QED
  BY <1>1, <1>2 DEF Next

\* Send and Connect move on and take the event with them.
LEMMA SendMoves ==
  ASSUME TypeOK, NEW t \in Thread,
         SendCheck(t) \/ SendHeader(t) \/ SendPayload(t) \/ Connect(t) \/ ClosePipeAtDetach(t)
  PROVE  \E p \in {"header", "payload", "append", "open", "closeLog"} :
           /\ call' \in [Thread -> Frame]
           /\ call'[t].pc = p /\ call'[t].ev = call[t].ev /\ call'[t].next = call[t].next
           /\ \A u \in Thread \ {t} : call'[u] = call[u]
           /\ p \in Sending => call[t].pc \in Sending
<1>0. CASE WaitForReader(t) /\ call[t].pc = "header"
  BY <1>0 DEF WaitForReader, TypeOK, Sending
<1> SUFFICES ASSUME ~(WaitForReader(t) /\ call[t].pc = "header")
             PROVE  \E p \in {"header", "payload", "append", "open", "closeLog"} :
                      /\ call' \in [Thread -> Frame]
                      /\ call'[t].pc = p /\ call'[t].ev = call[t].ev
                      /\ call'[t].next = call[t].next
                      /\ \A u \in Thread \ {t} : call'[u] = call[u]
                      /\ p \in Sending => call[t].pc \in Sending
  BY <1>0
<1>1. PICK p \in {"header", "payload", "append", "open", "closeLog"} :
        Goto(t, p) /\ (p \in Sending => call[t].pc \in Sending)
  BY DEF SendCheck, SendHeader, SendPayload, WriteHeader, WritePayload, WriteFails, Connect,
     ClosePipeAtDetach, Sending
<1> DEFINE f == [call[t] EXCEPT !.pc = p]
<1>2. p \in PC
  BY DEF PC
<1>3. f \in Frame /\ f.pc = p /\ f.ev = call[t].ev /\ f.next = call[t].next
  BY <1>2, GotoType
<1>4. Become(t, f)
  BY <1>1 DEF Goto
<1> HIDE DEF f
<1>5. QED
  BY <1>1, <1>3, <1>4, BecomeStep

\* Frames stay frames, what is sent is an event, and Connect is reached from
\* Attach only.
LEMMA CallStep ==
  ASSUME TypeOK, CallInv, [Next]_vars
  PROVE  /\ call' \in [Thread -> Frame]
         /\ CallInv'
         /\ \A u \in Thread : call'[u].pc = "connect" =>
              call'[u] = call[u] \/ (dll = "out" /\ dll' = "attach")
<1> DEFINE Goal == /\ call' \in [Thread -> Frame]
                   /\ CallInv'
                   /\ \A u \in Thread : call'[u].pc = "connect" =>
                        call'[u] = call[u] \/ (dll = "out" /\ dll' = "attach")
<1>1. CASE UNCHANGED <<call, pipeVars>> \/ LauncherActs
  <2>1. UNCHANGED call
    BY <1>1 DEF LauncherActs, ServerCloses, ServerReads
  <2>2. QED
    BY <2>1 DEF TypeOK, CallInv
<1>2. CASE Dies
  <2>1. \A u \in Thread : call'[u] \in {Dead, Idle}
    BY <1>2 DEF Dies
  <2>2. call' \in [Thread -> Frame]
    BY <1>2, FrameTypes DEF Dies
  <2>3. QED
    BY <2>1, <2>2, FrameTypes DEF CallInv, Labels, Sending
<1>3. ASSUME NEW t \in Thread,
             SendCheck(t) \/ SendHeader(t) \/ SendPayload(t) \/ Connect(t) \/ ClosePipeAtDetach(t)
      PROVE  Goal
  <2>1. PICK p \in {"header", "payload", "append", "open", "closeLog"} :
           /\ call' \in [Thread -> Frame]
           /\ call'[t].pc = p /\ call'[t].ev = call[t].ev /\ call'[t].next = call[t].next
           /\ \A u \in Thread \ {t} : call'[u] = call[u]
           /\ p \in Sending => call[t].pc \in Sending
    BY <1>3, SendMoves
  <2>2. QED
    BY <2>1 DEF CallInv
<1>4. ASSUME NEW t \in Thread, Quiet(t) \/ Offers(t)
      PROVE  Goal
  <2>1. PICK f \in Frame :
          /\ Become(t, f) /\ f.next \in Labels
          /\ f.pc \in Sending => f.ev # NoEvent
          /\ f.pc = "connect" => dll = "out" /\ dll' = "attach"
    BY <1>4 DEF Quiet, Offers
  <2>2. /\ call' \in [Thread -> Frame] /\ call'[t] = f
        /\ \A u \in Thread \ {t} : call'[u] = call[u]
    BY <2>1, BecomeStep
  <2>3. QED
    BY <2>1, <2>2 DEF CallInv
<1>5. ASSUME NEW t \in Thread, LastOffer(t)
      PROVE  Goal
  <2>1. PICK f \in Frame :
          /\ call' = [u \in Thread |-> IF u = t THEN f ELSE Dead]
          /\ f.pc = "send" /\ f.ev # NoEvent /\ f.next \in Labels
    BY <1>5 DEF LastOffer
  <2>2. call' \in [Thread -> Frame] /\ \A u \in Thread : call'[u] \in {f, Dead}
    BY <2>1, FrameTypes
  <2>3. QED
    BY <2>1, <2>2, FrameTypes DEF CallInv, Labels, Sending
<1>6. QED
  BY <1>1, <1>2, <1>3, <1>4, <1>5, StepKind DEF PipeStep

\* The pipe is connected by a thread that is alone: OnAttach runs under the
\* loader lock in a target that has no hooks yet.
LEMMA AloneStep ==
  ASSUME TypeOK, CallInv, AloneInv, [Next]_vars
  PROVE  AloneInv'
<1> USE DEF lifeVars, moduleVars, logVars
<1>1. \A u \in Thread : call'[u].pc = "connect" =>
        call'[u] = call[u] \/ (dll = "out" /\ dll' = "attach")
  BY CallStep
<1>2. CASE UNCHANGED vars \/ LauncherActs
  BY <1>2 DEF vars, LauncherActs, ServerCloses, ServerReads, pipeVars, AloneInv, Fresh
<1>3. ASSUME NEW t \in Thread, Environment(t)
      PROVE  AloneInv'
  <2>1. CASE Attach(t)
    <3> DEFINE f == [Idle EXCEPT !.op = "attach", !.pc = "connect"]
    <3>1. Fresh /\ dll' = "attach" /\ UNCHANGED pipeVars /\ \A u \in Thread : call[u] = Idle
      BY <2>1 DEF Attach, AloneInv
    <3>2. f \in Frame
      BY FrameTypes DEF Frame, PC
    <3>3. Become(t, f)
      BY <2>1 DEF Attach
    <3>4. \A u \in Thread \ {t} : call'[u] = Idle
      BY <3>1, <3>2, <3>3, BecomeStep
    <3>5. \A u \in Thread \ {t} : call'[u].pc # "connect"
      BY <3>4, FrameTypes
    <3>6. Fresh'
      BY <3>1 DEF Fresh, pipeVars
    <3>7. QED
      BY <3>1, <3>4, <3>5, <3>6 DEF AloneInv
  <2>2. CASE ~Attach(t)
    <3>1. dll \in {"in", "detach"} /\ dll' # "out"
      BY <1>3, <2>2 DEF Environment, ObjectEvent, StartLogging, StopLogging, LoadModule,
         UnloadModule, Detach
    <3>2. \A u \in Thread : call[u].pc # "connect"
      BY <3>1 DEF AloneInv
    <3>3. \A u \in Thread : call'[u].pc # "connect"
      BY <1>1, <3>1, <3>2
    <3>4. QED
      BY <3>1, <3>3 DEF AloneInv
  <2>3. QED
    BY <2>1, <2>2
<1>4. ASSUME NEW t \in Thread, Continue(t)
      PROVE  AloneInv'
  <2>1. call[t].pc # "idle"
    BY <1>4 DEF Continue, SendCheck, SendHeader, SendPayload, AppendCheck, AppendLock,
       WriteLine, StartModuleTracking, EmitModuleLoaded, FaultOnUnmapped, Register,
       UnlockLoader, Connect, OpenAtAttach, LoadD3D12, InstallExportHooks, OpenAtStart,
       CloseLog, StopModuleTracking, ClosePipeAtDetach, CloseLogAtDetach
  <2>2. dll # "out"
    BY <2>1, FrameTypes DEF AloneInv
  <2>3. dll' # "out"
    BY <1>4, <2>2 DEF Continue, SendCheck, SendHeader, SendPayload, AppendCheck, AppendLock,
       WriteLine, StartModuleTracking, EmitModuleLoaded, FaultOnUnmapped, Register,
       UnlockLoader, Connect, OpenAtAttach, LoadD3D12, InstallExportHooks, OpenAtStart,
       CloseLog, StopModuleTracking, ClosePipeAtDetach, CloseLogAtDetach
  <2>4. ASSUME NEW u \in Thread, call'[u].pc = "connect"
        PROVE  FALSE
    <3>1. call'[u] = call[u]
      BY <1>1, <2>2, <2>4
    <3>2. u = t
      BY <2>1, <2>4, <3>1, FrameTypes DEF AloneInv
    <3>3. Connect(t)
      BY <1>4, <2>4, <3>1, <3>2 DEF Continue, SendCheck, SendHeader, SendPayload,
         AppendCheck, AppendLock, WriteLine, StartModuleTracking, EmitModuleLoaded,
         FaultOnUnmapped, Register, UnlockLoader, OpenAtAttach, LoadD3D12,
         InstallExportHooks, OpenAtStart, CloseLog, StopModuleTracking, ClosePipeAtDetach,
         CloseLogAtDetach
    <3>4. call'[t].pc # "connect"
      BY <3>3, SendMoves
    <3>5. QED
      BY <2>4, <3>2, <3>4
  <2>5. QED
    BY <2>3, <2>4 DEF AloneInv
<1>5. QED
  BY <1>2, <1>3, <1>4 DEF Next

-----------------------------------------------------------------------------
(* The pipe *)

PipeOK ==
  /\ {pipe_, server} \subseteq BOOLEAN
  /\ pipe_closed \in Nat
  /\ pipe_mu \in Thread \cup {NoThread}
  /\ wire \in Seq(Chunk)

LEMMA Parity == \A n \in Nat : Odd(n + 1) <=> ~Odd(n)
  BY DEF Odd

\* Only SendHeader leads to the second write.
LEMMA PayloadFrom ==
  ASSUME TypeOK, CallInv, [Next]_vars, NEW u \in Thread, call'[u].pc = "payload"
  PROVE  call'[u] = call[u] \/ SendHeader(u)
<1>1. CASE UNCHANGED <<call, pipeVars>> \/ LauncherActs
  BY <1>1 DEF LauncherActs, ServerCloses, ServerReads
<1>2. CASE Dies
  <2>1. call'[u] \in {Dead, Idle}
    BY <1>2 DEF Dies
  <2>2. QED
    BY <2>1, FrameTypes
<1>3. ASSUME NEW t \in Thread, Quiet(t) \/ Offers(t)
      PROVE  call'[u] = call[u]
  <2>1. PICK f \in Frame : Become(t, f) /\ f.pc # "payload"
    BY <1>3 DEF Quiet, Offers, Sending
  <2>2. QED
    BY <2>1, BecomeStep
<1>4. ASSUME NEW t \in Thread, LastOffer(t)
      PROVE  FALSE
  <2>1. PICK f \in Frame : f.pc = "send" /\ call'[u] \in {f, Dead}
    BY <1>4 DEF LastOffer
  <2>2. QED
    BY <2>1, FrameTypes
<1>5. ASSUME NEW t \in Thread, SendCheck(t) \/ SendPayload(t) \/ Connect(t) \/ ClosePipeAtDetach(t)
      PROVE  call'[u] = call[u]
  <2>1. CASE u # t
    BY <1>5, <2>1, SendMoves
  <2>2. PICK p \in {"header", "append", "open", "closeLog"} : Goto(t, p)
    BY <1>5 DEF SendCheck, SendPayload, WriteFails, WritePayload, Connect, ClosePipeAtDetach
  <2>3. p \in PC
    BY DEF PC
  <2>4. call'[t].pc = p
    <3> DEFINE f == [call[t] EXCEPT !.pc = p]
    <3>1. f \in Frame /\ f.pc = p /\ Become(t, f)
      BY <2>2, <2>3, GotoType DEF Goto
    <3> HIDE DEF f
    <3>2. QED
      BY <3>1, BecomeStep
  <2>5. QED
    BY <2>1, <2>4
<1>6. ASSUME NEW t \in Thread, SendHeader(t)
      PROVE  call'[u] = call[u] \/ SendHeader(u)
  BY <1>6, SendMoves
<1>7. QED
  BY <1>1, <1>2, <1>3, <1>4, <1>5, <1>6, StepKind DEF PipeStep

\* Who is writing, or is dead, stays where it is or dies, if it is not for its
\* own write.
LEMMA HolderFrom ==
  ASSUME TypeOK, CallInv, [Next]_vars, NEW u \in Thread,
         call[u].pc \in {"header", "payload", "dead"}
  PROVE  call'[u] = call[u] \/ call'[u].pc = "dead" \/ SendHeader(u) \/ SendPayload(u)
<1>1. CASE UNCHANGED <<call, pipeVars>> \/ LauncherActs
  BY <1>1 DEF LauncherActs, ServerCloses, ServerReads
<1>2. CASE Dies
  BY <1>2, FrameTypes DEF Dies, Sending
<1>3. ASSUME NEW t \in Thread, Quiet(t) \/ Offers(t)
      PROVE  call'[u] = call[u]
  <2>1. u # t
    BY <1>3 DEF Quiet, Offers, Sending
  <2>2. PICK f \in Frame : Become(t, f)
    BY <1>3 DEF Quiet, Offers
  <2>3. QED
    BY <2>1, <2>2, BecomeStep
<1>4. ASSUME NEW t \in Thread, LastOffer(t)
      PROVE  call'[u].pc = "dead"
  BY <1>4, FrameTypes DEF LastOffer
<1>5. ASSUME NEW t \in Thread, SendCheck(t) \/ Connect(t) \/ ClosePipeAtDetach(t)
      PROVE  call'[u] = call[u]
  <2>1. u # t
    BY <1>5 DEF SendCheck, Connect, ClosePipeAtDetach
  <2>2. QED
    BY <1>5, <2>1, SendMoves
<1>6. ASSUME NEW t \in Thread, SendHeader(t) \/ SendPayload(t)
      PROVE  call'[u] = call[u] \/ SendHeader(u) \/ SendPayload(u)
  BY <1>6, SendMoves
<1>7. QED
  BY <1>1, <1>2, <1>3, <1>4, <1>5, <1>6, StepKind DEF PipeStep

\* Send's writes: t holds the lock from the header to the payload, so that the
\* payload that follows a header is its own.
LEMMA WriteStep ==
  ASSUME PipeOK, WireWellFramed, NEW e \in Event, NEW part \in {"header", "payload"},
         IF Odd(Len(wire)) THEN part = "payload" /\ wire[Len(wire)].ev = e
                           ELSE part = "header",
         wire' = Append(wire, [part |-> part, ev |-> e])
  PROVE  /\ wire' \in Seq(Chunk) /\ Len(wire') = Len(wire) + 1
         /\ wire'[Len(wire')] = [part |-> part, ev |-> e]
         /\ \A i \in 1..Len(wire) : wire'[i] = wire[i]
         /\ WireWellFramed'
<1> DEFINE c == [part |-> part, ev |-> e]
<1>1. c \in Chunk /\ c.part = part /\ c.ev = e
  BY DEF Chunk
<1> HIDE DEF c
<1>2. /\ Append(wire, c) \in Seq(Chunk) /\ Len(Append(wire, c)) = Len(wire) + 1
      /\ \A i \in 1..Len(wire) : Append(wire, c)[i] = wire[i]
      /\ Append(wire, c)[Len(wire) + 1] = c
      /\ Len(wire) \in Nat
  BY <1>1, AppendProperties, LenProperties DEF PipeOK
<1>3. wire' = Append(wire, c)
  BY DEF c
<1>4. ASSUME NEW i \in 1..Len(wire')
      PROVE  IF i % 2 = 1 THEN wire'[i].part = "header"
             ELSE wire'[i].part = "payload" /\ wire'[i].ev = wire'[i - 1].ev
  <2>1. CASE i \in 1..Len(wire)
    <3>1. IF i % 2 = 1 THEN wire[i].part = "header"
          ELSE wire[i].part = "payload" /\ wire[i].ev = wire[i - 1].ev
      BY <2>1 DEF WireWellFramed
    <3>2. i % 2 # 1 => i - 1 \in 1..Len(wire)
      BY <1>2, <2>1
    <3>3. QED
      BY <1>2, <1>3, <2>1, <3>1, <3>2
  <2>2. CASE i = Len(wire) + 1
    <3>1. i % 2 = 1 <=> ~Odd(Len(wire))
      BY <1>2, <2>2 DEF Odd
    <3>2. wire'[i] = c
      BY <1>2, <1>3, <2>2
    <3>3. Odd(Len(wire)) => i - 1 \in 1..Len(wire) /\ i - 1 = Len(wire)
      BY <1>2, <2>2 DEF Odd
    <3>4. CASE Odd(Len(wire))
      <4>1. wire'[i - 1] = wire[Len(wire)]
        BY <1>2, <1>3, <3>3, <3>4
      <4>2. part = "payload" /\ wire[Len(wire)].ev = e
        BY <3>4
      <4>3. QED
        BY <1>1, <3>1, <3>2, <3>4, <4>1, <4>2
    <3>5. CASE ~Odd(Len(wire))
      BY <1>1, <3>1, <3>2, <3>5
    <3>6. QED
      BY <3>4, <3>5
  <2>3. i \in 1..Len(wire) \/ i = Len(wire) + 1
    <3>1. Len(wire') = Len(wire) + 1
      BY <1>2, <1>3
    <3>2. i \in 1..(Len(wire) + 1)
      BY <3>1
    <3>3. QED
      BY <1>2, <3>2
  <2>4. QED
    BY <2>1, <2>2, <2>3, Zenon
<1>5. WireWellFramed'
  BY <1>4 DEF WireWellFramed
<1>6. QED
  BY <1>2, <1>3, <1>5 DEF c

\* Closing the pipe where it may be open, and connecting it once.
LEMMA FramingStep ==
  ASSUME TypeOK, CallInv, AloneInv, FramingInv, HandleInv, PipeOK, [Next]_vars
  PROVE  FramingInv' /\ HandleInv' /\ PipeOK'
<1> USE ConstantsAssumption
<1>1. Len(wire) \in Nat
  BY LenProperties DEF PipeOK
<1> DEFINE Holds(t) == \/ call[t].pc = "header" /\ ~Odd(Len(wire))
                       \/ call[t].pc \in {"payload", "dead"}
<1>0. ASSUME UNCHANGED <<wire, pipe_mu>>, NEW u \in Thread, pipe_mu = u
      PROVE  Holds(u)'
  <2>1. Holds(u)
    BY <1>0 DEF FramingInv
  <2>2. ~SendPayload(u)
    BY <1>0 DEF SendPayload, WriteFails
  <2>3. ~WriteHeader(u)
    <3> DEFINE c == [part |-> "header", ev |-> call[u].ev]
    <3>1. c \in Chunk
      BY DEF Chunk, TypeOK, Frame
    <3>2. WriteHeader(u) => wire' = Append(wire, c)
      BY DEF WriteHeader, Write
    <3> HIDE DEF c
    <3>3. Len(Append(wire, c)) = Len(wire) + 1
      BY <3>1, AppendProperties DEF PipeOK
    <3>4. QED
      BY <1>0, <1>1, <3>2, <3>3
  <2>4. ~SendHeader(u)
    BY <1>0, <2>3 DEF SendHeader, WaitForReader, WriteFails
  <2>5. call'[u] = call[u] \/ call'[u].pc = "dead"
    BY <2>1, <2>2, <2>4, HolderFrom
  <2>6. QED
    BY <1>0, <2>1, <2>5
<1> HIDE DEF Holds
<1>2. ASSUME UNCHANGED <<wire, pipe_mu>>,
             \A u \in Thread : call'[u].pc = "payload" => call'[u] = call[u],
             pipe_' => pipe_
      PROVE  FramingInv'
  <2>1. WireWellFramed'
    BY <1>2 DEF FramingInv, WireWellFramed
  <2>2. \A u \in Thread : (pipe_mu = u)' => Holds(u)'
    BY <1>0, <1>2
  <2>3. QED
    BY <1>2, <2>1, <2>2 DEF FramingInv, Holds
<1>3. ASSUME UNCHANGED pipeVars,
             \A u \in Thread : call'[u].pc = "payload" => call'[u] = call[u]
      PROVE  FramingInv' /\ HandleInv' /\ PipeOK'
  BY <1>2, <1>3 DEF pipeVars, HandleInv, PipeOK
<1>4. ASSUME ClosePipe
      PROVE  /\ HandleInv' /\ ~pipe_' /\ pipe_' \in BOOLEAN /\ pipe_closed' \in Nat
  <2>1. pipe_' = FALSE /\ pipe_closed \in Nat
    BY <1>4 DEF ClosePipe, PipeOK
  <2>2. ~pipe_' /\ pipe_' \in BOOLEAN
    BY <2>1, Zenon
  <2>3. CASE pipe_
    <3>1. pipe_closed = 0
      BY <2>3, Zenon DEF HandleInv
    <3>2. pipe_closed' = pipe_closed + 1
      BY <1>4, <2>3, Zenon DEF ClosePipe
    <3>3. pipe_closed' <= 1 /\ pipe_closed' \in Nat
      BY <3>1, <3>2
    <3>4. QED
      BY <2>2, <3>3, Zenon DEF HandleInv
  <2>4. CASE ~pipe_
    <3>1. pipe_closed' = pipe_closed /\ pipe_closed <= 1
      BY <1>4, <2>4, Zenon DEF ClosePipe, HandleInv
    <3>2. pipe_closed' <= 1 /\ pipe_closed' \in Nat
      BY <2>1, <3>1
    <3>3. QED
      BY <2>2, <3>2, Zenon DEF HandleInv
  <2>5. QED
    BY <2>3, <2>4
<1>5. ASSUME NEW t \in Thread, SendHeader(t)
      PROVE  FramingInv' /\ HandleInv' /\ PipeOK'
  <2>1. call[t].pc = "header" /\ pipe_mu \in {NoThread, t} /\ call[t].ev \in Event
        /\ UNCHANGED server
    BY <1>5 DEF SendHeader, TypeOK, Frame
  <2>2. \A u \in Thread : call[u].pc # "payload"
    BY <2>1 DEF FramingInv
  <2>3. \A u \in Thread \ {t} : call'[u].pc # "payload"
    BY <1>5, <2>2, SendMoves
  <2>4. CanWrite => ~Odd(Len(wire))
    BY <2>1 DEF FramingInv, CanWrite
  <2>5. CASE WaitForReader(t)
    <3>1. /\ UNCHANGED <<wire, call, pipe_, pipe_closed>> /\ pipe_mu' = t /\ CanWrite
      BY <2>5 DEF WaitForReader
    <3>2. ~Odd(Len(wire'))
      BY <2>4, <3>1
    <3>3. WireWellFramed'
      BY <3>1 DEF FramingInv, WireWellFramed
    <3>4. FramingInv'
      BY <2>1, <2>2, <3>1, <3>2, <3>3 DEF FramingInv
    <3>5. QED
      BY <2>1, <3>1, <3>4 DEF HandleInv, PipeOK
  <2>6. CASE WriteHeader(t) /\ pipe_mu' = t
    <3>1. /\ wire' = Append(wire, [part |-> "header", ev |-> call[t].ev])
          /\ pipe_mu' = t /\ UNCHANGED <<pipe_, pipe_closed>>
          /\ Goto(t, "payload")
      BY <2>6 DEF WriteHeader, Write
    <3>2. ~Odd(Len(wire))
      BY <2>4, <2>6 DEF WriteHeader, Write
    <3>3. /\ wire' \in Seq(Chunk) /\ Len(wire') = Len(wire) + 1
          /\ wire'[Len(wire')] = [part |-> "header", ev |-> call[t].ev]
          /\ WireWellFramed'
      BY <2>1, <3>1, <3>2, WriteStep DEF FramingInv
    <3>4. Odd(Len(wire'))
      BY <1>1, <3>2, <3>3, Parity
    <3>5. call'[t].ev = call[t].ev
      BY <1>5, SendMoves
    <3>6. wire'[Len(wire')].ev = call'[t].ev
      BY <3>3, <3>5
    <3>7. call'[t].pc = "payload"
      <4> DEFINE f == [call[t] EXCEPT !.pc = "payload"]
      <4>1. f \in Frame /\ f.pc = "payload" /\ Become(t, f)
        BY <3>1, GotoType DEF Goto, PC
      <4> HIDE DEF f
      <4>2. QED
        BY <4>1, BecomeStep
    <3>8. FramingInv'
      BY <2>3, <3>1, <3>3, <3>4, <3>6, <3>7 DEF FramingInv
    <3>9. QED
      BY <2>1, <3>1, <3>3, <3>8 DEF HandleInv, PipeOK
  <2>7. CASE WriteFails(t)
    <3>1. ClosePipe /\ Goto(t, "append") /\ UNCHANGED wire /\ pipe_mu' = NoThread
      BY <2>7 DEF WriteFails
    <3>2. "append" \in PC
      BY DEF PC
    <3>3. call'[t].pc # "payload"
      <4> DEFINE f == [call[t] EXCEPT !.pc = "append"]
      <4>1. f \in Frame /\ f.pc = "append" /\ Become(t, f)
        BY <3>1, <3>2, GotoType DEF Goto
      <4> HIDE DEF f
      <4>2. QED
        BY <4>1, BecomeStep
    <3>4. WireWellFramed'
      BY <3>1 DEF FramingInv, WireWellFramed
    <3>5. FramingInv'
      BY <1>4, <2>3, <3>1, <3>3, <3>4 DEF FramingInv
    <3>6. QED
      BY <1>4, <2>1, <3>1, <3>5 DEF PipeOK
  <2>8. QED
    BY <1>5, <2>5, <2>6, <2>7 DEF SendHeader
<1>6. ASSUME NEW t \in Thread, SendPayload(t)
      PROVE  FramingInv' /\ HandleInv' /\ PipeOK'
  <2>1. /\ call[t].pc = "payload" /\ pipe_mu' = NoThread /\ UNCHANGED server
        /\ Goto(t, "append") /\ call[t].ev \in Event
    BY <1>6 DEF SendPayload, WriteFails, WritePayload, TypeOK, Frame
  <2>2. pipe_mu = t /\ Odd(Len(wire)) /\ wire[Len(wire)].ev = call[t].ev
    BY <2>1 DEF FramingInv
  <2>3. \A u \in Thread : call'[u].pc # "payload"
    <3>1. ASSUME NEW u \in Thread, call'[u].pc = "payload"
          PROVE  FALSE
      <4>1. call'[u] = call[u] \/ SendHeader(u)
        BY <1>6, <3>1, PayloadFrom DEF Next, Continue
      <4>2. ~SendHeader(u)
        BY <2>1, <2>2 DEF SendHeader
      <4>3. u = t
        BY <2>2, <3>1, <4>1, <4>2 DEF FramingInv
      <4> DEFINE f == [call[t] EXCEPT !.pc = "append"]
      <4>4. f \in Frame /\ f.pc = "append" /\ Become(t, f)
        BY <2>1, GotoType DEF Goto, PC
      <4> HIDE DEF f
      <4>5. QED
        BY <3>1, <4>3, <4>4, BecomeStep
    <3>2. QED
      BY <3>1
  <2>4. CASE WritePayload(t)
    <3>1. /\ wire' = Append(wire, [part |-> "payload", ev |-> call[t].ev])
          /\ UNCHANGED <<pipe_, pipe_closed>>
      BY <2>4 DEF WritePayload, Write
    <3>2. wire' \in Seq(Chunk) /\ Len(wire') = Len(wire) + 1 /\ WireWellFramed'
      BY <2>1, <2>2, <3>1, WriteStep DEF FramingInv
    <3>3. ~Odd(Len(wire'))
      BY <1>1, <2>2, <3>2, Parity
    <3>4. FramingInv'
      BY <2>1, <2>3, <3>2, <3>3 DEF FramingInv
    <3>5. QED
      BY <2>1, <3>1, <3>2, <3>4 DEF HandleInv, PipeOK
  <2>5. CASE WriteFails(t)
    <3>1. ClosePipe /\ UNCHANGED wire
      BY <2>5 DEF WriteFails
    <3>2. WireWellFramed'
      BY <3>1 DEF FramingInv, WireWellFramed
    <3>3. FramingInv'
      BY <1>4, <2>1, <2>3, <3>1, <3>2 DEF FramingInv
    <3>4. QED
      BY <1>4, <2>1, <3>1, <3>3 DEF PipeOK
  <2>6. QED
    BY <1>6, <2>4, <2>5 DEF SendPayload
<1>7. ASSUME ~\E u \in Thread : SendHeader(u)
      PROVE  \A u \in Thread : call'[u].pc = "payload" => call'[u] = call[u]
  BY <1>7, PayloadFrom
<1>8. ASSUME NEW t \in Thread, Connect(t)
      PROVE  FramingInv' /\ HandleInv' /\ PipeOK'
  <2>1. Fresh
    BY <1>8 DEF Connect, AloneInv
  <2>2. \A u \in Thread \ {t} : call'[u] = call[u]
    BY <1>8, SendMoves
  <2>3. \A u \in Thread : call[u].pc # "payload"
    BY <2>1 DEF FramingInv, Fresh
  <2>4. UNCHANGED <<wire, pipe_mu, pipe_closed, server>> /\ pipe_' \in BOOLEAN
        /\ Goto(t, "open")
    BY <1>8 DEF Connect, PipeOK
  <2>5. call'[t].pc # "payload"
    <3> DEFINE f == [call[t] EXCEPT !.pc = "open"]
    <3>1. f \in Frame /\ f.pc = "open" /\ Become(t, f)
      BY <2>4, GotoType DEF Goto, PC
    <3> HIDE DEF f
    <3>2. QED
      BY <3>1, BecomeStep
  <2>6. \A u \in Thread : call'[u].pc # "payload"
    BY <2>2, <2>3, <2>5
  <2>7. Len(wire') = 0 /\ ~Odd(0)
    BY <2>1, <2>4 DEF Fresh, Odd
  <2>8. WireWellFramed'
    BY <2>7 DEF WireWellFramed
  <2>9. QED
    BY <2>1, <2>4, <2>6, <2>7, <2>8 DEF Fresh, FramingInv, HandleInv, PipeOK
<1>9. ASSUME NEW t \in Thread, ClosePipeAtDetach(t),
             \A u \in Thread : call'[u].pc = "payload" => call'[u] = call[u]
      PROVE  FramingInv' /\ HandleInv' /\ PipeOK'
  <2>1. ClosePipe /\ UNCHANGED <<wire, pipe_mu, server>>
    BY <1>9 DEF ClosePipeAtDetach
  <2>2. QED
    BY <1>2, <1>4, <1>9, <2>1 DEF PipeOK
<1>10. CASE LauncherActs
  <2>1. /\ UNCHANGED <<call, pipe_, pipe_closed, pipe_mu, wire>> /\ server' \in BOOLEAN
    BY <1>10 DEF LauncherActs, ServerCloses, ServerReads, PipeOK
  <2>2. FramingInv'
    BY <2>1 DEF FramingInv, WireWellFramed
  <2>3. QED
    BY <2>1, <2>2 DEF HandleInv, PipeOK
<1>11. CASE \E u \in Thread : SendHeader(u)
  BY <1>5, <1>11
<1>12. CASE ~\E u \in Thread : SendHeader(u)
  <2>1. \A u \in Thread : call'[u].pc = "payload" => call'[u] = call[u]
    BY <1>7, <1>12
  <2>2. CASE UNCHANGED <<call, pipeVars>> \/ Dies
    BY <1>3, <2>1, <2>2 DEF Dies
  <2>3. ASSUME NEW t \in Thread,
               SendCheck(t) \/ Quiet(t) \/ Offers(t) \/ LastOffer(t)
        PROVE  FramingInv' /\ HandleInv' /\ PipeOK'
    BY <1>3, <2>1, <2>3 DEF SendCheck, Quiet, Offers, LastOffer
  <2>4. QED
    BY <1>6, <1>8, <1>9, <1>10, <1>12, <2>1, <2>2, <2>3, StepKind DEF PipeStep
<1>13. QED
  BY <1>11, <1>12

-----------------------------------------------------------------------------
(* The log files and the other variables *)

\* Every step does at most one operation of JsonLog.
LEMMA LogKind ==
  ASSUME TypeOK, [Next]_vars
  PROVE  LogDoes
<1> USE DEF logVars
<1>1. CASE UNCHANGED vars \/ LauncherActs
  BY <1>1 DEF vars, LauncherActs, ServerCloses, ServerReads, LogDoes
<1>2. ASSUME NEW t \in Thread, Environment(t)
      PROVE  UNCHANGED <<file_, files>>
  BY <1>2 DEF Environment, Attach, ObjectEvent, StartLogging, StopLogging, LoadModule,
     UnloadModule, Detach
<1>3. ASSUME NEW t \in Thread, Continue(t)
      PROVE  LogDoes
  <2>1. CASE OpenAtAttach(t) \/ OpenAtStart(t)
    BY <2>1 DEF OpenAtAttach, OpenAtStart, LogDoes
  <2>2. CASE CloseLog(t) \/ CloseLogAtDetach(t)
    BY <2>2 DEF CloseLog, CloseLogAtDetach, LogDoes
  <2>3. CASE WriteLine(t)
    <3>1. call[t].ev \in Event
      BY DEF TypeOK, Frame
    <3>2. QED
      BY <2>3, <3>1 DEF WriteLine, LogDoes
  <2>4. CASE ~(OpenAtAttach(t) \/ OpenAtStart(t) \/ CloseLog(t) \/ CloseLogAtDetach(t)
                 \/ WriteLine(t))
    <3>1. UNCHANGED <<file_, files>>
      BY <1>3, <2>4 DEF Continue, SendCheck, SendHeader, SendPayload, AppendCheck, AppendLock,
         StartModuleTracking, EmitModuleLoaded, FaultOnUnmapped, Register, UnlockLoader,
         Connect, LoadD3D12, InstallExportHooks, StopModuleTracking, ClosePipeAtDetach
    <3>2. QED
      BY <3>1 DEF LogDoes
  <2>5. QED
    BY <2>1, <2>2, <2>3, <2>4
<1>4. QED
  BY <1>1, <1>2, <1>3 DEF Next, LogDoes

\* The variables that are neither the pipe's nor the files' nor the threads'.
LifeOK ==
  /\ env \in BOOLEAN
  /\ dll \in {"out", "attach", "in", "detach", "gone", "crashed"}
  /\ loader \in Thread \cup {NoThread}
  /\ modules \subseteq Module
  /\ capture \in BOOLEAN /\ started \in BOOLEAN /\ registered \in BOOLEAN
  /\ hooks \in BOOLEAN
  /\ missed \subseteq Module /\ busy \in BOOLEAN /\ full \in BOOLEAN
  /\ log_mu \in Thread \cup {NoThread}
  /\ ops \in Nat

\* Every action assigns them values of their type.
LEMMA LifeStep ==
  ASSUME LifeOK, [Next]_vars
  PROVE  LifeOK'
<1> USE DEF LifeOK, lifeVars, moduleVars, logVars, pipeVars
<1>1. CASE UNCHANGED vars \/ LauncherActs
  BY <1>1 DEF vars, LauncherActs, ServerCloses, ServerReads
<1>2. ASSUME NEW t \in Thread, Attach(t)
      PROVE  LifeOK'
  BY <1>2 DEF Attach
<1>3. ASSUME NEW t \in Thread, ObjectEvent(t) \/ StopLogging(t)
      PROVE  LifeOK'
  BY <1>3 DEF ObjectEvent, StopLogging, Begin
<1>4. ASSUME NEW t \in Thread, NEW callstacks \in BOOLEAN, StartLogging(t, callstacks)
      PROVE  LifeOK'
  BY <1>4 DEF StartLogging, Begin
<1>5. ASSUME NEW t \in Thread, NEW m \in Module, LoadModule(t, m) \/ UnloadModule(t, m)
      PROVE  LifeOK'
  BY <1>5 DEF LoadModule, UnloadModule, Begin
<1>6. ASSUME NEW t \in Thread, NEW op \in {"detach", "exit"}, Detach(t, op)
      PROVE  LifeOK'
  BY <1>6 DEF Detach
<1>7. ASSUME NEW t \in Thread, SendCheck(t) \/ SendHeader(t) \/ SendPayload(t) \/ Connect(t)
                               \/ ClosePipeAtDetach(t) \/ AppendCheck(t)
                               \/ EmitModuleLoaded(t)
      PROVE  LifeOK'
  <2>1. CASE SendHeader(t)
    BY <2>1 DEF SendHeader, WaitForReader, WriteFails, WriteHeader
  <2>2. CASE SendPayload(t)
    BY <2>2 DEF SendPayload, WriteFails, WritePayload
  <2>3. CASE SendCheck(t) \/ Connect(t) \/ ClosePipeAtDetach(t) \/ AppendCheck(t)
    BY <2>3 DEF SendCheck, Connect, ClosePipeAtDetach, AppendCheck
  <2>4. CASE EmitModuleLoaded(t)
    BY <2>4 DEF EmitModuleLoaded
  <2>5. QED
    BY <1>7, <2>1, <2>2, <2>3, <2>4
<1>8. ASSUME NEW t \in Thread, AppendLock(t) \/ WriteLine(t) \/ OpenAtAttach(t)
                               \/ OpenAtStart(t) \/ CloseLog(t) \/ CloseLogAtDetach(t)
      PROVE  LifeOK'
  <2>1. CASE WriteLine(t)
    BY <2>1 DEF WriteLine
  <2>2. CASE AppendLock(t) \/ CloseLog(t) \/ CloseLogAtDetach(t)
    BY <2>2 DEF AppendLock, CloseLog, CloseLogAtDetach
  <2>3. CASE OpenAtAttach(t) \/ OpenAtStart(t)
    BY <2>3 DEF OpenAtAttach, OpenAtStart, OpenLog
  <2>4. QED
    BY <1>8, <2>1, <2>2, <2>3
<1>9. ASSUME NEW t \in Thread, StartModuleTracking(t) \/ Register(t) \/ StopModuleTracking(t)
                               \/ LoadD3D12(t)
      PROVE  LifeOK'
  <2>1. CASE StartModuleTracking(t)
    BY <2>1 DEF StartModuleTracking, Enumerate
  <2>2. CASE Register(t) \/ StopModuleTracking(t)
    BY <2>2 DEF Register, StopModuleTracking
  <2>3. CASE LoadD3D12(t)
    BY <2>3 DEF LoadD3D12
  <2>4. QED
    BY <1>9, <2>1, <2>2, <2>3
<1>10. ASSUME NEW t \in Thread, FaultOnUnmapped(t) \/ UnlockLoader(t) \/ InstallExportHooks(t)
       PROVE  LifeOK'
  BY <1>10 DEF FaultOnUnmapped, UnlockLoader, InstallExportHooks
<1>11. QED
  BY <1>1, <1>2, <1>3, <1>4, <1>5, <1>6, <1>7, <1>8, <1>9, <1>10
  DEF Next, Environment, Continue

LEMMA TypeParts ==
  TypeOK <=> LifeOK /\ PipeOK /\ FilesOK /\ call \in [Thread -> Frame]
  BY DEF TypeOK, LifeOK, PipeOK, FilesOK

-----------------------------------------------------------------------------
(* The theorems *)

Inv == TypeOK /\ CallInv /\ AloneInv /\ FramingInv /\ HandleInv /\ ClosedInv

LEMMA InitInv == Init => Inv
<1> SUFFICES ASSUME Init PROVE Inv
  OBVIOUS
<1> USE ConstantsAssumption
<1>1. LifeOK
  BY DEF Init, LifeOK
<1>2. PipeOK /\ FilesOK
  <2>1. Len(wire) = 0 /\ Len(files) = 0 /\ wire \in Seq(Chunk) /\ files \in Seq(File)
    BY DEF Init
  <2>2. PipeOK
    BY <2>1 DEF Init, PipeOK
  <2>3. FilesOK
    BY <2>1 DEF Init, FilesOK
  <2>4. QED
    BY <2>2, <2>3
<1>3. call \in [Thread -> Frame] /\ \A t \in Thread : call[t] = Idle
  BY FrameTypes DEF Init
<1>4. CallInv
  BY <1>3, FrameTypes DEF CallInv, Labels, Sending
<1>5. AloneInv
  BY <1>3, FrameTypes DEF Init, AloneInv, Fresh
<1>6. FramingInv
  <2>1. Len(wire) = 0 /\ ~Odd(0)
    BY DEF Init, Odd
  <2>2. \A t \in Thread : pipe_mu # t
    BY DEF Init
  <2>3. QED
    BY <1>3, <2>1, <2>2, FrameTypes DEF FramingInv, WireWellFramed
<1>7. HandleInv /\ ClosedInv
  BY DEF Init, HandleInv, ClosedInv
<1>8. QED
  BY <1>1, <1>2, <1>3, <1>4, <1>5, <1>6, <1>7, TypeParts DEF Inv

LEMMA NextInv == Inv /\ [Next]_vars => Inv'
<1> SUFFICES ASSUME Inv, [Next]_vars PROVE Inv'
  OBVIOUS
<1>1. TypeOK /\ CallInv /\ AloneInv /\ FramingInv /\ HandleInv /\ ClosedInv
  BY DEF Inv
<1>2. LifeOK /\ PipeOK /\ FilesOK
  BY <1>1, TypeParts
<1>3. call' \in [Thread -> Frame] /\ CallInv'
  BY <1>1, CallStep
<1>4. AloneInv'
  BY <1>1, AloneStep
<1>5. FramingInv' /\ HandleInv' /\ PipeOK'
  BY <1>1, <1>2, FramingStep
<1>6. FilesOK' /\ ClosedInv'
  BY <1>1, <1>2, LogKind, LogStep
<1>7. LifeOK'
  BY <1>2, LifeStep
<1>8. TypeOK'
  BY <1>3, <1>5, <1>6, <1>7 DEF TypeOK, LifeOK, PipeOK, FilesOK
<1>9. QED
  BY <1>3, <1>4, <1>5, <1>6, <1>8 DEF Inv

THEOREM InvHolds == Spec => []Inv
<1>1. Init => Inv
  BY InitInv
<1>2. Inv /\ [Next]_vars => Inv'
  BY NextInv
<1>3. QED
  BY <1>1, <1>2, PTL DEF Spec

\* Every variable of the DLL and its sinks keeps its type.
THEOREM TypeCorrect == Spec => []TypeOK
<1>1. Inv => TypeOK
  BY DEF Inv
<1>2. QED
  BY <1>1, InvHolds, PTL

\* The launcher can always cut the bytes it is sent into messages, whatever
\* threads write at the same time, fail, close the pipe or are terminated.
THEOREM MessagesStayWhole == Spec => []WireWellFramed
<1>1. Inv => WireWellFramed
  BY DEF Inv, FramingInv
<1>2. QED
  BY <1>1, InvHolds, PTL

\* Neither the handle of the pipe nor that of a log file is closed twice.
THEOREM HandlesCloseOnce == Spec => []NoHandleClosedTwice
<1>1. Inv => NoHandleClosedTwice
  BY DEF Inv, HandleInv, ClosedInv, NoHandleClosedTwice
<1>2. QED
  BY <1>1, InvHolds, PTL

-----------------------------------------------------------------------------
(* The pipe client implements Channel *)

\* t goes on with f.
LEMMA OneMoves ==
  ASSUME TypeOK, NEW t \in Thread, NEW f \in Frame, Become(t, f),
         f.pc # "dead", call[t].pc # "dead"
  PROVE  /\ UNCHANGED Living /\ t \in Living
         /\ Unsent' = [Unsent EXCEPT ![t] = IF f.pc \in Sending THEN f.ev ELSE NoEvent]
<1>1. /\ call' \in [Thread -> Frame] /\ call'[t] = f
      /\ \A u \in Thread \ {t} : call'[u] = call[u]
  BY BecomeStep
<1>2. f # Dead /\ call[t] # Dead
  BY FrameTypes
<1>3. QED
  BY <1>1, <1>2 DEF Living, Unsent

\* A thread inside Send has something to send, every other has not.
LEMMA UnsentIs ==
  ASSUME CallInv, NEW t \in Thread
  PROVE  IF call[t].pc \in Sending THEN Unsent[t] = call[t].ev /\ Unsent[t] # NoEvent
                                   ELSE Unsent[t] = NoEvent
  BY DEF CallInv, Unsent

\* t goes on inside Send, outside it, or leaves it.
LEMMA GotoChannel ==
  ASSUME TypeOK, CallInv, NEW t \in Thread, NEW p \in PC \ {"dead"}, Goto(t, p),
         call[t].pc # "dead"
  PROVE  /\ UNCHANGED Living
         /\ (p \in Sending <=> call[t].pc \in Sending) => UNCHANGED Unsent
         /\ p \notin Sending => Unsent' = [Unsent EXCEPT ![t] = NoEvent]
<1> DEFINE f == [call[t] EXCEPT !.pc = p]
<1>1. f \in Frame /\ f.pc = p /\ f.ev = call[t].ev /\ Become(t, f)
  BY GotoType DEF Goto
<1> HIDE DEF f
<1>2. /\ UNCHANGED Living
      /\ Unsent' = [Unsent EXCEPT ![t] = IF f.pc \in Sending THEN f.ev ELSE NoEvent]
  BY <1>1, OneMoves
<1>3. ASSUME p \in Sending <=> call[t].pc \in Sending
      PROVE  UNCHANGED Unsent
  <2>1. Unsent[t] = IF f.pc \in Sending THEN f.ev ELSE NoEvent
    BY <1>1, <1>3, UnsentIs
  <2>2. Unsent = [Unsent EXCEPT ![t] = Unsent[t]]
    BY DEF Unsent
  <2>3. QED
    BY <1>2, <2>1, <2>2
<1>4. QED
  BY <1>1, <1>2, <1>3

\* Closing the pipe closes the channel, or changes nothing if it is not open.
LEMMA CloseState ==
  ASSUME PipeOK, HandleInv, ClosePipe, UNCHANGED server
  PROVE  /\ UNCHANGED ChannelState \/ ChannelState' = "closed"
         /\ ~CanWrite => UNCHANGED ChannelState
<1>1. ~CanWrite'
  <2>1. ~pipe_'
    BY Zenon DEF ClosePipe
  <2>2. QED
    BY <2>1, Zenon DEF CanWrite
<1>2. ChannelState' = IF server /\ pipe_closed' = 0 THEN "new" ELSE "closed"
  BY <1>1, Zenon DEF ChannelState
<1>3. CASE pipe_
  <2>1. pipe_closed = 0
    BY <1>3, Zenon DEF HandleInv
  <2>2. pipe_closed' = pipe_closed + 1
    BY <1>3, Zenon DEF ClosePipe
  <2>3. pipe_closed' # 0
    BY <2>1, <2>2
  <2>4. ChannelState' = "closed"
    BY <1>2, <2>3, Zenon
  <2>5. ~CanWrite => ChannelState = "closed"
    BY <1>3, Zenon DEF CanWrite, ChannelState
  <2>6. QED
    BY <2>4, <2>5, Zenon
<1>4. CASE ~pipe_
  <2>1. pipe_closed' = pipe_closed
    BY <1>4, Zenon DEF ClosePipe
  <2>2. ~CanWrite
    BY <1>4, Zenon DEF CanWrite
  <2>3. QED
    BY <1>2, <2>1, <2>2, Zenon DEF ChannelState
<1>5. QED
  BY <1>3, <1>4

\* A step that leaves the pipe alone leaves its channel alone.
LEMMA SamePipe ==
  ASSUME UNCHANGED pipeVars
  PROVE  UNCHANGED <<ChannelState, Received>>
  BY Zenon DEF pipeVars, ChannelState, CanWrite, Received

\* The second write completes a message.
LEMMA ReceivedStep ==
  ASSUME PipeOK, NEW c \in Chunk, wire' = Append(wire, c)
  PROVE  Received' = IF Odd(Len(wire)) THEN Append(Received, c.ev) ELSE Received
<1> DEFINE n == Len(wire)
           k == n \div 2
<1>1. /\ n \in Nat /\ k \in Nat /\ Len(wire') = n + 1
      /\ \A i \in 1..n : wire'[i] = wire[i]
      /\ wire'[n + 1] = c
  BY AppendProperties, LenProperties DEF PipeOK
<1> HIDE DEF n
<1>2. \A i \in 1..k : 2 * i \in 1..n
  BY <1>1
<1>3. \A i \in 1..k : wire'[2 * i].ev = wire[2 * i].ev
  BY <1>1, <1>2
<1>4. CASE ~Odd(n)
  <2>1. (n + 1) \div 2 = k
    BY <1>1, <1>4 DEF Odd
  <2>2. Received' = [i \in 1..k |-> wire'[2 * i].ev]
    BY <1>1, <2>1 DEF Received
  <2>3. QED
    BY <1>3, <1>4, <2>2 DEF Received, n
<1>5. CASE Odd(n)
  <2>1. (n + 1) \div 2 = k + 1 /\ 2 * (k + 1) = n + 1
    BY <1>1, <1>5 DEF Odd
  <2>2. Received' = [i \in 1..(k + 1) |-> wire'[2 * i].ev]
    BY <1>1, <2>1 DEF Received
  <2>3. Received = [i \in 1..k |-> wire[2 * i].ev]
    BY DEF Received, n
  <2>4. Len(Received) = k
    BY <1>1, <2>3
  <2>5. Append(Received, c.ev) =
          [i \in 1..(k + 1) |-> IF i = k + 1 THEN c.ev ELSE wire[2 * i].ev]
    BY <1>1, <2>3, <2>4
  <2>6. \A i \in 1..(k + 1) :
          wire'[2 * i].ev = IF i = k + 1 THEN c.ev ELSE wire[2 * i].ev
    <3>1. \A i \in 1..(k + 1) : i = k + 1 \/ i \in 1..k
      BY <1>1
    <3>2. QED
      BY <1>1, <1>3, <2>1, <3>1
  <2>7. QED
    BY <1>5, <2>2, <2>5, <2>6 DEF n
<1>6. QED
  BY <1>4, <1>5

ChannelStutters == UNCHANGED <<ChannelState, Living, Unsent, Received>>

\* An event is offered; with ExitProcess the other threads are gone.
LEMMA OfferStep ==
  ASSUME TypeOK, CallInv, NEW t \in Thread
  PROVE  /\ Offers(t) => Channel!Offer(t)
         /\ LastOffer(t) => Channel!AbortOthers(t)
<1>1. ASSUME Offers(t)
      PROVE  Channel!Offer(t)
  <2>1. PICK f \in Frame : Become(t, f) /\ f.pc = "send" /\ f.ev # NoEvent
    BY <1>1 DEF Offers
  <2>2. call[t].pc # "dead" /\ f.pc # "dead" /\ f.pc \in Sending /\ call[t].pc \notin Sending
    BY <1>1, <2>1 DEF Offers, Sending
  <2>3. UNCHANGED Living /\ t \in Living /\ Unsent' = [Unsent EXCEPT ![t] = f.ev]
    BY <2>1, <2>2, OneMoves
  <2>4. f.ev \in Event \ {NoEvent}
    BY <2>1 DEF Frame
  <2>5. Unsent[t] = NoEvent /\ Unsent'[t] = f.ev
    BY <2>2, <2>3, UnsentIs DEF Unsent
  <2>6. UNCHANGED <<ChannelState, Received>>
    BY <1>1, SamePipe DEF Offers
  <2>7. QED
    BY <2>3, <2>4, <2>5, <2>6 DEF Channel!Offer
<1>2. ASSUME LastOffer(t)
      PROVE  Channel!AbortOthers(t)
  <2>1. PICK f \in Frame :
          /\ call' = [u \in Thread |-> IF u = t THEN f ELSE Dead]
          /\ f.pc = "send" /\ f.ev # NoEvent
    BY <1>2 DEF LastOffer
  <2>2. f # Dead /\ f.pc \in Sending /\ Dead.pc \notin Sending /\ f.ev \in Event \ {NoEvent}
    BY <2>1, FrameTypes DEF Frame, Sending
  <2>3. t \in Living /\ Living' = {t}
    BY <1>2, <2>1, <2>2, FrameTypes DEF LastOffer, Living
  <2>4. Unsent' = [u \in Thread |-> IF u = t THEN f.ev ELSE NoEvent]
    BY <2>1, <2>2 DEF Unsent
  <2>5. UNCHANGED <<ChannelState, Received>>
    BY <1>2, SamePipe DEF LastOffer
  <2>6. QED
    BY <2>2, <2>3, <2>4, <2>5 DEF Channel!AbortOthers
<1>3. QED
  BY <1>1, <1>2

\* Threads that were not sending go on with something else, or all are gone.
LEMMA OutsideStep ==
  ASSUME TypeOK, CallInv
  PROVE  /\ \A t \in Thread : Quiet(t) => ChannelStutters
         /\ Dies => \E S \in SUBSET Thread : Channel!Abort(S)
<1>1. ASSUME NEW t \in Thread, Quiet(t)
      PROVE  ChannelStutters
  <2>1. PICK f \in Frame : Become(t, f) /\ f.pc \notin Sending \cup {"dead"}
    BY <1>1 DEF Quiet
  <2>2. call[t].pc # "dead" /\ f.pc # "dead" /\ call[t].pc \notin Sending
    BY <1>1, <2>1 DEF Quiet
  <2>3. UNCHANGED Living /\ Unsent' = [Unsent EXCEPT ![t] = NoEvent]
    BY <2>1, <2>2, OneMoves
  <2>4. Unsent[t] = NoEvent /\ Unsent = [Unsent EXCEPT ![t] = Unsent[t]]
    BY <2>2, UnsentIs DEF Unsent
  <2>5. UNCHANGED <<ChannelState, Received>>
    BY <1>1, SamePipe DEF Quiet
  <2>6. QED
    BY <2>3, <2>4, <2>5 DEF ChannelStutters
<1>2. ASSUME Dies
      PROVE  \E S \in SUBSET Thread : Channel!Abort(S)
  <2>1. PICK S \in SUBSET Thread :
          /\ call' = [u \in Thread |-> IF u \in S THEN Dead ELSE Idle]
          /\ \A u \in Thread \ S : call[u].pc \notin Sending \cup {"dead"}
    BY <1>2 DEF Dies
  <2>2. Living' = Thread \ S /\ Thread \ S \subseteq Living
    BY <2>1, FrameTypes DEF Living
  <2>3. Living' = Living \ S
    BY <2>2 DEF Living
  <2>4. \A u \in Thread : Unsent'[u] = NoEvent
    BY <2>1, FrameTypes DEF Unsent, Sending
  <2>5. \A u \in Thread \ S : Unsent[u] = NoEvent
    BY <2>1, UnsentIs
  <2>6. Unsent' = [u \in Thread |-> IF u \in S THEN NoEvent ELSE Unsent[u]]
    BY <2>4, <2>5 DEF Unsent
  <2>7. UNCHANGED <<ChannelState, Received>>
    BY <1>2, SamePipe DEF Dies
  <2>8. QED
    BY <2>3, <2>6, <2>7 DEF Channel!Abort
<1>3. QED
  BY <1>1, <1>2

\* Send delivers its event with the second write, or gives it up because the
\* pipe is not open.
LEMMA SendStep ==
  ASSUME Inv, NEW t \in Thread, SendCheck(t) \/ SendHeader(t) \/ SendPayload(t)
  PROVE  ChannelStutters \/ Channel!Deliver(t) \/ Channel!Drop(t)
<1>1. /\ TypeOK /\ CallInv /\ FramingInv /\ HandleInv /\ PipeOK
      /\ call[t].pc \in Sending /\ call[t].pc # "dead"
  BY TypeParts DEF Inv, SendCheck, SendHeader, SendPayload, Sending
<1>2. Unsent[t] = call[t].ev /\ Unsent[t] # NoEvent /\ call[t].ev \in Event
  BY <1>1, UnsentIs DEF TypeOK, Frame
<1>3. {"header", "payload", "append"} \subseteq PC \ {"dead"} /\ "append" \notin Sending
      /\ {"header", "payload"} \subseteq Sending
  BY DEF PC, Sending
<1>4. ChannelState = "open" <=> CanWrite
  BY DEF ChannelState
<1>5. ASSUME ~CanWrite, Goto(t, "append"), UNCHANGED wire,
             UNCHANGED <<pipe_, pipe_closed, server>> \/ (ClosePipe /\ UNCHANGED server)
      PROVE  Channel!Drop(t)
  <2>1. UNCHANGED Living /\ Unsent' = [Unsent EXCEPT ![t] = NoEvent]
    BY <1>1, <1>3, <1>5, GotoChannel
  <2>2. UNCHANGED ChannelState
    <3>1. CASE UNCHANGED <<pipe_, pipe_closed, server>>
      BY <3>1, Zenon DEF ChannelState, CanWrite
    <3>2. QED
      BY <1>1, <1>5, <3>1, CloseState
  <2>3. UNCHANGED Received
    BY <1>5 DEF Received
  <2>4. QED
    BY <1>2, <1>4, <1>5, <2>1, <2>2, <2>3 DEF Channel!Drop
<1>6. CASE SendCheck(t)
  <2>1. UNCHANGED pipeVars /\ Goto(t, IF pipe_ THEN "header" ELSE "append")
    BY <1>6 DEF SendCheck
  <2>2. CASE pipe_
    <3>1. Goto(t, "header")
      BY <2>1, <2>2
    <3>2. UNCHANGED <<Living, Unsent>>
      BY <1>1, <1>3, <3>1, GotoChannel
    <3>3. QED
      BY <2>1, <3>2, SamePipe DEF ChannelStutters
  <2>3. CASE ~pipe_
    <3>1. Goto(t, "append") /\ ~CanWrite
      BY <2>1, <2>3 DEF CanWrite
    <3>2. QED
      BY <1>5, <2>1, <3>1 DEF pipeVars
  <2>4. QED
    BY <2>2, <2>3
<1>7. CASE SendHeader(t)
  <2>1. CASE WriteHeader(t)
    <3> DEFINE c == [part |-> "header", ev |-> call[t].ev]
    <3>1. /\ wire' = Append(wire, c) /\ Goto(t, "payload")
          /\ UNCHANGED <<pipe_, pipe_closed, server>> /\ CanWrite
      BY <1>7, <2>1 DEF SendHeader, WriteHeader, Write
    <3>2. ~Odd(Len(wire))
      BY <1>1, <1>7, <3>1 DEF SendHeader, FramingInv, CanWrite
    <3>3. c \in Chunk
      BY <1>2 DEF Chunk
    <3> HIDE DEF c
    <3>4. UNCHANGED Received
      BY <1>1, <3>1, <3>2, <3>3, ReceivedStep
    <3>5. UNCHANGED <<Living, Unsent>>
      BY <1>1, <1>3, <3>1, GotoChannel
    <3>6. UNCHANGED ChannelState
      BY <3>1, Zenon DEF ChannelState, CanWrite
    <3>7. QED
      BY <3>4, <3>5, <3>6 DEF ChannelStutters
  <2>2. CASE WriteFails(t)
    BY <1>5, <1>7, <2>2 DEF SendHeader, WriteFails
  <2>3. CASE WaitForReader(t)
    <3>1. UNCHANGED <<call, wire, pipe_, pipe_closed, server>>
      BY <1>7, <2>3 DEF SendHeader, WaitForReader
    <3>2. UNCHANGED <<Living, Unsent, Received>>
      BY <3>1 DEF Living, Unsent, Received
    <3>3. UNCHANGED ChannelState
      BY <3>1, Zenon DEF ChannelState, CanWrite
    <3>4. QED
      BY <3>2, <3>3 DEF ChannelStutters
  <2>4. QED
    BY <1>7, <2>1, <2>2, <2>3 DEF SendHeader
<1>8. CASE SendPayload(t)
  <2>1. CASE WritePayload(t)
    <3> DEFINE c == [part |-> "payload", ev |-> call[t].ev]
    <3>1. /\ wire' = Append(wire, c) /\ Goto(t, "append")
          /\ UNCHANGED <<pipe_, pipe_closed, server>> /\ CanWrite
      BY <1>8, <2>1 DEF SendPayload, WritePayload, Write
    <3>2. Odd(Len(wire))
      BY <1>1, <1>8 DEF SendPayload, FramingInv
    <3>3. c \in Chunk /\ c.ev = call[t].ev
      BY <1>2 DEF Chunk
    <3> HIDE DEF c
    <3>4. Received' = Append(Received, Unsent[t])
      BY <1>1, <1>2, <3>1, <3>2, <3>3, ReceivedStep
    <3>5. UNCHANGED Living /\ Unsent' = [Unsent EXCEPT ![t] = NoEvent]
      BY <1>1, <1>3, <3>1, GotoChannel
    <3>6. UNCHANGED ChannelState
      BY <3>1, Zenon DEF ChannelState, CanWrite
    <3>7. QED
      BY <1>2, <1>4, <3>1, <3>4, <3>5, <3>6 DEF Channel!Deliver
  <2>2. CASE WriteFails(t)
    BY <1>5, <1>8, <2>2 DEF SendPayload, WriteFails
  <2>3. QED
    BY <1>8, <2>1, <2>2 DEF SendPayload
<1>9. QED
  BY <1>6, <1>7, <1>8

\* The pipe is connected when it is new, and closed once or for good.
LEMMA OpenCloseStep ==
  ASSUME Inv, NEW t \in Thread, Connect(t) \/ ClosePipeAtDetach(t)
  PROVE  ChannelStutters \/ Channel!Open \/ Channel!Close
<1>1. TypeOK /\ CallInv /\ AloneInv /\ HandleInv /\ PipeOK
  BY TypeParts DEF Inv
<1>2. /\ call[t].pc \notin Sending /\ call[t].pc # "dead"
      /\ {"open", "closeLog"} \subseteq PC \ {"dead"}
      /\ "open" \notin Sending /\ "closeLog" \notin Sending
  BY DEF Connect, ClosePipeAtDetach, PC, Sending
<1>3. UNCHANGED <<Living, Unsent, Received>>
  <2>1. Goto(t, "open") \/ Goto(t, "closeLog")
    BY DEF Connect, ClosePipeAtDetach
  <2>2. UNCHANGED wire
    BY DEF Connect, ClosePipeAtDetach
  <2>3. UNCHANGED Received
    BY <2>2 DEF Received
  <2>4. QED
    BY <1>1, <1>2, <2>1, <2>3, GotoChannel
<1>4. CASE Connect(t)
  <2>1. ~pipe_ /\ pipe_closed = 0 /\ UNCHANGED <<pipe_closed, server>>
    BY <1>1, <1>4 DEF Connect, AloneInv, Fresh
  <2>2. CASE server /\ pipe_' = TRUE
    <3>1. ChannelState = "new"
      BY <2>1, <2>2, Zenon DEF ChannelState, CanWrite
    <3>2. ChannelState' = "open"
      BY <2>1, <2>2, Zenon DEF ChannelState, CanWrite
    <3>3. QED
      BY <1>3, <3>1, <3>2 DEF Channel!Open
  <2>3. CASE UNCHANGED pipe_
    <3>1. UNCHANGED ChannelState
      BY <2>1, <2>3, Zenon DEF ChannelState, CanWrite
    <3>2. QED
      BY <1>3, <3>1 DEF ChannelStutters
  <2>4. QED
    BY <1>4, <2>2, <2>3 DEF Connect
<1>5. CASE ClosePipeAtDetach(t)
  <2>1. UNCHANGED ChannelState \/ ChannelState' = "closed"
    BY <1>1, <1>5, CloseState DEF ClosePipeAtDetach
  <2>2. QED
    BY <1>3, <2>1 DEF ChannelStutters, Channel!Close
<1>6. QED
  BY <1>4, <1>5

\* When the launcher goes, the channel is closed.
LEMMA ServerStep ==
  ASSUME LauncherActs
  PROVE  ChannelStutters \/ Channel!Close
<1>1. UNCHANGED <<call, wire, pipe_, pipe_closed>>
  BY DEF LauncherActs, ServerCloses, ServerReads
<1>2. UNCHANGED <<Living, Unsent, Received>>
  BY <1>1 DEF Living, Unsent, Received
<1>3. CASE ServerCloses
  <2>1. ~server'
    BY <1>3, Zenon DEF ServerCloses
  <2>2. ChannelState' = "closed"
    BY <2>1, Zenon DEF ChannelState, CanWrite
  <2>3. QED
    BY <1>2, <2>2 DEF Channel!Close
<1>4. CASE ServerReads
  <2>1. UNCHANGED server
    BY <1>4 DEF ServerReads
  <2>2. UNCHANGED ChannelState
    BY <1>1, <2>1, Zenon DEF ChannelState, CanWrite
  <2>3. QED
    BY <1>2, <2>2 DEF ChannelStutters
<1>5. QED
  BY <1>3, <1>4 DEF LauncherActs

LEMMA ChannelInit == Init => Channel!Init
<1> SUFFICES ASSUME Init PROVE Channel!Init
  OBVIOUS
<1>1. ~pipe_ /\ server /\ pipe_closed = 0
  BY DEF Init
<1>2. ChannelState = "new"
  BY <1>1, Zenon DEF ChannelState, CanWrite
<1>3. \A t \in Thread : call[t] = Idle
  BY DEF Init
<1>4. Living = Thread /\ Unsent = [s \in Thread |-> NoEvent]
  BY <1>3, FrameTypes DEF Living, Unsent, Sending
<1>5. Received = <<>>
  <2>1. Len(wire) \div 2 = 0
    BY DEF Init
  <2>2. 1..0 = {}
    OBVIOUS
  <2>3. QED
    BY <2>1, <2>2 DEF Received
<1>6. QED
  BY <1>2, <1>4, <1>5 DEF Channel!Init

\* Every step of the DLL is a step of the channel, or none.
LEMMA ChannelNext == Inv /\ [Next]_vars => [Channel!Next]_(Channel!vars)
<1> SUFFICES ASSUME Inv, [Next]_vars PROVE Channel!Next \/ ChannelStutters
  BY DEF Channel!vars, ChannelStutters
<1>1. TypeOK /\ CallInv
  BY DEF Inv
<1>2. CASE UNCHANGED <<call, pipeVars>>
  <2>1. UNCHANGED <<Living, Unsent>>
    BY <1>2 DEF Living, Unsent
  <2>2. QED
    BY <1>2, <2>1, SamePipe DEF ChannelStutters
<1>3. CASE LauncherActs
  BY <1>3, ServerStep DEF Channel!Next
<1>4. CASE Dies
  BY <1>1, <1>4, OutsideStep DEF Channel!Next
<1>5. ASSUME NEW t \in Thread, PipeStep(t)
      PROVE  Channel!Next \/ ChannelStutters
  <2>1. CASE SendCheck(t) \/ SendHeader(t) \/ SendPayload(t)
    BY <2>1, SendStep DEF Channel!Next
  <2>2. CASE Connect(t) \/ ClosePipeAtDetach(t)
    BY <2>2, OpenCloseStep DEF Channel!Next
  <2>3. CASE Quiet(t)
    BY <1>1, <2>3, OutsideStep
  <2>4. CASE Offers(t) \/ LastOffer(t)
    BY <1>1, <2>4, OfferStep DEF Channel!Next
  <2>5. QED
    BY <1>5, <2>1, <2>2, <2>3, <2>4 DEF PipeStep
<1>6. QED
  BY <1>1, <1>2, <1>3, <1>4, <1>5, StepKind

\* Send with its unlocked check, its lock and its two writes is a channel whose
\* messages are atomic: each is delivered once and whole while the pipe is open
\* at both ends, and is lost with its thread or because the pipe is not.
THEOREM PipeIsAChannel == Spec => ImplementsChannel
<1>1. Init => Channel!Init
  BY ChannelInit
<1>2. Inv /\ [Next]_vars => [Channel!Next]_(Channel!vars)
  BY ChannelNext
<1>3. QED
  BY <1>1, <1>2, InvHolds, PTL DEF Spec, ImplementsChannel, Channel!Spec

-----------------------------------------------------------------------------
(* hello opens what OnAttach opens: the invariant *)

\* OnAttach runs alone, under the loader lock.
AttachFrame(f) ==
  /\ f.op = "attach"
  /\ f.pc \in {"connect", "open", "track", "enum", "register", "load", "install"} \cup EmitPC
  /\ f.pc \in EmitPC => f.next \in {"track", "enum", "load"}

SoloInv ==
  /\ dll = "attach" =>
       /\ loader \in Thread /\ AttachFrame(call[loader])
       /\ \A u \in Thread \ {loader} : call[u] = Idle
  /\ \A t \in Thread : call[t].op = "attach" => dll = "attach"

\* OnAttach has opened the log and is about to emit hello, or emits it.
Greeting == dll = "attach" /\ call[loader].pc \in EmitPC /\ call[loader].ev = Plain("hello")

\* Nothing has been opened or connected, except that OnAttach may have connected the pipe.
Unopened == dll = "out" \/ (dll = "attach" /\ call[loader].pc \in {"connect", "open"})

HelloInv ==
  /\ Unopened => Len(wire) = 0 /\ Len(files) = 0
  /\ Len(wire) = 0 => Unopened \/ ~CanWrite \/ (Greeting /\ call[loader].pc \in {"send", "header"})
  /\ Len(wire) # 0 => wire[1].ev.kind = "hello"

GreetedInv ==
  \A i \in 1..Len(files) :
    files[i].by = "attach" /\ Plain("hello") \notin files[i].lost =>
      /\ StartsWithHello(files[i].lines)
      /\ i = file_ => Greeting \/ files[i].lines # <<>>

-----------------------------------------------------------------------------
(* Frames of OnAttach *)

\* What a call keeps when it goes on.
LEMMA GotoFacts ==
  ASSUME TypeOK, NEW t \in Thread, NEW p \in PC, Goto(t, p)
  PROVE  /\ call'[t].pc = p /\ call'[t].op = call[t].op
         /\ call'[t].ev = call[t].ev /\ call'[t].next = call[t].next
         /\ \A u \in Thread \ {t} : call'[u] = call[u]
<1>1. call[t] \in Frame
  BY DEF TypeOK
<1>2. call' = [call EXCEPT ![t] = [call[t] EXCEPT !.pc = p]]
  BY DEF Goto, Become
<1>3. QED
  BY <1>1, <1>2 DEF TypeOK, Frame

LEMMA ResumeFacts ==
  ASSUME TypeOK, NEW t \in Thread, NEW p \in PC, Resume(t, p)
  PROVE  /\ call'[t].pc = p /\ call'[t].op \in {call[t].op, "none"}
         /\ p # "idle" => call'[t].op = call[t].op
         /\ \A u \in Thread \ {t} : call'[u] = call[u]
<1> DEFINE f == [Idle EXCEPT !.op = call[t].op, !.pc = p, !.todo = call[t].todo]
<1>1. f.pc = p /\ f.op = call[t].op
  BY DEF Idle
<1>2. Idle.pc = "idle" /\ Idle.op = "none"
  BY FrameTypes
<1>3. call' = [call EXCEPT ![t] = IF p = "idle" THEN Idle ELSE f]
  BY DEF Resume, Become
<1> HIDE DEF f
<1>4. QED
  BY <1>1, <1>2, <1>3 DEF TypeOK

\* What Send's writes do: they fail, wait, or add a chunk.
LEMMA SendGoes ==
  ASSUME TypeOK, NEW t \in Thread, SendHeader(t) \/ SendPayload(t)
  PROVE  /\ \E p \in {"header", "payload", "append"} : Goto(t, p)
         /\ \/ ~CanWrite /\ UNCHANGED wire /\ ~CanWrite'
            \/ /\ UNCHANGED <<wire, call, pipe_, server>>
               /\ CanWrite /\ SendHeader(t) /\ pipe_mu = NoThread
            \/ /\ CanWrite
               /\ \E part \in {"header", "payload"} :
                    wire' = Append(wire, [part |-> part, ev |-> call[t].ev])
<1>1. CASE WaitForReader(t) /\ SendHeader(t)
  <2>1. call[t].pc = "header" /\ UNCHANGED call
    BY <1>1 DEF WaitForReader, SendHeader
  <2>2. Goto(t, "header")
    BY <2>1 DEF Goto, Become, TypeOK, Frame
  <2>3. UNCHANGED <<wire, call, pipe_, server>> /\ CanWrite /\ pipe_mu = NoThread
    BY <1>1 DEF WaitForReader, SendHeader
  <2>4. QED
    BY <1>1, <2>2, <2>3
<1>2. CASE WriteFails(t)
  BY <1>2 DEF WriteFails, ClosePipe, CanWrite
<1>3. CASE WriteHeader(t) \/ WritePayload(t)
  BY <1>3 DEF WriteHeader, WritePayload, Write
<1>4. QED
  BY <1>1, <1>2, <1>3 DEF SendHeader, SendPayload

\* A frame that emits e, whatever todo.
Emits(t, f, e, first, label) ==
  \/ f = EmitFrame(t, e, first, label)
  \/ \E ms : f = [EmitFrame(t, e, first, label) EXCEPT !.todo = ms]

LEMMA EmitFacts ==
  ASSUME TypeOK, NEW t \in Thread, NEW e, NEW first, NEW label, NEW f,
         Emits(t, f, e, first, label), Become(t, f)
  PROVE  /\ call'[t].pc = first /\ call'[t].op = call[t].op
         /\ call'[t].ev = e /\ call'[t].next = label
         /\ \A u \in Thread \ {t} : call'[u] = call[u]
<1>1. call[t] \in Frame
  BY DEF TypeOK
<1>2. f.pc = first /\ f.op = call[t].op /\ f.ev = e /\ f.next = label
  BY <1>1 DEF Emits, EmitFrame, Frame
<1>3. call' = [call EXCEPT ![t] = f]
  BY DEF Become
<1>4. QED
  BY <1>2, <1>3 DEF TypeOK

\* Whatever t goes on with, it has begun.
LEMMA Begun ==
  ASSUME NEW t \in Thread, Continue(t)
  PROVE  call[t].pc # "idle"
BY DEF Continue, SendCheck, SendHeader, SendPayload, AppendCheck, AppendLock,
   WriteLine, StartModuleTracking, EmitModuleLoaded, FaultOnUnmapped, Register,
   UnlockLoader, Connect, OpenAtAttach, LoadD3D12, InstallExportHooks, OpenAtStart,
   CloseLog, StopModuleTracking, ClosePipeAtDetach, CloseLogAtDetach

\* What OnAttach does, one step at a time.
Attaches(t) ==
  \/ SendCheck(t) \/ SendHeader(t) \/ SendPayload(t) \/ AppendCheck(t) \/ AppendLock(t)
  \/ WriteLine(t) \/ StartModuleTracking(t) \/ EmitModuleLoaded(t) \/ FaultOnUnmapped(t)
  \/ Register(t) \/ Connect(t) \/ OpenAtAttach(t) \/ LoadD3D12(t) \/ InstallExportHooks(t)

LEMMA AttachMoves ==
  ASSUME TypeOK, SoloInv, dll = "attach", [Next]_vars
  PROVE  UNCHANGED vars \/ LauncherActs \/ Attaches(loader)
<1>1. /\ loader \in Thread /\ AttachFrame(call[loader])
      /\ \A u \in Thread \ {loader} : call[u].pc = "idle"
  BY FrameTypes DEF SoloInv
<1>2. ASSUME NEW t \in Thread, Environment(t)
      PROVE  FALSE
  BY <1>2 DEF Environment, Attach, ObjectEvent, StartLogging, StopLogging, LoadModule,
     UnloadModule, Detach
<1>3. ASSUME NEW t \in Thread, Continue(t)
      PROVE  Attaches(loader)
  <2>1. t = loader
    BY <1>1, <1>3, Begun
  <2>2. /\ call[t].pc \notin {"unlockLoader", "close", "unregister", "closePipe", "closeLog"}
        /\ call[t].op # "start"
    BY <1>1, <2>1 DEF AttachFrame, EmitPC
  <2>3. ~(UnlockLoader(t) \/ OpenAtStart(t) \/ CloseLog(t) \/ StopModuleTracking(t)
          \/ ClosePipeAtDetach(t) \/ CloseLogAtDetach(t))
    BY <2>2 DEF UnlockLoader, OpenAtStart, CloseLog, StopModuleTracking, ClosePipeAtDetach,
       CloseLogAtDetach
  <2>4. QED
    BY <1>3, <2>1, <2>3 DEF Continue, Attaches
<1>4. QED
  BY <1>2, <1>3 DEF Next

LEMMA OutMoves ==
  ASSUME TypeOK, AloneInv, dll = "out", [Next]_vars
  PROVE  UNCHANGED vars \/ LauncherActs \/ \E t \in Thread : Attach(t)
<1>1. \A t \in Thread : call[t].pc = "idle"
  BY FrameTypes DEF AloneInv
<1>2. ASSUME NEW t \in Thread, Environment(t)
      PROVE  Attach(t)
  BY <1>2 DEF Environment, ObjectEvent, StartLogging, StopLogging, LoadModule, UnloadModule,
     Detach
<1>3. QED
  BY <1>1, <1>2, Begun DEF Next

\* Only Attach begins OnAttach.
LEMMA OpFrom ==
  ASSUME TypeOK, NEW t \in Thread, Environment(t) \/ Continue(t), ~Attach(t),
         NEW u \in Thread, call'[u].op = "attach"
  PROVE  call[u].op = "attach"
<1>1. Idle.op = "none" /\ Dead.op = "none"
  BY FrameTypes DEF Dead, Idle
<1> DEFINE Goal == call[u].op = "attach"
<1>2. ASSUME Become(t, Idle)
      PROVE  Goal
  BY <1>1, <1>2 DEF Become, TypeOK
<1>3. ASSUME NEW p \in PC, Goto(t, p)
      PROVE  Goal
  BY <1>3, GotoFacts
<1>4. ASSUME NEW p \in PC, Resume(t, p)
      PROVE  Goal
  BY <1>4, ResumeFacts
<1>5. ASSUME NEW f, Become(t, f), f.op \in {"object", "start", "stop", "detach", "exit"}
      PROVE  Goal
  BY <1>5 DEF Become, TypeOK
<1>6. ASSUME NEW e, NEW first, NEW label, NEW f, Emits(t, f, e, first, label), Become(t, f)
      PROVE  Goal
  BY <1>6, EmitFacts
<1>7. call[t] \in Frame /\ call[t].next \in PC
  BY DEF TypeOK, Frame
<1>8. ASSUME NEW kind, NEW m, NEW label \in PC, OnLdrNotification(t, kind, m, label)
      PROVE  Goal
  BY <1>3, <1>6, <1>8 DEF OnLdrNotification, Emits
<1>9. {"idle", "track", "enum", "unlockLoader", "install", "unregister", "load", "register",
       "header", "payload", "append", "open", "closeLog", "lock", "line", "closePipe"} \subseteq PC
  BY DEF PC
<1>10. CASE Environment(t)
  <2>1. CASE ObjectEvent(t)
    <3> DEFINE e == [Plain("object") EXCEPT !.n = ops + 1]
               f == [EmitFrame(t, e, "send", "idle") EXCEPT !.op = "object"]
    <3>1. f.op = "object"
      BY <1>7 DEF EmitFrame, Frame
    <3>2. Become(t, f)
      BY <2>1 DEF ObjectEvent
    <3>3. QED
      BY <1>5, <3>1, <3>2
  <2>2. ASSUME NEW callstacks \in BOOLEAN, StartLogging(t, callstacks)
        PROVE  Goal
    <3>1. [Idle EXCEPT !.op = "start", !.pc = "open"].op = "start"
      BY DEF Idle
    <3>2. QED
      BY <1>5, <2>2, <3>1 DEF StartLogging
  <2>3. CASE StopLogging(t)
    <3>1. [Idle EXCEPT !.op = "stop", !.pc = "close"].op = "stop"
      BY DEF Idle
    <3>2. QED
      BY <1>5, <2>3, <3>1 DEF StopLogging
  <2>4. ASSUME NEW m \in Module, LoadModule(t, m) \/ UnloadModule(t, m)
        PROVE  Goal
    BY <1>8, <1>9, <2>4 DEF LoadModule, UnloadModule
  <2>5. ASSUME NEW op \in {"detach", "exit"}, Detach(t, op)
        PROVE  Goal
    <3> DEFINE f == [EmitFrame(t, Plain("goodbye"), "send", "unregister") EXCEPT !.op = op]
    <3>1. f.op = op
      BY <1>7 DEF EmitFrame, Frame
    <3> HIDE DEF f
    <3>2. \/ call' = [x \in Thread |-> IF x = t THEN f ELSE Dead]
          \/ Become(t, f)
      BY <2>5 DEF Detach, f
    <3>3. ASSUME call' = [x \in Thread |-> IF x = t THEN f ELSE Dead]
          PROVE  FALSE
      BY <1>1, <3>1, <3>3
    <3>4. QED
      BY <1>5, <3>1, <3>2, <3>3
  <2>6. QED
    BY <1>10, <2>1, <2>2, <2>3, <2>4, <2>5 DEF Environment
<1>11. CASE Continue(t)
  <2>1. CASE SendCheck(t) \/ SendHeader(t) \/ SendPayload(t) \/ AppendLock(t) \/ Connect(t)
             \/ StopModuleTracking(t) \/ ClosePipeAtDetach(t)
    BY <1>3, <1>9, <2>1, SendGoes DEF SendCheck, AppendLock, Connect, StopModuleTracking,
       ClosePipeAtDetach
  <2>2. CASE AppendCheck(t) \/ WriteLine(t) \/ Register(t)
    BY <1>3, <1>4, <1>7, <1>9, <2>2 DEF AppendCheck, WriteLine, Register, AfterTracking
  <2>3. CASE StartModuleTracking(t)
    <3>1. ASSUME NEW ms, Become(t, [call[t] EXCEPT !.pc = "enum", !.todo = ms])
          PROVE  Goal
      <4>1. [call[t] EXCEPT !.pc = "enum", !.todo = ms].op = call[t].op
        BY <1>7 DEF Frame
      <4>2. QED
        BY <3>1, <4>1 DEF Become, TypeOK
    <3>2. QED
      BY <1>4, <1>9, <2>3, <3>1 DEF StartModuleTracking, Enumerate, AfterTracking
  <2>4. CASE EmitModuleLoaded(t)
    <3>1. ASSUME NEW m \in call[t].todo,
                 Become(t, [EmitFrame(t, ModuleEvent("module_loaded", m), "send", "enum")
                              EXCEPT !.todo = @ \ {m}])
          PROVE  Goal
      BY <1>6, <3>1 DEF Emits
    <3>2. QED
      BY <1>3, <1>9, <2>4, <3>1 DEF EmitModuleLoaded
  <2>5. CASE FaultOnUnmapped(t) \/ CloseLogAtDetach(t)
    <3>1. call'[u] \in {Idle, Dead}
      BY <2>5 DEF FaultOnUnmapped, CloseLogAtDetach
    <3>2. QED
      BY <1>1, <3>1
  <2>6. CASE UnlockLoader(t) \/ InstallExportHooks(t) \/ CloseLog(t)
    BY <1>2, <2>6 DEF UnlockLoader, InstallExportHooks, CloseLog
  <2>7. CASE OpenAtAttach(t) \/ OpenAtStart(t)
    BY <1>2, <1>6, <2>7 DEF OpenAtAttach, OpenAtStart, Emits
  <2>8. CASE LoadD3D12(t)
    BY <1>3, <1>8, <1>9, <2>8 DEF LoadD3D12
  <2>9. QED
    BY <1>11, <2>1, <2>2, <2>3, <2>4, <2>5, <2>6, <2>7, <2>8 DEF Continue
<1>12. QED
  BY <1>10, <1>11

\* t is still in OnAttach, and has opened the log unless it was before that.
Goes(t) ==
  /\ AttachFrame(call'[t])
  /\ call'[t].pc # "connect" /\ (call'[t].pc = "open" => Connect(t))

\* An OnAttach that goes on is still one.
LEMMA AttachGoes ==
  ASSUME TypeOK, NEW t \in Thread, AttachFrame(call[t]), Attaches(t)
  PROVE  \/ /\ Goes(t) /\ UNCHANGED <<dll, loader>>
            /\ \A u \in Thread \ {t} : call'[u] = call[u]
         \/ /\ dll' \in {"in", "crashed"}
            /\ \A u \in Thread : call'[u].op = "attach" => u # t /\ call[u].op = "attach"
<1> USE DEF lifeVars, moduleVars, logVars
<1>1. call[t] \in Frame /\ call[t].next \in PC /\ call[t].op = "attach"
  BY DEF TypeOK, Frame, AttachFrame
<1>2. {"track", "enum", "install", "load", "register", "idle",
       "header", "payload", "append", "open", "lock", "line"} \subseteq PC
  BY DEF PC
<1>3. CASE SendCheck(t) \/ SendHeader(t) \/ SendPayload(t) \/ AppendLock(t)
  <2>1. PICK p \in {"header", "payload", "append", "line"} : Goto(t, p)
    BY <1>3, SendGoes DEF SendCheck, AppendLock
  <2>2. call[t].pc \in EmitPC /\ p \in EmitPC /\ p \in PC
    BY <1>2, <1>3 DEF EmitPC, SendCheck, SendHeader, SendPayload, AppendLock
  <2>3. UNCHANGED <<dll, loader>>
    BY <1>3 DEF SendCheck, SendHeader, SendPayload, AppendLock
  <2>4. QED
    BY <2>1, <2>2, <2>3, GotoFacts DEF Goes, AttachFrame
<1>4. CASE AppendCheck(t) \/ WriteLine(t)
  <2>1. call[t].pc \in EmitPC /\ call[t].next \in {"track", "enum", "load"}
    BY <1>4 DEF EmitPC, AppendCheck, WriteLine, AttachFrame
  <2>2. Goto(t, "lock") \/ Resume(t, call[t].next)
    BY <1>4 DEF AppendCheck, WriteLine
  <2>3. UNCHANGED <<dll, loader>>
    BY <1>4 DEF AppendCheck, WriteLine
  <2>4. CASE Goto(t, "lock")
    BY <1>2, <2>1, <2>3, <2>4, GotoFacts DEF Goes, AttachFrame, EmitPC
  <2>5. CASE Resume(t, call[t].next)
    BY <1>1, <2>1, <2>3, <2>5, ResumeFacts DEF Goes, AttachFrame, EmitPC
  <2>6. QED
    BY <2>2, <2>4, <2>5
<1>5. CASE StartModuleTracking(t) \/ Register(t)
  <2>1. UNCHANGED <<dll, loader>>
    BY <1>5 DEF StartModuleTracking, Register
  <2>2. CASE Resume(t, "load")
    BY <1>1, <1>2, <2>1, <2>2, ResumeFacts DEF Goes, AttachFrame, EmitPC
  <2>3. ASSUME NEW ms, Become(t, [call[t] EXCEPT !.pc = "enum", !.todo = ms])
        PROVE  /\ Goes(t) /\ UNCHANGED <<dll, loader>>
               /\ \A u \in Thread \ {t} : call'[u] = call[u]
    <3> DEFINE f == [call[t] EXCEPT !.pc = "enum", !.todo = ms]
    <3>1. f.pc = "enum" /\ f.op = call[t].op
      BY <1>1 DEF Frame
    <3>2. call' = [call EXCEPT ![t] = f]
      BY <2>3 DEF Become
    <3>3. QED
      BY <1>1, <2>1, <3>1, <3>2 DEF Goes, AttachFrame, EmitPC, TypeOK
  <2>4. Resume(t, "load") \/ \E ms : Become(t, [call[t] EXCEPT !.pc = "enum", !.todo = ms])
    BY <1>1, <1>5 DEF StartModuleTracking, Enumerate, Register, AfterTracking
  <2>5. QED
    BY <2>2, <2>3, <2>4
<1>6. ASSUME NEW f, NEW e, NEW label \in {"track", "enum", "load"},
             Emits(t, f, e, "send", label), Become(t, f), UNCHANGED <<dll, loader>>
      PROVE  /\ Goes(t)
             /\ \A u \in Thread \ {t} : call'[u] = call[u]
  <2>1. /\ call'[t].pc = "send" /\ call'[t].op = call[t].op /\ call'[t].next = label
        /\ \A u \in Thread \ {t} : call'[u] = call[u]
    BY <1>6, EmitFacts
  <2>2. QED
    BY <1>1, <2>1 DEF Goes, AttachFrame, EmitPC
<1>7. CASE EmitModuleLoaded(t) \/ LoadD3D12(t) \/ Connect(t)
  <2>1. UNCHANGED <<dll, loader>>
    BY <1>7 DEF EmitModuleLoaded, LoadD3D12, Connect
  <2>2. \/ \E p \in {"register", "install", "load", "open"} : Goto(t, p) /\ (p = "open" => Connect(t))
        \/ \E f, e : \E label \in {"enum", "load"} :
             Emits(t, f, e, "send", label) /\ Become(t, f)
    <3>1. CASE EmitModuleLoaded(t)
      BY <3>1 DEF EmitModuleLoaded, Emits
    <3>2. CASE LoadD3D12(t)
      BY <3>2 DEF LoadD3D12, OnLdrNotification, Emits
    <3>3. CASE Connect(t)
      BY <3>3 DEF Connect
    <3>4. QED
      BY <1>7, <3>1, <3>2, <3>3
  <2>3. ASSUME NEW p \in {"register", "install", "load", "open"}, Goto(t, p), p = "open" => Connect(t)
        PROVE  /\ Goes(t)
               /\ \A u \in Thread \ {t} : call'[u] = call[u]
    BY <1>1, <1>2, <2>3, GotoFacts DEF Goes, AttachFrame, EmitPC
  <2>4. QED
    BY <1>6, <2>1, <2>2, <2>3
<1>8. CASE OpenAtAttach(t)
  <2>1. UNCHANGED <<dll, loader>>
    BY <1>8 DEF OpenAtAttach
  <2>2. \E f, e : Emits(t, f, e, "send", "track") /\ Become(t, f)
    BY <1>8 DEF OpenAtAttach, Emits
  <2>3. QED
    BY <1>6, <2>1, <2>2
<1>9. CASE FaultOnUnmapped(t) \/ InstallExportHooks(t)
  <2>1. dll' \in {"in", "crashed"} /\ (call' = [u \in Thread |-> Dead] \/ Become(t, Idle))
    BY <1>9 DEF FaultOnUnmapped, InstallExportHooks
  <2>2. Idle.op = "none" /\ Dead.op = "none"
    BY FrameTypes DEF Dead, Idle
  <2>3. QED
    BY <2>1, <2>2 DEF Become, TypeOK
<1>10. QED
  BY <1>3, <1>4, <1>5, <1>7, <1>8, <1>9 DEF Attaches

LEMMA SoloStep ==
  ASSUME TypeOK, AloneInv, SoloInv, [Next]_vars
  PROVE  SoloInv'
<1>1. CASE UNCHANGED vars \/ LauncherActs
  BY <1>1 DEF vars, lifeVars, LauncherActs, ServerCloses, ServerReads, SoloInv, AttachFrame
<1>2. ASSUME NEW t \in Thread, Attach(t)
      PROVE  SoloInv'
  <2> DEFINE f == [Idle EXCEPT !.op = "attach", !.pc = "connect"]
  <2>1. f.op = "attach" /\ f.pc = "connect" /\ Idle.op = "none"
    BY DEF Idle
  <2>2. call' = [call EXCEPT ![t] = f] /\ dll' = "attach" /\ loader' = t /\ dll = "out"
    BY <1>2 DEF Attach, Become
  <2>3. call'[t] = f /\ \A u \in Thread \ {t} : call'[u] = Idle
    BY <2>2 DEF TypeOK, AloneInv
  <2>4. QED
    BY <2>1, <2>2, <2>3 DEF SoloInv, AttachFrame, EmitPC
<1>3. CASE dll = "attach" /\ Attaches(loader)
  <2>1. /\ loader \in Thread /\ AttachFrame(call[loader])
        /\ \A u \in Thread \ {loader} : call[u] = Idle
    BY <1>3 DEF SoloInv
  <2>2. Idle.op = "none"
    BY DEF Idle
  <2>3. CASE /\ Goes(loader) /\ UNCHANGED <<dll, loader>>
             /\ \A u \in Thread \ {loader} : call'[u] = call[u]
    BY <1>3, <2>1, <2>3 DEF SoloInv, AttachFrame, Goes
  <2>4. CASE /\ dll' \in {"in", "crashed"}
             /\ \A u \in Thread : call'[u].op = "attach" => u # loader /\ call[u].op = "attach"
    BY <2>1, <2>2, <2>4 DEF SoloInv
  <2>5. QED
    BY <1>3, <2>1, <2>3, <2>4, AttachGoes
<1>4. ASSUME NEW t \in Thread, Environment(t) \/ Continue(t), dll \notin {"out", "attach"}
      PROVE  SoloInv'
  <2>1. dll' # "attach" /\ ~Attach(t)
    BY <1>4 DEF Environment, Continue, Attach, ObjectEvent, StartLogging, StopLogging,
       LoadModule, UnloadModule, Detach, SendCheck, SendHeader, SendPayload, AppendCheck,
       AppendLock, WriteLine, StartModuleTracking, EmitModuleLoaded, FaultOnUnmapped, Register,
       UnlockLoader, Connect, OpenAtAttach, LoadD3D12, InstallExportHooks, OpenAtStart,
       CloseLog, StopModuleTracking, ClosePipeAtDetach, CloseLogAtDetach, lifeVars
  <2>2. \A u \in Thread : call'[u].op = "attach" => call[u].op = "attach"
    BY <1>4, <2>1, OpFrom
  <2>3. QED
    BY <1>4, <2>1, <2>2 DEF SoloInv
<1>5. QED
  BY <1>1, <1>2, <1>3, <1>4, OutMoves, AttachMoves DEF Next

-----------------------------------------------------------------------------
(* hello on the pipe *)

\* The pipe is written to by Send, and connected by Connect.
LEMMA WireKind ==
  ASSUME TypeOK, CallInv, [Next]_vars
  PROVE  \/ /\ UNCHANGED wire
            /\ CanWrite' => CanWrite \/ \E t \in Thread : Connect(t)
         \/ \E t \in Thread :
              /\ CanWrite
              /\ SendHeader(t) \/ SendPayload(t)
              /\ \E c \in Chunk : c.ev = call[t].ev /\ wire' = Append(wire, c)
<1>1. CASE \/ UNCHANGED <<call, pipeVars>> \/ Dies
           \/ \E t \in Thread : Quiet(t) \/ Offers(t) \/ LastOffer(t)
  BY <1>1 DEF Dies, Quiet, Offers, LastOffer, pipeVars, CanWrite
<1>2. CASE LauncherActs
  BY <1>2 DEF LauncherActs, ServerCloses, ServerReads, CanWrite
<1>3. ASSUME NEW t \in Thread, SendHeader(t) \/ SendPayload(t)
      PROVE  \/ UNCHANGED wire /\ (CanWrite' => CanWrite)
             \/ /\ CanWrite
                /\ \E c \in Chunk : c.ev = call[t].ev /\ wire' = Append(wire, c)
  <2>1. call[t].ev \in Event
    BY DEF TypeOK, Frame
  <2>2. \/ UNCHANGED wire /\ (CanWrite' => CanWrite)
        \/ /\ CanWrite
           /\ \E part \in {"header", "payload"} :
                wire' = Append(wire, [part |-> part, ev |-> call[t].ev])
    BY <1>3, SendGoes DEF CanWrite
  <2>3. QED
    BY <2>1, <2>2 DEF Chunk
<1>5. ASSUME NEW t \in Thread, SendCheck(t) \/ ClosePipeAtDetach(t)
      PROVE  UNCHANGED wire /\ (CanWrite' => CanWrite)
  BY <1>5 DEF SendCheck, ClosePipeAtDetach, ClosePipe, CanWrite, pipeVars
<1>6. ASSUME NEW t \in Thread, Connect(t)
      PROVE  UNCHANGED wire
  BY <1>6 DEF Connect
<1>7. QED
  BY <1>1, <1>2, <1>3, <1>5, <1>6, StepKind DEF PipeStep

\* What is on the wire stays there.
LEMMA WireGrows ==
  ASSUME TypeOK, CallInv, [Next]_vars
  PROVE  Len(wire) # 0 => Len(wire') # 0 /\ wire'[1] = wire[1]
<1>1. wire \in Seq(Chunk) /\ Len(wire) \in Nat
  BY LenProperties DEF TypeOK
<1>2. ASSUME NEW c \in Chunk, wire' = Append(wire, c), Len(wire) # 0
      PROVE  Len(wire') # 0 /\ wire'[1] = wire[1]
  <2>1. 1 \in 1..Len(wire)
    BY <1>1, <1>2
  <2>2. /\ Len(Append(wire, c)) = Len(wire) + 1
        /\ \A i \in 1..Len(wire) : Append(wire, c)[i] = wire[i]
    BY <1>1, AppendProperties
  <2>3. QED
    BY <1>1, <1>2, <2>1, <2>2
<1>3. QED
  BY <1>2, WireKind

\* A step of OnAttach that is neither before hello nor hello's.
LEMMA HelloAttach ==
  ASSUME TypeOK, CallInv, AloneInv, SoloInv, HelloInv, [Next]_vars,
         dll = "attach", Attaches(loader)
  PROVE  HelloInv'
<1> DEFINE a == loader
<1>1. /\ a \in Thread /\ AttachFrame(call[a])
      /\ \A u \in Thread \ {a} : call[u].pc = "idle"
  BY FrameTypes DEF SoloInv
<1>2. wire \in Seq(Chunk) /\ Len(wire) \in Nat
  BY LenProperties DEF TypeOK
<1>3. {"header", "payload", "append", "open"} \subseteq PC
  BY DEF PC
<1>4. Len(wire) # 0 => Len(wire') # 0 /\ wire'[1] = wire[1]
  BY WireGrows
<1>5. CASE Connect(a)
  <2>1. Len(wire) = 0 /\ Len(files) = 0 /\ UNCHANGED <<wire, files, dll, loader>> /\ Goto(a, "open")
    BY <1>5 DEF Connect, HelloInv, Unopened, lifeVars, logVars
  <2>2. Unopened'
    BY <1>1, <1>3, <2>1, GotoFacts DEF Unopened
  <2>3. QED
    BY <2>1, <2>2 DEF HelloInv
<1>6. CASE OpenAtAttach(a)
  <2>1. Len(wire) = 0 /\ UNCHANGED <<wire, dll, loader>>
    BY <1>6 DEF OpenAtAttach, HelloInv, Unopened, lifeVars, pipeVars
  <2>2. PICK f : Emits(a, f, Plain("hello"), "send", "track") /\ Become(a, f)
    BY <1>6 DEF OpenAtAttach, Emits
  <2>3. call'[a].pc = "send" /\ call'[a].ev = Plain("hello")
    BY <1>1, <2>2, EmitFacts
  <2>4. ~Unopened' /\ Greeting'
    BY <2>1, <2>3 DEF Unopened, Greeting, EmitPC
  <2>5. QED
    BY <2>1, <2>3, <2>4 DEF HelloInv
<1>7. ASSUME ~Connect(a), ~OpenAtAttach(a)
      PROVE  ~Unopened' /\ ~Unopened
  <2>1. call[a].pc \notin {"connect", "open"}
    BY <1>1, <1>7 DEF Attaches, SendCheck, SendHeader, SendPayload, AppendCheck, AppendLock,
       WriteLine, StartModuleTracking, EmitModuleLoaded, FaultOnUnmapped, Register, LoadD3D12,
       InstallExportHooks
  <2>2. \/ UNCHANGED <<dll, loader>> /\ Goes(a)
        \/ dll' \in {"in", "crashed"}
    BY <1>1, AttachGoes
  <2>3. QED
    BY <1>7, <2>1, <2>2 DEF Unopened, Goes
<1>8. CASE SendCheck(a)
  <2>1. UNCHANGED <<wire, pipe_, server, dll, loader>>
    BY <1>8 DEF SendCheck, lifeVars, pipeVars
  <2>2. ~Unopened' /\ ~Unopened
    BY <1>7, <1>8 DEF SendCheck, Connect, OpenAtAttach
  <2>3. ASSUME Greeting, CanWrite
        PROVE  Greeting' /\ call'[loader'].pc = "header"
    <3>1. Goto(a, "header")
      BY <1>8, <2>3 DEF SendCheck, CanWrite
    <3>2. QED
      BY <1>1, <1>3, <2>1, <2>3, <3>1, GotoFacts DEF Greeting, EmitPC
  <2>4. QED
    BY <2>1, <2>2, <2>3 DEF HelloInv, CanWrite
<1>9. CASE SendHeader(a) \/ SendPayload(a)
  <2>1. ~Unopened' /\ ~Unopened
    BY <1>7, <1>9 DEF SendHeader, SendPayload, Connect, OpenAtAttach
  <2>2. CASE ~CanWrite
    <3>1. UNCHANGED wire /\ ~CanWrite'
      BY <1>1, <1>9, <2>2, SendGoes
    <3>2. QED
      BY <2>1, <3>1 DEF HelloInv
  <2>5. CASE UNCHANGED <<wire, call, pipe_, server>>
    <3>1. UNCHANGED <<dll, loader>>
      BY <1>9 DEF SendHeader, SendPayload, lifeVars
    <3>2. QED
      BY <2>1, <2>5, <3>1 DEF HelloInv, Greeting, CanWrite
  <2>3. CASE CanWrite /\ ~UNCHANGED <<wire, call, pipe_, server>>
    <3>1. PICK part \in {"header", "payload"} :
            wire' = Append(wire, [part |-> part, ev |-> call[a].ev])
      BY <1>1, <1>9, <2>3, SendGoes
    <3> DEFINE c == [part |-> part, ev |-> call[a].ev]
    <3>2. c \in Chunk /\ c.ev = call[a].ev
      BY <1>1 DEF Chunk, TypeOK, Frame
    <3> HIDE DEF c
    <3>3. /\ Len(wire') = Len(wire) + 1
          /\ wire'[Len(wire) + 1] = c
      BY <1>2, <3>1, <3>2, AppendProperties DEF c
    <3>4. ASSUME Len(wire) = 0
          PROVE  wire'[1].ev.kind = "hello"
      <4>1. call[a].ev = Plain("hello")
        BY <2>1, <2>3, <3>4 DEF HelloInv, Greeting
      <4>2. call[a].ev.kind = "hello"
        BY <4>1 DEF Plain, NoEvent
      <4>3. QED
        BY <3>2, <3>3, <3>4, <4>2
    <3>5. QED
      BY <1>2, <1>4, <2>1, <3>3, <3>4 DEF HelloInv
  <2>4. QED
    BY <2>2, <2>3, <2>5
<1>10. ASSUME ~Connect(a), ~OpenAtAttach(a), ~SendCheck(a), ~SendHeader(a), ~SendPayload(a)
       PROVE  HelloInv'
  <2>1. UNCHANGED <<wire, pipe_, server>>
    BY <1>10 DEF Attaches, AppendCheck, AppendLock,
       WriteLine, StartModuleTracking, EmitModuleLoaded, FaultOnUnmapped, Register, LoadD3D12,
       InstallExportHooks, pipeVars
  <2>2. call[a].pc \notin {"send", "header"}
    BY <1>10 DEF Attaches, AppendCheck, AppendLock,
       WriteLine, StartModuleTracking, EmitModuleLoaded, FaultOnUnmapped, Register, LoadD3D12,
       InstallExportHooks
  <2>3. QED
    BY <1>7, <1>10, <2>1, <2>2 DEF HelloInv, CanWrite
<1>11. QED
  BY <1>5, <1>6, <1>8, <1>9, <1>10

\* Once OnAttach has returned, the DLL is not attached again.
LEMMA LaterMoves ==
  ASSUME TypeOK, AloneInv, SoloInv, dll \notin {"out", "attach"}, [Next]_vars
  PROVE  /\ dll' \notin {"out", "attach"}
         /\ \A t \in Thread : ~Attach(t) /\ ~Connect(t) /\ ~OpenAtAttach(t)
<1>1. \A t \in Thread : ~Attach(t) /\ ~Connect(t) /\ ~OpenAtAttach(t)
  BY DEF Attach, Connect, OpenAtAttach, AloneInv, SoloInv
<1>2. CASE UNCHANGED vars \/ LauncherActs
  BY <1>1, <1>2 DEF vars, lifeVars, LauncherActs, ServerCloses, ServerReads
<1>3. ASSUME NEW t \in Thread, Environment(t) \/ Continue(t)
      PROVE  dll' \notin {"out", "attach"}
  BY <1>1, <1>3 DEF Environment, Continue, ObjectEvent, StartLogging, StopLogging,
     LoadModule, UnloadModule, Detach, SendCheck, SendHeader, SendPayload, AppendCheck,
     AppendLock, WriteLine, StartModuleTracking, EmitModuleLoaded, FaultOnUnmapped, Register,
     UnlockLoader, LoadD3D12, InstallExportHooks, OpenAtStart,
     CloseLog, StopModuleTracking, ClosePipeAtDetach, CloseLogAtDetach, lifeVars
<1>4. QED
  BY <1>1, <1>2, <1>3 DEF Next

LEMMA HelloStep ==
  ASSUME TypeOK, CallInv, AloneInv, SoloInv, HelloInv, [Next]_vars
  PROVE  HelloInv'
<1>1. CASE UNCHANGED vars
  BY <1>1 DEF vars, lifeVars, pipeVars, logVars, HelloInv, Unopened, Greeting, CanWrite
<1>2. CASE LauncherActs
  BY <1>2 DEF LauncherActs, ServerCloses, ServerReads, lifeVars, logVars, HelloInv, Unopened,
     Greeting, CanWrite
<1>3. ASSUME NEW t \in Thread, Attach(t)
      PROVE  HelloInv'
  <2>1. UNCHANGED <<wire, files>> /\ Len(wire) = 0 /\ Len(files) = 0
    BY <1>3 DEF Attach, pipeVars, logVars, HelloInv, Unopened
  <2> DEFINE f == [Idle EXCEPT !.op = "attach", !.pc = "connect"]
  <2>2. call' = [call EXCEPT ![t] = f] /\ dll' = "attach" /\ loader' = t
    BY <1>3 DEF Attach, Become
  <2>3. f.pc = "connect"
    BY DEF Idle
  <2>4. Unopened'
    BY <2>2, <2>3 DEF Unopened, TypeOK
  <2>5. QED
    BY <2>1, <2>4 DEF HelloInv
<1>4. CASE dll = "attach" /\ Attaches(loader)
  BY <1>4, HelloAttach
<1>5. CASE dll \notin {"out", "attach"}
  <2>1. /\ dll' \notin {"out", "attach"} /\ \A t \in Thread : ~Connect(t)
    BY <1>5, LaterMoves
  <2>2. ~Unopened /\ ~Unopened' /\ ~Greeting
    BY <1>5, <2>1 DEF Unopened, Greeting
  <2>3. Len(wire) = 0 => ~CanWrite
    BY <2>2 DEF HelloInv
  <2>4. Len(wire) = 0 => UNCHANGED wire /\ ~CanWrite'
    BY <2>1, <2>3, WireKind
  <2>5. QED
    BY <2>2, <2>4, WireGrows DEF HelloInv
<1>6. QED
  BY <1>1, <1>2, <1>3, <1>4, <1>5, OutMoves, AttachMoves

-----------------------------------------------------------------------------
(* hello in the log *)

LEMMA FileTypes ==
  ASSUME FilesOK, NEW i \in 1..Len(files)
  PROVE  files[i] \in File /\ files[i].lines \in Seq(Event)
<1>1. files[i] \in File
  BY ElementOfSeq DEF FilesOK
<1>2. QED
  BY <1>1 DEF File

\* Closing a file leaves its lines alone.
LEMMA CloseFileLines ==
  ASSUME FilesOK
  PROVE  /\ CloseFile(files) \in Seq(File) /\ Len(CloseFile(files)) = Len(files)
         /\ \A i \in 1..Len(files) :
              /\ CloseFile(files)[i].by = files[i].by
              /\ CloseFile(files)[i].lines = files[i].lines
              /\ CloseFile(files)[i].lost = files[i].lost
<1>1. CASE file_ = 0
  BY <1>1 DEF CloseFile, FilesOK
<1>2. CASE file_ # 0
  <2> DEFINE c == [files[file_] EXCEPT !.closed = @ + 1]
  <2>1. file_ \in 1..Len(files) /\ files[file_] \in File
    BY <1>2, ElementOfSeq, LenProperties DEF FilesOK
  <2>2. /\ c \in File /\ c.by = files[file_].by /\ c.lines = files[file_].lines
        /\ c.lost = files[file_].lost
    BY <2>1 DEF File
  <2>3. CloseFile(files) = [files EXCEPT ![file_] = c]
    BY <1>2 DEF CloseFile
  <2> HIDE DEF c
  <2>4. /\ [files EXCEPT ![file_] = c] \in Seq(File)
        /\ Len([files EXCEPT ![file_] = c]) = Len(files)
        /\ \A j \in 1..Len(files) :
             [files EXCEPT ![file_] = c][j] = IF j = file_ THEN c ELSE files[j]
    BY <2>1, <2>2, ExceptSeq DEF FilesOK
  <2>5. QED
    BY <2>2, <2>3, <2>4
<1>3. QED
  BY <1>1, <1>2

\* No open, no close, no line; hello's emission may end if there is no log.
LEMMA SameFiles ==
  ASSUME FilesOK, GreetedInv, UNCHANGED <<file_, files>>, Greeting => Greeting' \/ file_ = 0
  PROVE  GreetedInv'
<1>1. Len(files) \in Nat
  BY LenProperties DEF FilesOK
<1>2. QED
  BY <1>1 DEF GreetedInv

\* What is closed is not the log any more.
LEMMA FilesClosed ==
  ASSUME FilesOK, GreetedInv, files' = CloseFile(files), file_' = 0
  PROVE  GreetedInv'
<1>1. Len(files) \in Nat
  BY LenProperties DEF FilesOK
<1>2. QED
  BY <1>1, CloseFileLines DEF GreetedInv

\* A file that OnAttach opens is about to get hello.
LEMMA FileOpened ==
  ASSUME FilesOK, GreetedInv, NEW by \in {"attach", "start"}, OpenLog(by),
         by = "attach" => Greeting'
  PROVE  GreetedInv'
<1> DEFINE fs == CloseFile(files)
           new == NewFile(by)
<1>1. /\ fs \in Seq(File) /\ Len(fs) = Len(files) /\ Len(files) \in Nat
      /\ \A i \in 1..Len(files) : /\ fs[i].by = files[i].by /\ fs[i].lines = files[i].lines
                                    /\ fs[i].lost = files[i].lost
  BY CloseFileLines, LenProperties DEF FilesOK
<1>2. new \in File /\ new.by = by /\ new.lines = <<>>
  BY DEF File, NewFile
<1>3. \/ files' = fs /\ file_' = 0
      \/ files' = Append(fs, new) /\ file_' = Len(files) + 1
  BY DEF OpenLog
<1> HIDE DEF fs, new
<1>4. ASSUME files' = Append(fs, new), file_' = Len(files) + 1
      PROVE  GreetedInv'
  <2>1. /\ Len(files') = Len(files) + 1
        /\ \A i \in 1..Len(files) : files'[i] = fs[i]
        /\ files'[Len(files) + 1] = new
    BY <1>1, <1>2, <1>4, AppendProperties
  <2>2. ASSUME NEW i \in 1..Len(files), files'[i].by = "attach",
               Plain("hello") \notin files'[i].lost
        PROVE  StartsWithHello(files'[i].lines) /\ i # file_'
    <3>1. /\ files'[i].by = files[i].by /\ files'[i].lines = files[i].lines
          /\ files'[i].lost = files[i].lost
      BY <1>1, <2>1
    <3>2. StartsWithHello(files[i].lines)
      BY <2>2, <3>1 DEF GreetedInv
    <3>3. QED
      BY <1>1, <1>4, <3>1, <3>2
  <2>3. new.by = "attach" => StartsWithHello(new.lines) /\ Greeting'
    BY <1>2 DEF StartsWithHello
  <2>4. \A i \in 1..Len(files') : i \in 1..Len(files) \/ i = Len(files) + 1
    BY <1>1, <2>1
  <2>5. QED
    BY <1>4, <2>1, <2>2, <2>3, <2>4 DEF GreetedInv
<1>5. ASSUME files' = fs, file_' = 0
      PROVE  GreetedInv'
  BY <1>5, FilesClosed DEF fs
<1>6. QED
  BY <1>3, <1>4, <1>5

\* The first line of a file that OnAttach opened is the one it emits.
LEMMA LineWritten ==
  ASSUME FilesOK, GreetedInv, NEW e \in Event, Greeting => e.kind = "hello", UNCHANGED file_,
         file_ # 0, files' = [files EXCEPT ![file_].lines = Append(@, e)]
  PROVE  GreetedInv'
<1> DEFINE l == files[file_].lines
           w == [files[file_] EXCEPT !.lines = Append(@, e)]
<1>1. Len(files) \in Nat /\ file_ \in 1..Len(files)
  BY LenProperties DEF FilesOK
<1>2. files[file_] \in File /\ l \in Seq(Event)
  BY <1>1, FileTypes
<1>3. /\ w \in File /\ w.by = files[file_].by /\ w.lines = Append(l, e)
      /\ w.lost = files[file_].lost
  <2>1. Append(l, e) \in Seq(Event)
    BY <1>2, AppendProperties
  <2>2. w = [files[file_] EXCEPT !.lines = Append(l, e)]
    OBVIOUS
  <2> HIDE DEF l, w
  <2>3. QED
    BY <1>2, <2>1, <2>2 DEF File
<1>4. files' = [files EXCEPT ![file_] = w]
  OBVIOUS
<1>5. Len(l) \in Nat /\ (l # <<>> => Len(l) # 0) /\ Len(<<>>) = 0
  BY <1>2, LenProperties, EmptySeq
<1>0. files \in Seq(File) /\ w \in File
  BY <1>3 DEF FilesOK
<1> HIDE DEF w, l
<1>6. /\ Len(files') = Len(files)
      /\ \A j \in 1..Len(files) : files'[j] = IF j = file_ THEN w ELSE files[j]
  BY ONLY <1>0, <1>1, <1>4, ExceptSeq
<1>7. ASSUME w.by = "attach", Plain("hello") \notin w.lost
      PROVE  w.lines # <<>> /\ w.lines[1].kind = "hello"
  <2>1. /\ Append(l, e) # <<>>
        /\ \A i \in 1..Len(l) : Append(l, e)[i] = l[i]
        /\ Append(l, e)[Len(l) + 1] = e
    BY <1>2, AppendProperties
  <2>2. StartsWithHello(l) /\ (Greeting \/ l # <<>>)
    BY <1>1, <1>3, <1>7 DEF GreetedInv, l
  <2>3. CASE l = <<>>
    BY <1>3, <1>5, <2>1, <2>2, <2>3
  <2>4. CASE l # <<>>
    <3>1. 1 \in 1..Len(l)
      BY <1>5, <2>4
    <3>2. QED
      BY <1>3, <2>1, <2>2, <2>4, <3>1 DEF StartsWithHello
  <2>5. QED
    BY <2>3, <2>4
<1>8. QED
  BY <1>6, <1>7 DEF GreetedInv, StartsWithHello

\* A line that is lost is not hello's, or excuses what follows.
LEMMA LineLost ==
  ASSUME FilesOK, GreetedInv, NEW e \in Event, Greeting => e = Plain("hello"), UNCHANGED file_,
         file_ # 0, files' = [files EXCEPT ![file_].lost = @ \cup {e}]
  PROVE  GreetedInv'
<1> DEFINE w == [files[file_] EXCEPT !.lost = @ \cup {e}]
<1>1. Len(files) \in Nat /\ file_ \in 1..Len(files)
  BY LenProperties DEF FilesOK
<1>2. files[file_] \in File
  BY <1>1, FileTypes
<1>3. files[file_].lost \cup {e} \in SUBSET Event
  BY <1>2 DEF File
<1>4. /\ w \in File /\ w.by = files[file_].by /\ w.lines = files[file_].lines
      /\ w.lost = files[file_].lost \cup {e}
  BY <1>2, <1>3 DEF File
<1>5. files' = [files EXCEPT ![file_] = w]
  OBVIOUS
<1>0. files \in Seq(File) /\ w \in File
  BY <1>4 DEF FilesOK
<1> HIDE DEF w
<1>6. /\ Len(files') = Len(files)
      /\ \A j \in 1..Len(files) : files'[j] = IF j = file_ THEN w ELSE files[j]
  BY ONLY <1>0, <1>1, <1>5, ExceptSeq
<1>7. ASSUME w.by = "attach", Plain("hello") \notin w.lost
      PROVE  StartsWithHello(w.lines) /\ w.lines # <<>>
  <2>1. e # Plain("hello") /\ Plain("hello") \notin files[file_].lost
    BY <1>4, <1>7
  <2>2. ~Greeting
    BY <2>1
  <2>3. QED
    BY <1>1, <1>4, <1>7, <2>1, <2>2 DEF GreetedInv
<1>8. QED
  BY <1>6, <1>7 DEF GreetedInv

\* The emission of hello ends with its line, or without a log.
LEMMA GreetingGoes ==
  ASSUME TypeOK, SoloInv, Greeting, [Next]_vars, \A t \in Thread : ~WriteLine(t)
  PROVE  Greeting' \/ file_ = 0
<1> DEFINE a == loader
<1>1. dll = "attach" /\ a \in Thread /\ call[a].pc \in EmitPC
  BY DEF Greeting, SoloInv
<1>2. CASE UNCHANGED vars \/ LauncherActs
  BY <1>2 DEF vars, lifeVars, LauncherActs, ServerCloses, ServerReads, Greeting
<1>3. CASE Attaches(a)
  <2>1. SendCheck(a) \/ SendHeader(a) \/ SendPayload(a) \/ AppendLock(a) \/ AppendCheck(a)
    BY <1>1, <1>3 DEF Attaches, EmitPC, StartModuleTracking, EmitModuleLoaded, FaultOnUnmapped,
       Register, Connect, OpenAtAttach, LoadD3D12, InstallExportHooks
  <2>2. \/ AppendCheck(a) /\ file_ = 0
        \/ \E p \in {"header", "payload", "append", "lock", "line"} :
             Goto(a, p) /\ UNCHANGED <<dll, loader>>
    <3>1. CASE SendHeader(a) \/ SendPayload(a)
      BY <1>1, <3>1, SendGoes DEF SendHeader, SendPayload, lifeVars
    <3>2. QED
      BY <2>1, <3>1 DEF SendCheck, AppendLock, AppendCheck, lifeVars
  <2>3. ASSUME NEW p \in {"header", "payload", "append", "lock", "line"},
               Goto(a, p), UNCHANGED <<dll, loader>>
        PROVE  Greeting'
    <3>1. p \in PC /\ p \in EmitPC
      BY DEF PC, EmitPC
    <3>2. call'[a].pc = p /\ call'[a].ev = call[a].ev
      BY <1>1, <2>3, <3>1, GotoFacts
    <3>3. QED
      BY <2>3, <3>1, <3>2 DEF Greeting
  <2>4. QED
    BY <2>2, <2>3
<1>4. QED
  BY <1>1, <1>2, <1>3, AttachMoves

LEMMA GreetedStep ==
  ASSUME TypeOK, AloneInv, SoloInv, GreetedInv, [Next]_vars
  PROVE  GreetedInv'
<1> USE DEF logVars
<1>1. FilesOK
  BY DEF TypeOK, FilesOK
<1>2. ASSUME NEW t \in Thread, WriteLine(t)
      PROVE  GreetedInv'
  <2>1. call[t].pc = "line" /\ call[t].ev \in Event
    BY <1>2 DEF WriteLine, TypeOK, Frame
  <2>2. ASSUME Greeting
        PROVE  call[t].ev = Plain("hello") /\ call[t].ev.kind = "hello"
    <3>1. t = loader
      BY <2>1, <2>2, FrameTypes DEF Greeting, SoloInv
    <3>2. QED
      BY <2>2, <3>1 DEF Greeting, Plain, NoEvent
  <2>3. CASE file_ = 0
    BY <1>1, <1>2, <2>3, SameFiles DEF WriteLine
  <2>4. CASE file_ # 0
    <3>1. UNCHANGED file_
      BY <1>2 DEF WriteLine
    <3>2. CASE files' = [files EXCEPT ![file_].lines = Append(@, call[t].ev)]
      BY <1>1, <2>1, <2>2, <2>4, <3>1, <3>2, LineWritten
    <3>3. CASE files' = [files EXCEPT ![file_].lost = @ \cup {call[t].ev}]
      BY <1>1, <2>1, <2>2, <2>4, <3>1, <3>3, LineLost
    <3>4. QED
      BY <1>2, <2>4, <3>2, <3>3 DEF WriteLine
  <2>5. QED
    BY <2>3, <2>4
<1>3. ASSUME NEW t \in Thread, OpenAtAttach(t)
      PROVE  GreetedInv'
  <2>1. /\ OpenLog("attach") /\ call[t].op = "attach" /\ call[t].pc = "open"
        /\ UNCHANGED <<dll, loader>>
    BY <1>3 DEF OpenAtAttach, lifeVars
  <2>2. dll = "attach" /\ t = loader
    BY <2>1, FrameTypes DEF SoloInv
  <2>3. PICK f : Emits(t, f, Plain("hello"), "send", "track") /\ Become(t, f)
    BY <1>3 DEF OpenAtAttach, Emits
  <2>4. call'[t].pc = "send" /\ call'[t].ev = Plain("hello")
    BY <2>3, EmitFacts
  <2>5. Greeting'
    BY <2>1, <2>2, <2>4 DEF Greeting, EmitPC
  <2>6. QED
    BY <1>1, <2>1, <2>5, FileOpened
<1>4. ASSUME NEW t \in Thread, OpenAtStart(t)
      PROVE  GreetedInv'
  <2>1. OpenLog("start")
    BY <1>4 DEF OpenAtStart
  <2>2. QED
    BY <1>1, <2>1, FileOpened
<1>5. ASSUME NEW t \in Thread, CloseLog(t) \/ CloseLogAtDetach(t)
      PROVE  GreetedInv'
  BY <1>1, <1>5, FilesClosed DEF CloseLog, CloseLogAtDetach
<1>6. ASSUME \A t \in Thread : ~(WriteLine(t) \/ OpenAtAttach(t) \/ OpenAtStart(t)
                                 \/ CloseLog(t) \/ CloseLogAtDetach(t))
      PROVE  GreetedInv'
  <2>1. CASE UNCHANGED vars \/ LauncherActs
    BY <1>1, <1>6, <2>1, GreetingGoes, SameFiles DEF vars, LauncherActs, ServerCloses, ServerReads
  <2>2. ASSUME NEW t \in Thread, Environment(t)
        PROVE  UNCHANGED <<file_, files>>
    BY <2>2 DEF Environment, Attach, ObjectEvent, StartLogging, StopLogging, LoadModule,
       UnloadModule, Detach
  <2>3. ASSUME NEW t \in Thread, Continue(t)
        PROVE  UNCHANGED <<file_, files>>
    BY <1>6, <2>3 DEF Continue, SendCheck, SendHeader, SendPayload, AppendCheck, AppendLock,
       StartModuleTracking, EmitModuleLoaded, FaultOnUnmapped, Register, UnlockLoader,
       Connect, LoadD3D12, InstallExportHooks, StopModuleTracking, ClosePipeAtDetach
  <2>4. QED
    BY <1>1, <1>6, <2>1, <2>2, <2>3, GreetingGoes, SameFiles DEF Next
<1>7. QED
  BY <1>2, <1>3, <1>4, <1>5, <1>6

\* The events the launcher reads start with hello if the wire does.
LEMMA HelloFirst ==
  ASSUME TypeOK, HelloInv
  PROVE  StartsWithHello(Messages)
<1>1. wire \in Seq(Chunk) /\ Len(wire) \in Nat
  BY LenProperties DEF TypeOK
<1> DEFINE n == (Len(wire) + 1) \div 2
<1>2. n \in Nat /\ (Len(wire) # 0 => n >= 1) /\ (Len(wire) = 0 => n = 0)
  BY <1>1
<1>3. CASE Len(wire) = 0
  <2>1. Messages = [i \in 1..0 |-> wire[2 * i - 1].ev]
    BY <1>2, <1>3 DEF Messages
  <2>2. Messages = <<>>
    BY <2>1
  <2>3. QED
    BY <2>2 DEF StartsWithHello
<1>4. CASE Len(wire) # 0
  <2>1. 1 \in 1..n /\ 2 * 1 - 1 = 1
    BY <1>2, <1>4
  <2>2. Messages[1] = wire[1].ev
    BY <2>1 DEF Messages
  <2>3. QED
    BY <1>4, <2>2 DEF HelloInv, StartsWithHello
<1>5. QED
  BY <1>3, <1>4

\* Whatever sink OnAttach connects or opens gets hello before anything else,
\* although it opens them before it emits, one after the other, and threads of
\* the host may be in the DLL as soon as it has returned.
THEOREM AttachedSinksGetHello == Spec => []HelloOpensAttachedSinks
<1> DEFINE H == SoloInv /\ HelloInv /\ GreetedInv
<1>1. Init => H
  <2> SUFFICES ASSUME Init PROVE H
    OBVIOUS
  <2>1. dll = "out" /\ wire = <<>> /\ files = <<>> /\ \A t \in Thread : call[t] = Idle
    BY DEF Init
  <2>2. Idle.op = "none" /\ Len(wire) = 0 /\ Len(files) = 0
    BY <2>1 DEF Idle
  <2>3. SoloInv
    BY <2>1, <2>2 DEF SoloInv
  <2>4. HelloInv
    BY <2>1, <2>2 DEF HelloInv, Unopened
  <2>5. GreetedInv
    BY <2>2 DEF GreetedInv
  <2>6. QED
    BY <2>3, <2>4, <2>5
<1>2. Inv /\ H /\ [Next]_vars => H'
  BY SoloStep, HelloStep, GreetedStep DEF Inv
<1>3. Inv /\ H => HelloOpensAttachedSinks
  BY HelloFirst DEF Inv, GreetedInv, HelloOpensAttachedSinks
<1>4. QED
  BY <1>1, <1>2, <1>3, InvHolds, PTL DEF Spec

-----------------------------------------------------------------------------
(* What the sinks are told about modules: the invariant *)

\* f is about to report something about a module, where ms are mapped.
Reporting(f, ms) ==
  /\ f.pc \in EmitPC
  /\ \E m \in Module :
       \/ f.ev = ModuleEvent("module_loaded", m) /\ m \in ms \ f.todo
       \/ f.ev = ModuleEvent("module_unloaded", m) /\ m \notin ms

\* A call that reports nothing about modules, and does not hold up the loader
\* unless it is OnDetach.
Mute(f) ==
  /\ f.op # "attach" /\ f.todo = {}
  /\ f.pc \in {"idle", "dead", "open", "track", "close",
               "unregister", "closePipe", "closeLog"} \cup EmitPC
  /\ f.pc = "open" => f.op = "start"
  /\ f.pc \in EmitPC => f.ev.module = NoModule /\ f.next \in {"idle", "track", "unregister"}

\* OnDetach.
Leaving(f) ==
  \/ f.pc \in {"unregister", "closePipe", "closeLog"}
  \/ f.pc \in EmitPC /\ f.next = "unregister"

\* The loader has mapped or unmapped a module and calls its observers.
Loading(f, ms) ==
  /\ f.op = "none" /\ f.todo = {}
  /\ \/ f.pc = "unlockLoader"
     \/ Reporting(f, ms) /\ f.next = "unlockLoader"

\* OnAttach before the enumeration, during it, and once it has tried to register.
BeforeTracking(f) ==
  /\ f.todo = {}
  /\ \/ f.pc \in {"connect", "open", "track"}
     \/ f.pc \in EmitPC /\ f.ev.module = NoModule /\ f.next = "track"

Enumerating(f, ms) ==
  /\ f.todo \subseteq ms
  /\ \/ f.pc = "enum"
     \/ f.pc = "register" /\ f.todo = {}
     \/ Reporting(f, ms) /\ f.next = "enum"

Registered(f, ms) ==
  /\ f.todo = {}
  /\ \/ f.pc \in {"load", "install"}
     \/ Reporting(f, ms) /\ f.next = "load"

\* Only OnAttach enumerates, alone; after it only the loader reports modules;
\* nobody does once OnDetach has begun.
TrackInv ==
  /\ dll = "out" => ~started /\ loader = NoThread
  /\ dll = "attach" =>
       /\ capture /\ call[loader].op = "attach"
       /\ \/ ~started /\ BeforeTracking(call[loader])
          \/ started /\ Enumerating(call[loader], modules)
          \/ /\ started /\ Registered(call[loader], modules)
             /\ registered \/ call[loader].pc \in {"load", "install"}
  /\ dll \notin {"out", "attach"} => started
  /\ dll = "in" =>
       /\ loader # NoThread =>
            /\ Loading(call[loader], modules)
            /\ registered \/ call[loader].pc = "unlockLoader"
       /\ \A t \in Thread \ {loader} : Mute(call[t]) /\ ~Leaving(call[t])
  /\ dll \notin {"out", "attach", "in"} => \A t \in Thread : Mute(call[t])

\* The modules that a sink must have been told of, where events still come to
\* it at the labels of early.
LoaderCall == IF loader = NoThread THEN Idle ELSE call[loader]

Reported == IF started THEN modules \ LoaderCall.todo ELSE {}

Taken(early) ==
  {m \in Module :
     IF LoaderCall.pc \in early /\ LoaderCall.ev.module = m
     THEN LoaderCall.ev.kind = "module_unloaded"
     ELSE m \in Reported}

\* Modules that s has an event about.
Named(s) == {m \in Module : \E i \in 1..Len(s) : s[i].module = m}

\* The DLL could not register, and is not told of loads and unloads.
Deaf ==
  /\ ~registered
  /\ dll = "in" \/ (dll = "attach" /\ call[loader].pc \in {"load", "install"})

\* s gives the modules it must have been told of, but for those that the
\* enumeration left out.
Follows(s, early) ==
  \/ Deaf
  \/ /\ ModulesIn(s) = Taken(early) \cap Named(s)
     /\ Taken(early) \ missed \subseteq Named(s)

Unwritten == {"send", "header"}

\* Events about modules make sense in their order, but for those of ms.
Founded(s, ms) ==
  \A j \in 1..Len(s) :
    s[j].module \in Module \ ms /\ s[j].kind = "module_unloaded" =>
      \E i \in 1..(j - 1) : s[i].module = s[j].module /\ s[i].kind = "module_loaded"

Sound(s, ms) == Alternates(s) /\ Founded(s, ms)

PipeFollows ==
  /\ Sound(Messages, missed)
  /\ ~started => Named(Messages) = {}
  /\ dll \in {"attach", "in"} /\ CanWrite => Follows(Messages, Unwritten)

LogFollows ==
  \A i \in 1..Len(files) : files[i].by = "attach" /\ Complete(files[i]) =>
    /\ Sound(files[i].lines, missed)
    /\ ~started => Named(files[i].lines) = {}
    /\ dll \in {"attach", "in"} /\ i = file_ => Follows(files[i].lines, EmitPC)

-----------------------------------------------------------------------------
(* Events about modules in a stream *)

LEMMA ModuleEventFacts ==
  /\ \A k \in {"module_loaded", "module_unloaded"}, m \in Module :
       /\ ModuleEvent(k, m) \in Event
       /\ ModuleEvent(k, m).kind = k /\ ModuleEvent(k, m).module = m
  /\ NoEvent.module = NoModule
  /\ \A k \in {"hello", "goodbye", "object"}, n \in Nat :
       /\ Plain(k).module = NoModule /\ [Plain(k) EXCEPT !.n = n].module = NoModule
       /\ Plain(k).kind = k /\ [Plain(k) EXCEPT !.n = n].kind = k
  BY DEF ModuleEvent, NoEvent, Event, Plain

\* Where the events of an extended stream are.
LEMMA Extended ==
  ASSUME NEW s \in Seq(Event), NEW e \in Event
  PROVE  LET x == Append(s, e) IN
         /\ x \in Seq(Event) /\ Len(s) \in Nat /\ Len(x) = Len(s) + 1
         /\ \A i \in 1..Len(s) : x[i] = s[i] /\ i \in 1..Len(x)
         /\ Len(x) \in 1..Len(x) /\ x[Len(x)] = e
         /\ \A i \in 1..Len(x) : i \in 1..Len(s) \/ i = Len(x)
<1> DEFINE x == Append(s, e)
<1>1. /\ x \in Seq(Event) /\ Len(x) = Len(s) + 1
      /\ \A i \in 1..Len(s) : x[i] = s[i]
      /\ x[Len(s) + 1] = e
  BY AppendProperties
<1>2. Len(s) \in Nat
  BY LenProperties
<1> HIDE DEF x
<1>3. QED
  BY <1>1, <1>2 DEF x

\* What is added is about no module.
LEMMA PlainAdded ==
  ASSUME NEW s \in Seq(Event), NEW e \in Event, e.module = NoModule
  PROVE  /\ Named(Append(s, e)) = Named(s) /\ ModulesIn(Append(s, e)) = ModulesIn(s)
         /\ \A ms : Sound(s, ms) => Sound(Append(s, e), ms)
<1> DEFINE x == Append(s, e)
<1>1. /\ Len(s) \in Nat /\ Len(x) = Len(s) + 1
      /\ \A i \in 1..Len(s) : x[i] = s[i] /\ i \in 1..Len(x)
      /\ x[Len(x)] = e
      /\ \A i \in 1..Len(x) : i \in 1..Len(s) \/ i = Len(x)
  BY Extended
<1> HIDE DEF x
<1>2. e.module \notin Module
  BY ConstantsAssumption
<1>3. \A i \in 1..Len(x) : x[i].module \in Module => i \in 1..Len(s)
  BY <1>1, <1>2
<1>4. Named(x) = Named(s)
  BY <1>1, <1>3 DEF Named
<1>5. ModulesIn(x) = ModulesIn(s)
  <2>1. ASSUME NEW m \in ModulesIn(s)
        PROVE  m \in ModulesIn(x)
    <3>1. PICK i \in 1..Len(s) : /\ s[i].module = m /\ s[i].kind = "module_loaded"
                                 /\ \A j \in (i + 1)..Len(s) : s[j].module # m
      BY <2>1 DEF ModulesIn
    <3>2. m \in Module
      BY <2>1 DEF ModulesIn
    <3>3. \A j \in (i + 1)..Len(x) : x[j].module # m
      BY <1>1, <1>2, <3>1, <3>2
    <3>4. QED
      BY <1>1, <3>1, <3>2, <3>3 DEF ModulesIn
  <2>2. ASSUME NEW m \in ModulesIn(x)
        PROVE  m \in ModulesIn(s)
    <3>1. PICK i \in 1..Len(x) : /\ x[i].module = m /\ x[i].kind = "module_loaded"
                                 /\ \A j \in (i + 1)..Len(x) : x[j].module # m
      BY <2>2 DEF ModulesIn
    <3>2. m \in Module
      BY <2>2 DEF ModulesIn
    <3>3. i \in 1..Len(s)
      BY <1>3, <3>1, <3>2
    <3>4. \A j \in (i + 1)..Len(s) : s[j].module # m
      BY <1>1, <3>1, <3>3
    <3>5. QED
      BY <1>1, <3>1, <3>2, <3>3, <3>4 DEF ModulesIn
  <2>3. QED
    BY <2>1, <2>2
<1>6. ASSUME Alternates(s)
      PROVE  Alternates(x)
  <2> SUFFICES ASSUME NEW i \in 1..Len(x), NEW j \in 1..Len(x), i < j,
                      x[i].module \in Module, x[j].module = x[i].module, x[j].kind = x[i].kind
               PROVE  \E k \in (i + 1)..(j - 1) :
                        x[k].module = x[i].module /\ x[k].kind # x[i].kind
    BY DEF Alternates
  <2>1. i \in 1..Len(s) /\ j \in 1..Len(s)
    BY <1>3
  <2>2. PICK k \in (i + 1)..(j - 1) : s[k].module = s[i].module /\ s[k].kind # s[i].kind
    BY <1>1, <1>6, <2>1 DEF Alternates
  <2>3. k \in 1..Len(s)
    BY <1>1, <2>1, <2>2
  <2>4. QED
    BY <1>1, <2>1, <2>2, <2>3
<1>7. ASSUME NEW ms, Founded(s, ms)
      PROVE  Founded(x, ms)
  <2> SUFFICES ASSUME NEW j \in 1..Len(x), x[j].module \in Module \ ms,
                      x[j].kind = "module_unloaded"
               PROVE  \E i \in 1..(j - 1) :
                        x[i].module = x[j].module /\ x[i].kind = "module_loaded"
    BY DEF Founded
  <2>1. j \in 1..Len(s)
    BY <1>3
  <2>2. PICK i \in 1..(j - 1) : s[i].module = s[j].module /\ s[i].kind = "module_loaded"
    BY <1>1, <1>7, <2>1 DEF Founded
  <2>3. i \in 1..Len(s)
    BY <1>1, <2>1, <2>2
  <2>4. QED
    BY <1>1, <2>1, <2>2, <2>3
<1>8. QED
  BY <1>4, <1>5, <1>6, <1>7 DEF Sound, x

\* What is added is about the module m.
LEMMA ModuleAdded ==
  ASSUME NEW s \in Seq(Event), NEW m \in Module,
         NEW k \in {"module_loaded", "module_unloaded"}
  PROVE  LET x == Append(s, ModuleEvent(k, m)) IN
         /\ Named(x) = Named(s) \cup {m}
         /\ ModulesIn(x) = IF k = "module_loaded" THEN ModulesIn(s) \cup {m}
                           ELSE ModulesIn(s) \ {m}
<1> DEFINE e == ModuleEvent(k, m)
           x == Append(s, e)
<1>1. e \in Event /\ e.kind = k /\ e.module = m
  BY ModuleEventFacts
<1> HIDE DEF e
<1>2. /\ Len(s) \in Nat /\ Len(x) = Len(s) + 1
      /\ \A i \in 1..Len(s) : x[i] = s[i] /\ i \in 1..Len(x)
      /\ Len(x) \in 1..Len(x) /\ x[Len(x)] = e
      /\ \A i \in 1..Len(x) : i \in 1..Len(s) \/ i = Len(x)
  BY <1>1, Extended
<1> HIDE DEF x
<1>3. Named(x) = Named(s) \cup {m}
  BY <1>1, <1>2 DEF Named
<1>4. ASSUME NEW n \in Module, n # m
      PROVE  n \in ModulesIn(x) <=> n \in ModulesIn(s)
  <2>1. ASSUME n \in ModulesIn(s)
        PROVE  n \in ModulesIn(x)
    <3>1. PICK i \in 1..Len(s) : /\ s[i].module = n /\ s[i].kind = "module_loaded"
                                 /\ \A j \in (i + 1)..Len(s) : s[j].module # n
      BY <2>1 DEF ModulesIn
    <3>2. \A j \in (i + 1)..Len(x) : x[j].module # n
      BY <1>1, <1>2, <1>4, <3>1
    <3>3. QED
      BY <1>2, <3>1, <3>2 DEF ModulesIn
  <2>2. ASSUME n \in ModulesIn(x)
        PROVE  n \in ModulesIn(s)
    <3>1. PICK i \in 1..Len(x) : /\ x[i].module = n /\ x[i].kind = "module_loaded"
                                 /\ \A j \in (i + 1)..Len(x) : x[j].module # n
      BY <2>2 DEF ModulesIn
    <3>2. i \in 1..Len(s)
      BY <1>1, <1>2, <1>4, <3>1
    <3>3. \A j \in (i + 1)..Len(s) : s[j].module # n
      BY <1>2, <3>1, <3>2
    <3>4. QED
      BY <1>2, <3>1, <3>2, <3>3 DEF ModulesIn
  <2>3. QED
    BY <2>1, <2>2
<1>5. ASSUME k = "module_loaded"
      PROVE  m \in ModulesIn(x)
  <2>1. \A j \in (Len(x) + 1)..Len(x) : x[j].module # m
    BY <1>2
  <2>2. QED
    BY <1>1, <1>2, <1>5, <2>1 DEF ModulesIn
<1>6. ASSUME k = "module_unloaded"
      PROVE  m \notin ModulesIn(x)
  <2> SUFFICES ASSUME m \in ModulesIn(x) PROVE FALSE
    OBVIOUS
  <2>1. PICK i \in 1..Len(x) : /\ x[i].module = m /\ x[i].kind = "module_loaded"
                               /\ \A j \in (i + 1)..Len(x) : x[j].module # m
    BY DEF ModulesIn
  <2>2. i = Len(x)
    BY <1>1, <1>2, <2>1
  <2>3. QED
    BY <1>1, <1>2, <1>6, <2>1, <2>2
<1>7. ModulesIn(x) \subseteq Module /\ ModulesIn(s) \subseteq Module
  BY DEF ModulesIn
<1>8. QED
  BY <1>3, <1>4, <1>5, <1>6, <1>7 DEF x, e

\* A load may follow if the module is not taken for mapped; an unload if it is,
\* or if nothing has been said of it and the enumeration may have left it out.
LEMMA SoundAdded ==
  ASSUME NEW s \in Seq(Event), NEW ms, Sound(s, ms), NEW m \in Module,
         NEW k \in {"module_loaded", "module_unloaded"},
         k = "module_loaded" => m \notin ModulesIn(s),
         k = "module_unloaded" => m \in ModulesIn(s) \/ (m \notin Named(s) /\ m \in ms)
  PROVE  Sound(Append(s, ModuleEvent(k, m)), ms)
<1> DEFINE e == ModuleEvent(k, m)
           x == Append(s, e)
<1>1. e \in Event /\ e.kind = k /\ e.module = m
  BY ModuleEventFacts
<1> HIDE DEF e
<1>2. /\ Len(s) \in Nat /\ Len(x) = Len(s) + 1
      /\ \A i \in 1..Len(s) : x[i] = s[i] /\ i \in 1..Len(x)
      /\ Len(x) \in 1..Len(x) /\ x[Len(x)] = e
      /\ \A i \in 1..Len(x) : i \in 1..Len(s) \/ i = Len(x)
  BY <1>1, Extended
<1> HIDE DEF x
<1>3. ASSUME NEW i \in 1..Len(s), s[i].module = m, s[i].kind = k
      PROVE  \E l \in (i + 1)..Len(s) : s[l].module = m /\ s[l].kind # k
  <2>1. CASE k = "module_loaded"
    <3>1. PICK j \in (i + 1)..Len(s) : s[j].module = m
      BY <1>3, <2>1 DEF ModulesIn
    <3>2. j \in 1..Len(s) /\ i < j
      BY <1>2, <3>1
    <3>3. CASE s[j].kind = k
      <4>1. PICK l \in (i + 1)..(j - 1) : s[l].module = s[i].module /\ s[l].kind # s[i].kind
        BY <1>3, <3>1, <3>2, <3>3 DEF Sound, Alternates
      <4>2. l \in (i + 1)..Len(s)
        BY <1>2, <3>2, <4>1
      <4>3. QED
        BY <1>3, <4>1, <4>2
    <3>4. QED
      BY <3>1, <3>3
  <2>2. CASE k = "module_unloaded"
    <3>1. m \in Named(s)
      BY <1>3 DEF Named
    <3>2. PICK l \in 1..Len(s) : /\ s[l].module = m /\ s[l].kind = "module_loaded"
                                 /\ \A j \in (l + 1)..Len(s) : s[j].module # m
      BY <2>2, <3>1 DEF ModulesIn
    <3>3. i # l /\ i \notin (l + 1)..Len(s)
      BY <1>3, <2>2, <3>2
    <3>4. l \in (i + 1)..Len(s)
      BY <1>2, <3>2, <3>3
    <3>5. QED
      BY <2>2, <3>2, <3>4
  <2>3. QED
    BY <2>1, <2>2
<1>4. Alternates(x)
  <2> SUFFICES ASSUME NEW i \in 1..Len(x), NEW j \in 1..Len(x), i < j,
                      x[i].module \in Module, x[j].module = x[i].module, x[j].kind = x[i].kind
               PROVE  \E l \in (i + 1)..(j - 1) :
                        x[l].module = x[i].module /\ x[l].kind # x[i].kind
    BY DEF Alternates
  <2>1. i \in 1..Len(s)
    BY <1>2
  <2>2. CASE j \in 1..Len(s)
    <3>1. PICK l \in (i + 1)..(j - 1) : s[l].module = s[i].module /\ s[l].kind # s[i].kind
      BY <1>2, <2>1, <2>2 DEF Sound, Alternates
    <3>2. l \in 1..Len(s)
      BY <1>2, <2>1, <2>2, <3>1
    <3>3. QED
      BY <1>2, <2>1, <3>1, <3>2
  <2>3. CASE j = Len(x)
    <3>1. s[i].module = m /\ s[i].kind = k
      BY <1>1, <1>2, <2>1, <2>3
    <3>2. PICK l \in (i + 1)..Len(s) : s[l].module = m /\ s[l].kind # k
      BY <1>3, <2>1, <3>1
    <3>3. l \in 1..Len(s) /\ l \in (i + 1)..(j - 1)
      BY <1>2, <2>1, <2>3, <3>2
    <3>4. QED
      BY <1>2, <2>1, <3>1, <3>2, <3>3
  <2>4. QED
    BY <1>2, <2>2, <2>3
<1>5. Founded(x, ms)
  <2> SUFFICES ASSUME NEW j \in 1..Len(x), x[j].module \in Module \ ms,
                      x[j].kind = "module_unloaded"
               PROVE  \E i \in 1..(j - 1) :
                        x[i].module = x[j].module /\ x[i].kind = "module_loaded"
    BY DEF Founded
  <2>1. CASE j \in 1..Len(s)
    <3>1. PICK i \in 1..(j - 1) : s[i].module = s[j].module /\ s[i].kind = "module_loaded"
      BY <1>2, <2>1 DEF Sound, Founded
    <3>2. i \in 1..Len(s)
      BY <1>2, <2>1, <3>1
    <3>3. QED
      BY <1>2, <2>1, <3>1, <3>2
  <2>2. CASE j = Len(x)
    <3>1. k = "module_unloaded"
      BY <1>1, <1>2, <2>2
    <3>2. PICK i \in 1..Len(s) : s[i].module = m /\ s[i].kind = "module_loaded"
      BY <1>1, <1>2, <2>2, <3>1 DEF ModulesIn
    <3>3. i \in 1..(j - 1)
      BY <1>2, <2>2, <3>2
    <3>4. QED
      BY <1>1, <1>2, <2>2, <3>2, <3>3
  <2>3. QED
    BY <1>2, <2>1, <2>2
<1>6. QED
  BY <1>4, <1>5 DEF Sound, x, e

\* What the enumeration leaves out, does not matter to a stream without modules.
LEMMA SoundOn ==
  ASSUME NEW s, NEW ms, NEW ns, Sound(s, ms), ns = ms \/ Named(s) = {}
  PROVE  Sound(s, ns)
<1>1. ASSUME Named(s) = {}
      PROVE  Founded(s, ns)
  BY <1>1 DEF Named, Founded
<1>2. QED
  BY <1>1 DEF Sound

-----------------------------------------------------------------------------
(* How calls go on, with the modules they have still to report *)

LEMMA IdleFacts ==
  /\ Idle.op = "none" /\ Idle.pc = "idle" /\ Idle.todo = {} /\ Idle.ev = NoEvent
  /\ Dead.op = "none" /\ Dead.pc = "dead" /\ Dead.todo = {}
  /\ Mute(Idle) /\ Mute(Dead) /\ ~Leaving(Idle) /\ ~Leaving(Dead)
<1>1. /\ Idle.op = "none" /\ Idle.pc = "idle" /\ Idle.todo = {} /\ Idle.ev = NoEvent
      /\ Dead.op = "none" /\ Dead.pc = "dead" /\ Dead.todo = {}
  BY DEF Idle, Dead
<1>2. QED
  BY <1>1 DEF Mute, Leaving, EmitPC

LEMMA GotoKeeps ==
  ASSUME TypeOK, NEW t \in Thread, NEW p, Goto(t, p)
  PROVE  /\ call'[t].pc = p /\ call'[t].op = call[t].op /\ call'[t].todo = call[t].todo
         /\ call'[t].ev = call[t].ev /\ call'[t].next = call[t].next
         /\ \A u \in Thread \ {t} : call'[u] = call[u]
<1>1. call[t] \in Frame
  BY DEF TypeOK
<1> DEFINE f == [call[t] EXCEPT !.pc = p]
<1>2. call' = [call EXCEPT ![t] = f]
  BY DEF Goto, Become
<1>3. f.pc = p /\ f.op = call[t].op /\ f.todo = call[t].todo /\ f.ev = call[t].ev
      /\ f.next = call[t].next
  BY <1>1 DEF Frame
<1> HIDE DEF f
<1>4. QED
  BY <1>2, <1>3 DEF TypeOK

LEMMA ResumeKeeps ==
  ASSUME TypeOK, NEW t \in Thread, NEW p, Resume(t, p)
  PROVE  /\ call'[t].pc = p
         /\ p = "idle" => call'[t] = Idle
         /\ p # "idle" => call'[t].op = call[t].op /\ call'[t].todo = call[t].todo
         /\ \A u \in Thread \ {t} : call'[u] = call[u]
<1> DEFINE f == [Idle EXCEPT !.op = call[t].op, !.pc = p, !.todo = call[t].todo]
<1>1. f.pc = p /\ f.op = call[t].op /\ f.todo = call[t].todo
  BY DEF Idle
<1>2. call' = [call EXCEPT ![t] = IF p = "idle" THEN Idle ELSE f]
  BY DEF Resume, Become
<1> HIDE DEF f
<1>3. QED
  BY <1>1, <1>2, IdleFacts DEF TypeOK

LEMMA BecomeKeeps ==
  ASSUME TypeOK, NEW t \in Thread, NEW f, Become(t, f)
  PROVE  call'[t] = f /\ \A u \in Thread \ {t} : call'[u] = call[u]
  BY DEF Become, TypeOK

\* Emissions keep todo, but for the enumeration's.
LEMMA EmitKeeps ==
  ASSUME TypeOK, NEW t \in Thread, NEW e, NEW first, NEW label
  PROVE  /\ EmitFrame(t, e, first, label).pc = first
         /\ EmitFrame(t, e, first, label).ev = e
         /\ EmitFrame(t, e, first, label).next = label
         /\ EmitFrame(t, e, first, label).op = call[t].op
         /\ EmitFrame(t, e, first, label).todo = call[t].todo
         /\ \A ms, o : LET f == EmitFrame(t, e, first, label) IN
              /\ [f EXCEPT !.todo = ms].pc = first /\ [f EXCEPT !.todo = ms].ev = e
              /\ [f EXCEPT !.todo = ms].next = label
              /\ [f EXCEPT !.todo = ms].op = call[t].op
              /\ [f EXCEPT !.todo = ms].todo = ms
              /\ [f EXCEPT !.op = o].pc = first /\ [f EXCEPT !.op = o].ev = e
              /\ [f EXCEPT !.op = o].next = label
              /\ [f EXCEPT !.op = o].op = o
              /\ [f EXCEPT !.op = o].todo = call[t].todo
<1>1. call[t] \in Frame
  BY DEF TypeOK
<1> DEFINE f == EmitFrame(t, e, first, label)
<1>2. /\ f.pc = first /\ f.ev = e /\ f.next = label
      /\ f.op = call[t].op /\ f.todo = call[t].todo
  BY <1>1 DEF EmitFrame, Frame
<1>3. DOMAIN f = {"op", "pc", "ev", "next", "todo"}
  BY <1>1 DEF EmitFrame, Frame
<1> HIDE DEF f
<1>4. \A ms, o :
        /\ [f EXCEPT !.todo = ms].pc = f.pc /\ [f EXCEPT !.todo = ms].ev = f.ev
        /\ [f EXCEPT !.todo = ms].next = f.next
        /\ [f EXCEPT !.todo = ms].op = f.op
        /\ [f EXCEPT !.todo = ms].todo = ms
        /\ [f EXCEPT !.op = o].pc = f.pc /\ [f EXCEPT !.op = o].ev = f.ev
        /\ [f EXCEPT !.op = o].next = f.next
        /\ [f EXCEPT !.op = o].op = o
        /\ [f EXCEPT !.op = o].todo = f.todo
  BY <1>3
<1>5. QED
  BY <1>2, <1>4 DEF f

-----------------------------------------------------------------------------
(* Calls that say nothing about modules *)

LEMMA MuteGoto ==
  ASSUME TypeOK, NEW t \in Thread, Mute(call[t]), NEW p, Goto(t, p),
         \/ call[t].pc \in EmitPC /\ p \in EmitPC
         \/ p \in {"closePipe", "closeLog"} /\ Leaving(call[t])
  PROVE  Mute(call'[t]) /\ (Leaving(call'[t]) => Leaving(call[t]))
<1>1. /\ call'[t].pc = p /\ call'[t].op = call[t].op /\ call'[t].todo = call[t].todo
      /\ call'[t].ev = call[t].ev /\ call'[t].next = call[t].next
  BY GotoKeeps
<1>2. p \in EmitPC => p \notin {"unregister", "closePipe", "closeLog", "open"}
  BY DEF EmitPC
<1>3. p \in {"closePipe", "closeLog"} => p # "open" /\ p \notin EmitPC
  BY DEF EmitPC
<1>4. QED
  BY <1>1, <1>2, <1>3 DEF Mute, Leaving

LEMMA MuteResume ==
  ASSUME TypeOK, NEW t \in Thread, Mute(call[t]), NEW p, Resume(t, p),
         p \in {"idle", "track"} \/ (p = "unregister" /\ Leaving(call[t]))
  PROVE  Mute(call'[t]) /\ (Leaving(call'[t]) => Leaving(call[t]))
<1>1. /\ call'[t].pc = p
      /\ p = "idle" => call'[t] = Idle
      /\ p # "idle" => call'[t].op = call[t].op /\ call'[t].todo = call[t].todo
  BY ResumeKeeps
<1>2. p # "open" /\ p \notin EmitPC /\ p \notin {"closePipe", "closeLog"}
  BY DEF EmitPC
<1>3. CASE p = "idle"
  BY <1>1, <1>3, IdleFacts
<1>4. CASE p # "idle"
  BY <1>1, <1>2, <1>4 DEF Mute, Leaving
<1>5. QED
  BY <1>3, <1>4

\* What a mute call does.
LEMMA MuteGoes ==
  ASSUME TypeOK, NEW t \in Thread, Mute(call[t]), started,
         Environment(t) \/ Continue(t), ~Attach(t),
         \A m \in Module : ~LoadModule(t, m) /\ ~UnloadModule(t, m)
  PROVE  /\ UNCHANGED <<modules, started, missed>>
         /\ \A u \in Thread : Mute(call[u]) => Mute(call'[u])
         /\ Mute(call'[t])
         /\ \/ /\ UNCHANGED <<dll, loader>>
               /\ \A u \in Thread \ {t} : call'[u] = call[u]
               /\ Leaving(call'[t]) => Leaving(call[t])
               /\ UNCHANGED registered \/ Leaving(call[t])
            \/ dll' = "detach" /\ dll = "in" /\ loader = NoThread
            \/ dll' = "gone" /\ Leaving(call[t])
<1> USE DEF lifeVars, moduleVars
<1> DEFINE Stays == /\ UNCHANGED <<dll, loader, modules, started, missed>>
                    /\ \A u \in Thread \ {t} : call'[u] = call[u]
                    /\ Mute(call'[t]) /\ (Leaving(call'[t]) => Leaving(call[t]))
                    /\ UNCHANGED registered \/ Leaving(call[t])
           Goal == /\ UNCHANGED <<modules, started, missed>>
                             /\ \A u \in Thread : Mute(call[u]) => Mute(call'[u])
                   /\ Mute(call'[t])
                   /\ \/ /\ UNCHANGED <<dll, loader>>
                         /\ \A u \in Thread \ {t} : call'[u] = call[u]
                         /\ Leaving(call'[t]) => Leaving(call[t])
                         /\ UNCHANGED registered \/ Leaving(call[t])
                      \/ dll' = "detach" /\ dll = "in" /\ loader = NoThread
                      \/ dll' = "gone" /\ Leaving(call[t])
<1>0. Stays => Goal
  OBVIOUS
<1>1. ASSUME NEW f, Become(t, f), Mute(f), ~Leaving(f),
             UNCHANGED <<dll, loader, modules, started, registered, missed>>
      PROVE  Stays
  BY <1>1, BecomeKeeps
<1>2. call[t].op # "attach" /\ call[t].todo = {}
  BY DEF Mute
<1>3. Plain("hello").module = NoModule /\ Plain("goodbye").module = NoModule
  BY ModuleEventFacts DEF Plain
<1>4. CASE SendCheck(t) \/ SendHeader(t) \/ SendPayload(t) \/ AppendLock(t)
  <2>1. PICK p \in {"header", "payload", "append", "line"} : Goto(t, p)
    <3>1. CASE SendHeader(t) \/ SendPayload(t)
      BY <3>1, SendGoes
    <3>2. QED
      BY <1>4, <3>1 DEF SendCheck, AppendLock
  <2>2. call[t].pc \in EmitPC /\ p \in EmitPC
    BY <1>4 DEF EmitPC, SendCheck, SendHeader, SendPayload, AppendLock
  <2>3. UNCHANGED <<dll, loader, modules, started, registered, missed>>
    BY <1>4 DEF SendCheck, SendHeader, SendPayload, AppendLock
  <2>4. Stays
    BY <2>1, <2>2, <2>3, MuteGoto, GotoKeeps
  <2>5. QED
    BY <1>0, <2>4
<1>5. CASE AppendCheck(t) \/ WriteLine(t)
  <2>1. call[t].pc \in EmitPC /\ UNCHANGED <<dll, loader, modules, started, registered, missed>>
    BY <1>5 DEF AppendCheck, WriteLine, EmitPC
  <2>2. Goto(t, "lock") \/ Resume(t, call[t].next)
    BY <1>5 DEF AppendCheck, WriteLine
  <2>3. CASE Goto(t, "lock")
    BY <1>0, <2>1, <2>3, MuteGoto, GotoKeeps DEF EmitPC
  <2>4. CASE Resume(t, call[t].next)
    <3>1. \/ call[t].next \in {"idle", "track"}
          \/ call[t].next = "unregister" /\ Leaving(call[t])
      BY <2>1 DEF Mute, Leaving
    <3> DEFINE p == call[t].next
    <3>2. Resume(t, p)
      BY <2>4
    <3> HIDE DEF p
    <3>3. p \in {"idle", "track"} \/ (p = "unregister" /\ Leaving(call[t]))
      BY <3>1 DEF p
    <3>4. Mute(call'[t]) /\ (Leaving(call'[t]) => Leaving(call[t]))
      BY <3>2, <3>3, MuteResume
    <3>5. \A u \in Thread \ {t} : call'[u] = call[u]
      BY <3>2, ResumeKeeps
    <3>6. QED
      BY <1>0, <2>1, <3>4, <3>5
  <2>5. QED
    BY <2>2, <2>3, <2>4
<1>6. CASE StartModuleTracking(t)
  <2>1. Resume(t, "idle") /\ UNCHANGED <<dll, loader, modules, started, registered, missed>>
    BY <1>2, <1>6 DEF StartModuleTracking, AfterTracking
  <2>2. Mute(call'[t]) /\ (Leaving(call'[t]) => Leaving(call[t]))
    BY <2>1, MuteResume
  <2>3. \A u \in Thread \ {t} : call'[u] = call[u]
    BY <2>1, ResumeKeeps
  <2>4. QED
    BY <1>0, <2>1, <2>2, <2>3
<1>7. CASE StopModuleTracking(t) \/ ClosePipeAtDetach(t)
  <2>1. PICK p \in {"closePipe", "closeLog"} : Goto(t, p)
    BY <1>7 DEF StopModuleTracking, ClosePipeAtDetach
  <2>2. Leaving(call[t]) /\ UNCHANGED <<dll, loader, modules, started, missed>>
    BY <1>7 DEF StopModuleTracking, ClosePipeAtDetach, Leaving
  <2>3. Stays
    BY <2>1, <2>2, MuteGoto, GotoKeeps
  <2>4. QED
    BY <1>0, <2>3
<1>8. CASE OpenAtStart(t) \/ CloseLog(t)
  <2>1. UNCHANGED <<dll, loader, modules, started, registered, missed>>
    BY <1>8 DEF OpenAtStart, CloseLog
  <2>2. CASE Become(t, Idle)
    BY <1>0, <1>1, <2>1, <2>2, IdleFacts
  <2>3. CASE Become(t, EmitFrame(t, Plain("hello"), "append", "track"))
    <3> DEFINE f == EmitFrame(t, Plain("hello"), "append", "track")
    <3>1. /\ f.pc = "append" /\ f.ev = Plain("hello") /\ f.next = "track"
          /\ f.op = call[t].op /\ f.todo = call[t].todo
      BY EmitKeeps
    <3>2. Become(t, f)
      BY <2>3
    <3> HIDE DEF f
    <3>3. Mute(f) /\ ~Leaving(f)
      BY <1>2, <1>3, <3>1 DEF Mute, Leaving, EmitPC
    <3>4. QED
      BY <1>0, <1>1, <2>1, <3>2, <3>3
  <2>4. QED
    BY <1>8, <2>2, <2>3 DEF OpenAtStart, CloseLog
<1>9. CASE CloseLogAtDetach(t)
  <2>1. /\ \A u \in Thread : call'[u] \in {Idle, Dead}
        /\ dll' = "gone" /\ Leaving(call[t]) /\ UNCHANGED <<modules, started, missed>>
    BY <1>9 DEF CloseLogAtDetach, Leaving
  <2>2. QED
    BY <2>1, IdleFacts
<1>10. CASE ObjectEvent(t)
  <2> DEFINE e == [Plain("object") EXCEPT !.n = ops + 1]
             f == [EmitFrame(t, e, "send", "idle") EXCEPT !.op = "object"]
  <2>1. Become(t, f) /\ UNCHANGED <<dll, loader, modules, started, registered, missed>>
    BY <1>10 DEF ObjectEvent
  <2>2. f.pc = "send" /\ f.ev = e /\ f.next = "idle" /\ f.op = "object" /\ f.todo = call[t].todo
    BY EmitKeeps
  <2>3. e.module = NoModule
    BY DEF Plain, NoEvent
  <2> HIDE DEF f, e
  <2>4. Mute(f) /\ ~Leaving(f)
    BY <1>2, <2>2, <2>3 DEF Mute, Leaving, EmitPC
  <2>5. QED
    BY <1>0, <1>1, <2>1, <2>4
<1>11. CASE StopLogging(t) \/ \E callstacks \in BOOLEAN : StartLogging(t, callstacks)
  <2>1. UNCHANGED <<dll, loader, modules, started, registered, missed>>
    BY <1>11 DEF StartLogging, StopLogging
  <2>2. ASSUME NEW op \in {"start", "stop"}, NEW p \in {"open", "close"},
               p = "open" => op = "start", Become(t, [Idle EXCEPT !.op = op, !.pc = p])
        PROVE  Goal
    <3> DEFINE f == [Idle EXCEPT !.op = op, !.pc = p]
    <3>1. f.op = op /\ f.pc = p /\ f.todo = {}
      BY DEF Idle
    <3>2. Become(t, f)
      BY <2>2
    <3> HIDE DEF f
    <3>3. Mute(f) /\ ~Leaving(f)
      BY <2>2, <3>1 DEF Mute, Leaving, EmitPC
    <3>4. QED
      BY <1>0, <1>1, <2>1, <3>2, <3>3
  <2>3. \/ Become(t, [Idle EXCEPT !.op = "start", !.pc = "open"])
        \/ Become(t, [Idle EXCEPT !.op = "stop", !.pc = "close"])
    BY <1>11 DEF StartLogging, StopLogging
  <2>4. QED
    BY <2>2, <2>3
<1>12. ASSUME NEW op \in {"detach", "exit"}, Detach(t, op)
       PROVE  Goal
  <2> DEFINE f == [EmitFrame(t, Plain("goodbye"), "send", "unregister") EXCEPT !.op = op]
  <2>1. /\ f.pc = "send" /\ f.ev = Plain("goodbye") /\ f.next = "unregister" /\ f.op = op
        /\ f.todo = call[t].todo
    BY EmitKeeps
  <2>2. /\ UNCHANGED <<modules, started, missed>> /\ dll = "in" /\ loader = NoThread /\ dll' = "detach"
        /\ IF op = "exit"
             THEN call' = [u \in Thread |-> IF u = t THEN f ELSE Dead]
             ELSE Become(t, f)
    BY <1>12 DEF Detach
  <2> HIDE DEF f
  <2>3. Mute(f)
    BY <1>2, <1>3, <2>1 DEF Mute, EmitPC
  <2>4. CASE op = "exit"
    <3>1. \A u \in Thread : call'[u] \in {f, Dead}
      BY <2>2, <2>4
    <3>2. \A u \in Thread : Mute(call'[u])
      BY <2>3, <3>1, IdleFacts
    <3>3. QED
      BY <2>2, <3>2
  <2>5. CASE op # "exit"
    <3>1. call'[t] = f /\ \A u \in Thread \ {t} : call'[u] = call[u]
      BY <2>2, <2>5, BecomeKeeps
    <3>2. QED
      BY <2>2, <2>3, <3>1
  <2>6. QED
    BY <2>4, <2>5
<1>13. ASSUME \/ EmitModuleLoaded(t) \/ FaultOnUnmapped(t) \/ Register(t) \/ UnlockLoader(t)
              \/ Connect(t) \/ OpenAtAttach(t) \/ LoadD3D12(t) \/ InstallExportHooks(t)
       PROVE  FALSE
  BY <1>2, <1>13 DEF EmitModuleLoaded, FaultOnUnmapped, Register, UnlockLoader, Connect,
     OpenAtAttach, LoadD3D12, InstallExportHooks, Mute, EmitPC
<1>14. Goal
  <2>1. CASE Environment(t)
    BY <1>10, <1>11, <1>12, <2>1 DEF Environment
  <2>2. CASE Continue(t)
    BY <1>4, <1>5, <1>6, <1>7, <1>8, <1>9, <1>13, <2>2 DEF Continue
  <2>3. QED
    BY <2>1, <2>2
<1>15. QED
  BY <1>14

-----------------------------------------------------------------------------
(* What the sinks must have been told, from step to step *)

\* No event about a module is past the labels of early.
NonePasses(early) ==
  \A t \in Thread : call[t].pc \in early /\ call'[t].pc \notin early =>
    call[t].ev.module = NoModule

\* Nothing is told any more because the DLL could not register; or what is taken
\* stays as it is; or the enumeration begins; or the event that the loader
\* reports is past the labels of early.
TakenMoves(early) ==
  \/ Deaf' /\ NonePasses(early) /\ UNCHANGED missed
  \/ /\ ~Deaf
     /\ \/ Taken(early)' = Taken(early) /\ NonePasses(early) /\ UNCHANGED missed
        \/ ~started /\ started' /\ Taken(early)' \subseteq missed' /\ NonePasses(early)
        \/ /\ UNCHANGED missed
           /\ \E m \in Module :
                /\ loader \in Thread /\ call[loader].pc \in early /\ call'[loader].pc \notin early
                /\ \/ /\ call[loader].ev = ModuleEvent("module_loaded", m)
                      /\ m \notin Taken(early) /\ Taken(early)' = Taken(early) \cup {m}
                   \/ /\ call[loader].ev = ModuleEvent("module_unloaded", m)
                      /\ m \in Taken(early) /\ Taken(early)' = Taken(early) \ {m}

\* TrackInv for the next state, its calls written out.
TrackAfter ==
  /\ dll' = "out" => ~started' /\ loader' = NoThread
  /\ dll' = "attach" =>
       /\ capture' /\ call'[loader'].op = "attach"
       /\ \/ ~started' /\ BeforeTracking(call'[loader'])
          \/ started' /\ Enumerating(call'[loader'], modules')
          \/ /\ started' /\ Registered(call'[loader'], modules')
             /\ registered' \/ call'[loader'].pc \in {"load", "install"}
  /\ dll' \notin {"out", "attach"} => started'
  /\ dll' = "in" =>
       /\ loader' # NoThread =>
            /\ Loading(call'[loader'], modules')
            /\ registered' \/ call'[loader'].pc = "unlockLoader"
       /\ \A t \in Thread \ {loader'} : Mute(call'[t]) /\ ~Leaving(call'[t])
  /\ dll' \notin {"out", "attach", "in"} => \A t \in Thread : Mute(call'[t])

LEMMA TrackPrime == TrackAfter => TrackInv'
  BY DEF TrackAfter, TrackInv, Mute, Leaving, Loading, BeforeTracking, Enumerating, Registered,
     Reporting

TrackMoves ==
  TrackAfter /\ (dll' \in {"attach", "in"} => TakenMoves(Unwritten) /\ TakenMoves(EmitPC))

\* Taken as a function of what it depends on.
TakenOf(pc, ev, reported, early) ==
  {m \in Module : IF pc \in early /\ ev.module = m THEN ev.kind = "module_unloaded"
                  ELSE m \in reported}

LEMMA TakenIs ==
  ASSUME NEW pc, NEW ev, NEW reported \in SUBSET Module, NEW early
  PROVE  /\ pc \notin early \/ ev.module \notin Module
              => TakenOf(pc, ev, reported, early) = reported
         /\ \A m \in Module : pc \in early =>
              /\ ev = ModuleEvent("module_loaded", m)
                   => TakenOf(pc, ev, reported, early) = reported \ {m}
              /\ ev = ModuleEvent("module_unloaded", m)
                   => TakenOf(pc, ev, reported, early) = reported \cup {m}
<1>1. pc \notin early \/ ev.module \notin Module
        => TakenOf(pc, ev, reported, early) = reported
  BY DEF TakenOf
<1>2. ASSUME NEW m \in Module, pc \in early, ev = ModuleEvent("module_loaded", m)
      PROVE  TakenOf(pc, ev, reported, early) = reported \ {m}
  <2>1. ev.module = m /\ ev.kind = "module_loaded"
    BY <1>2, ModuleEventFacts
  <2>2. QED
    BY <1>2, <2>1 DEF TakenOf
<1>3. ASSUME NEW m \in Module, pc \in early, ev = ModuleEvent("module_unloaded", m)
      PROVE  TakenOf(pc, ev, reported, early) = reported \cup {m}
  <2>1. ev.module = m /\ ev.kind = "module_unloaded"
    BY <1>3, ModuleEventFacts
  <2>2. QED
    BY <1>3, <2>1 DEF TakenOf
<1>4. QED
  BY <1>1, <1>2, <1>3

LEMMA TakenFrom ==
  ASSUME NEW early
  PROVE  /\ Taken(early) = TakenOf(LoaderCall.pc, LoaderCall.ev, Reported, early)
         /\ Taken(early)' = TakenOf(LoaderCall'.pc, LoaderCall'.ev, Reported', early)
  BY DEF Taken, TakenOf

LEMMA EarlyLabels ==
  /\ Unwritten \subseteq EmitPC /\ "payload" \notin Unwritten /\ "append" \notin Unwritten
  /\ "lock" \notin Unwritten /\ "line" \notin Unwritten /\ "send" \in Unwritten
  /\ \A p \in {"idle", "dead", "connect", "open", "track", "enum", "register", "load",
               "install", "close", "unlockLoader", "unregister", "closePipe", "closeLog"} :
       p \notin EmitPC /\ p \notin Unwritten
  BY DEF Unwritten, EmitPC

\* The holder of the loader lock goes on with the event it emits.
LEMMA LoaderGoto ==
  ASSUME TypeOK, SoloInv, TrackInv, env, dll \in {"attach", "in"}, loader \in Thread,
         NEW p \in EmitPC, Goto(loader, p), call[loader].pc \in EmitPC,
         p \in Unwritten => call[loader].pc \in Unwritten,
         UNCHANGED <<dll, loader, moduleVars>>
  PROVE  TrackMoves
<1> USE DEF moduleVars
<1> DEFINE f == call[loader]
           g == call'[loader]
<1>1. /\ g.pc = p /\ g.op = f.op /\ g.todo = f.todo /\ g.ev = f.ev /\ g.next = f.next
      /\ \A u \in Thread \ {loader} : call'[u] = call[u]
  BY GotoKeeps
<1>2. LoaderCall = f /\ LoaderCall' = g /\ loader # NoThread /\ loader' # NoThread
  BY ConstantsAssumption DEF LoaderCall
<1> HIDE DEF f, g
<1>3. f.pc \in EmitPC
  BY DEF f
<1>4. Reporting(f, modules) => Reporting(g, modules')
  BY <1>1, <1>3 DEF Reporting
<1>a. ~Deaf
  BY <1>2, EarlyLabels DEF Deaf, TrackInv
<1>5. TrackAfter
  <2>1. CASE dll = "attach"
    <3>1. BeforeTracking(f) => BeforeTracking(g)
      BY <1>1, <1>3, EarlyLabels DEF BeforeTracking
    <3>2. Enumerating(f, modules) => Enumerating(g, modules')
      BY <1>1, <1>3, <1>4, EarlyLabels DEF Enumerating
    <3>3. Registered(f, modules) => Registered(g, modules')
      BY <1>1, <1>3, <1>4, EarlyLabels DEF Registered
    <3>4. /\ dll' = "attach" /\ capture' /\ g.op = "attach"
          /\ \/ ~started' /\ BeforeTracking(g)
             \/ started' /\ Enumerating(g, modules')
             \/ started' /\ registered' /\ Registered(g, modules')
      BY <1>1, <1>3, <2>1, <3>1, <3>2, <3>3, EarlyLabels DEF TrackInv, f
    <3>5. QED
      BY <2>1, <3>4 DEF TrackAfter, g
  <2>2. CASE dll = "in"
    <3>1. Loading(f, modules) /\ registered'
      BY <1>2, <1>3, <2>2, EarlyLabels DEF TrackInv, f
    <3>2. Loading(g, modules')
      BY <1>1, <1>3, <1>4, <3>1, EarlyLabels DEF Loading
    <3>3. \A u \in Thread \ {loader} : Mute(call'[u]) /\ ~Leaving(call'[u])
      BY <1>1, <2>2 DEF TrackInv
    <3>4. QED
      BY <2>2, <3>1, <3>2, <3>3 DEF TrackInv, TrackAfter, g
  <2>3. QED
    BY <2>1, <2>2
<1>6. Reported' = Reported
  BY <1>1, <1>2 DEF Reported
<1>7. Taken(EmitPC)' = Taken(EmitPC) /\ NonePasses(EmitPC)
  <2>1. Taken(EmitPC)' = Taken(EmitPC)
    <3>1. f.pc \in EmitPC /\ g.pc \in EmitPC
      BY <1>1, <1>3
    <3>2. QED
      BY <1>1, <1>2, <1>6, <3>1 DEF Taken
  <2>2. NonePasses(EmitPC)
    BY <1>1 DEF NonePasses, g
  <2>3. QED
    BY <2>1, <2>2
<1>8. TakenMoves(Unwritten)
  <2>1. CASE f.pc \in Unwritten /\ p \notin Unwritten /\ Reporting(f, modules)
    <3>1. started
      <4>1. ~BeforeTracking(f)
        BY <2>1, EarlyLabels, ModuleEventFacts, ConstantsAssumption DEF BeforeTracking, Reporting
      <4>2. QED
        BY <4>1 DEF TrackInv, f
    <3>2. Reported = modules \ f.todo /\ Reported \in SUBSET Module
      BY <1>2, <3>1 DEF Reported, TypeOK
    <3>3. Taken(Unwritten)' = Reported
      BY <1>1, <1>2, <1>6, <2>1, <3>2, TakenFrom, TakenIs
    <3>4. PICK m \in Module :
            \/ f.ev = ModuleEvent("module_loaded", m) /\ m \in modules \ f.todo
            \/ f.ev = ModuleEvent("module_unloaded", m) /\ m \notin modules
      BY <2>1 DEF Reporting
    <3>5. CASE f.ev = ModuleEvent("module_loaded", m) /\ m \in modules \ f.todo
      <4>1. Taken(Unwritten) = Reported \ {m}
        BY <1>2, <2>1, <3>2, <3>5, TakenFrom, TakenIs
      <4>2. QED
        BY <1>1, <1>a, <2>1, <3>2, <3>3, <3>5, <4>1 DEF TakenMoves, f, g
    <3>6. CASE f.ev = ModuleEvent("module_unloaded", m) /\ m \notin modules
      <4>1. Taken(Unwritten) = Reported \cup {m}
        BY <1>2, <2>1, <3>2, <3>6, TakenFrom, TakenIs
      <4>2. QED
        BY <1>1, <1>a, <2>1, <3>2, <3>3, <3>6, <4>1 DEF TakenMoves, f, g
    <3>7. QED
      BY <3>4, <3>5, <3>6
  <2>2. CASE ~(f.pc \in Unwritten /\ p \notin Unwritten)
    <3>1. Taken(Unwritten)' = Taken(Unwritten)
      <4>1. f.pc \in Unwritten <=> g.pc \in Unwritten
        BY <1>1, <2>2 DEF f
      <4>2. QED
        BY <1>1, <1>2, <1>6, <4>1 DEF Taken
    <3>2. NonePasses(Unwritten)
      BY <1>1, <2>2 DEF NonePasses, f, g
    <3>3. QED
      BY <1>a, <3>1, <3>2 DEF TakenMoves
  <2>3. CASE ~Reporting(f, modules)
    <3>1. f.ev.module = NoModule
      BY <1>2, <1>3, <2>3, EarlyLabels
      DEF TrackInv, Loading, BeforeTracking, Enumerating, Registered, f
    <3>2. NoModule \notin Module
      BY ConstantsAssumption
    <3>3. Taken(Unwritten)' = Taken(Unwritten)
      BY <1>1, <1>2, <1>6, <3>1, <3>2 DEF Taken
    <3>4. NonePasses(Unwritten)
      BY <1>1, <3>1 DEF NonePasses, f
    <3>5. QED
      BY <1>a, <3>3, <3>4 DEF TakenMoves
  <2>4. QED
    BY <2>1, <2>2, <2>3
<1>9. QED
  BY <1>5, <1>7, <1>8, <1>a DEF TrackMoves, TakenMoves

\* The holder of the loader lock has written the line, or there is no log.
LEMMA LoaderResume ==
  ASSUME TypeOK, SoloInv, TrackInv, env, dll \in {"attach", "in"}, loader \in Thread,
         Resume(loader, call[loader].next), call[loader].pc \in EmitPC \ Unwritten,
         UNCHANGED <<dll, loader, moduleVars>>
  PROVE  TrackMoves
<1> USE DEF moduleVars
<1> DEFINE f == call[loader]
           g == call'[loader]
           p == f.next
<1>0. Resume(loader, p)
  OBVIOUS
<1> HIDE DEF p
<1>1. /\ g.pc = p /\ (p # "idle" => g.op = f.op /\ g.todo = f.todo)
      /\ \A u \in Thread \ {loader} : call'[u] = call[u]
  BY <1>0, ResumeKeeps
<1>2. LoaderCall = f /\ LoaderCall' = g /\ loader # NoThread /\ loader' # NoThread
  BY ConstantsAssumption DEF LoaderCall
<1> HIDE DEF f, g
<1>3. f.pc \in EmitPC /\ f.pc \notin Unwritten
  BY DEF f
<1>4. \/ dll = "attach" /\ ~started /\ BeforeTracking(f) /\ p = "track" /\ f.ev.module = NoModule
      \/ dll = "attach" /\ started /\ Enumerating(f, modules) /\ Reporting(f, modules) /\ p = "enum"
      \/ /\ dll = "attach" /\ started /\ registered /\ Registered(f, modules)
         /\ Reporting(f, modules) /\ p = "load"
      \/ /\ dll = "in" /\ started /\ registered /\ Loading(f, modules)
         /\ Reporting(f, modules) /\ p = "unlockLoader"
  BY <1>2, <1>3, EarlyLabels
  DEF TrackInv, BeforeTracking, Enumerating, Registered, Loading, f, p
<1>a. ~Deaf
  BY <1>3, <1>4, EarlyLabels DEF Deaf, f
<1>5. p # "idle" /\ p \notin EmitPC /\ g.op = f.op /\ g.todo = f.todo /\ g.pc = p
  BY <1>1, <1>4, EarlyLabels
<1>6. TrackAfter
  <2>1. CASE dll = "attach"
    <3>1. call'[loader'].op = "attach"
      BY <1>5, <2>1 DEF TrackInv, f, g
    <3>2. \/ ~started' /\ BeforeTracking(g)
          \/ started' /\ Enumerating(g, modules')
          \/ started' /\ registered' /\ Registered(g, modules')
      BY <1>4, <1>5, <2>1 DEF BeforeTracking, Enumerating, Registered
    <3>3. QED
      BY <2>1, <3>1, <3>2 DEF TrackInv, TrackAfter, g
  <2>2. CASE dll = "in"
    <3>1. Loading(g, modules')
      BY <1>4, <1>5, <2>2 DEF Loading
    <3>2. \A u \in Thread \ {loader} : Mute(call'[u]) /\ ~Leaving(call'[u])
      BY <1>1, <2>2 DEF TrackInv
    <3>3. QED
      BY <1>4, <1>5, <2>2, <3>1, <3>2 DEF TrackInv, TrackAfter, g
  <2>3. QED
    BY <2>1, <2>2
<1>7. Reported' = Reported
  BY <1>2, <1>5 DEF Reported
<1>8. TakenMoves(Unwritten)
  <2>1. f.pc \notin Unwritten /\ g.pc \notin Unwritten
    BY <1>3, <1>5, EarlyLabels
  <2>2. Taken(Unwritten)' = Taken(Unwritten)
    BY <1>2, <1>7, <2>1 DEF Taken
  <2>3. NonePasses(Unwritten)
    BY <1>1, <2>1 DEF NonePasses, f
  <2>4. QED
    BY <1>a, <2>2, <2>3 DEF TakenMoves
<1>9. TakenMoves(EmitPC)
  <2>1. CASE f.ev.module = NoModule
    <3>1. NoModule \notin Module
      BY ConstantsAssumption
    <3>2. Taken(EmitPC)' = Taken(EmitPC)
      BY <1>2, <1>5, <1>7, <2>1, <3>1 DEF Taken
    <3>3. NonePasses(EmitPC)
      BY <1>1, <2>1 DEF NonePasses, f
    <3>4. QED
      BY <1>a, <3>2, <3>3 DEF TakenMoves
  <2>2. CASE started /\ Reporting(f, modules)
    <3>1. Reported = modules \ f.todo /\ Reported \in SUBSET Module
      BY <1>2, <2>2 DEF Reported, TypeOK
    <3>2. Taken(EmitPC)' = Reported
      BY <1>2, <1>5, <1>7, <3>1, TakenFrom, TakenIs
    <3>3. PICK m \in Module :
            \/ f.ev = ModuleEvent("module_loaded", m) /\ m \in modules \ f.todo
            \/ f.ev = ModuleEvent("module_unloaded", m) /\ m \notin modules
      BY <2>2 DEF Reporting
    <3>4. CASE f.ev = ModuleEvent("module_loaded", m) /\ m \in modules \ f.todo
      <4>1. Taken(EmitPC) = Reported \ {m}
        BY <1>2, <1>3, <3>1, <3>4, TakenFrom, TakenIs
      <4>2. QED
        BY <1>3, <1>5, <1>a, <3>1, <3>2, <3>4, <4>1 DEF TakenMoves, f, g
    <3>5. CASE f.ev = ModuleEvent("module_unloaded", m) /\ m \notin modules
      <4>1. Taken(EmitPC) = Reported \cup {m}
        BY <1>2, <1>3, <3>1, <3>5, TakenFrom, TakenIs
      <4>2. QED
        BY <1>3, <1>5, <1>a, <3>1, <3>2, <3>5, <4>1 DEF TakenMoves, f, g
    <3>6. QED
      BY <3>3, <3>4, <3>5
  <2>3. QED
    BY <1>4, <2>1, <2>2
<1>10. QED
  BY <1>6, <1>8, <1>9 DEF TrackMoves

\* Nothing is pending before and after, and what is reported stays.
LEMMA TakenStays ==
  ASSUME TypeOK, Deaf => Deaf', Reported' = Reported, UNCHANGED missed,
         LoaderCall.pc \notin EmitPC \/ LoaderCall.ev.module \notin Module,
         LoaderCall'.pc \notin EmitPC \/ LoaderCall'.ev.module \notin Module,
         \A t \in Thread : call[t].pc \in EmitPC => call[t].ev.module = NoModule
  PROVE  TakenMoves(Unwritten) /\ TakenMoves(EmitPC)
<1>1. ASSUME NEW early \in {Unwritten, EmitPC}
      PROVE  TakenMoves(early)
  <2>1. early \subseteq EmitPC
    BY EarlyLabels
  <2>2. Taken(early)' = Taken(early)
    BY <2>1 DEF Taken
  <2>3. NonePasses(early)
    BY <2>1 DEF NonePasses
  <2>4. QED
    BY <2>2, <2>3 DEF TakenMoves
<1>2. QED
  BY <1>1

\* Nothing is pending, and the DLL is deaf.
LEMMA DeafStays ==
  ASSUME Deaf', UNCHANGED missed,
         \A t \in Thread : call[t].pc \in EmitPC => call[t].ev.module = NoModule
  PROVE  TakenMoves(Unwritten) /\ TakenMoves(EmitPC)
  BY EarlyLabels DEF TakenMoves, NonePasses

\* Nothing is pending and an emission about m begins.
LEMMA TakenBegins ==
  ASSUME TypeOK, ~Deaf, UNCHANGED missed, NEW m \in Module,
         \A t \in Thread : call[t].pc \in EmitPC => call[t].ev.module = NoModule,
         LoaderCall.pc \notin EmitPC, LoaderCall'.pc = "send",
         Reported \in SUBSET Module, Reported' \in SUBSET Module,
         \/ /\ LoaderCall'.ev = ModuleEvent("module_loaded", m)
            /\ m \notin Reported /\ Reported' = Reported \cup {m}
         \/ /\ LoaderCall'.ev = ModuleEvent("module_unloaded", m)
            /\ m \in Reported /\ Reported' = Reported \ {m}
  PROVE  TakenMoves(Unwritten) /\ TakenMoves(EmitPC)
<1>1. ASSUME NEW early \in {Unwritten, EmitPC}
      PROVE  TakenMoves(early)
  <2>1. early \subseteq EmitPC /\ "send" \in early
    BY EarlyLabels DEF EmitPC
  <2>2. Taken(early) = Reported
    <3>1. LoaderCall.pc \notin early
      BY <2>1
    <3>2. QED
      BY <3>1 DEF Taken
  <2>3. \/ /\ LoaderCall'.ev = ModuleEvent("module_loaded", m)
           /\ Taken(early)' = Reported' \ {m}
        \/ /\ LoaderCall'.ev = ModuleEvent("module_unloaded", m)
           /\ Taken(early)' = Reported' \cup {m}
    <3>1. Taken(early)' = TakenOf(LoaderCall'.pc, LoaderCall'.ev, Reported', early)
      BY TakenFrom
    <3>2. LoaderCall'.pc \in early
      BY <2>1
    <3>3. /\ LoaderCall'.ev = ModuleEvent("module_loaded", m)
               => TakenOf(LoaderCall'.pc, LoaderCall'.ev, Reported', early) = Reported' \ {m}
          /\ LoaderCall'.ev = ModuleEvent("module_unloaded", m)
               => TakenOf(LoaderCall'.pc, LoaderCall'.ev, Reported', early) = Reported' \cup {m}
      BY <3>2, TakenIs
    <3>4. QED
      BY <3>1, <3>3
  <2>4. ModuleEvent("module_loaded", m) # ModuleEvent("module_unloaded", m)
    BY ModuleEventFacts
  <2>5. Taken(early)' = Taken(early)
    BY <2>2, <2>3, <2>4
  <2>6. NonePasses(early)
    BY <2>1 DEF NonePasses
  <2>7. QED
    BY <2>5, <2>6 DEF TakenMoves
<1>2. QED
  BY <1>1

\* Nothing is pending where the label is not one of an emission.
LEMMA QuietLoader ==
  ASSUME SoloInv, dll = "attach", call[loader].pc \notin EmitPC
  PROVE  \A t \in Thread : call[t].pc \in EmitPC => call[t].ev.module = NoModule
<1>1. \A t \in Thread \ {loader} : call[t].pc = "idle"
  BY IdleFacts DEF SoloInv
<1>2. QED
  BY <1>1, EarlyLabels

LEMMA EnumeratedTypes ==
  ASSUME TypeOK, NEW ms \in Enumerated
  PROVE  ms \subseteq modules
  BY DEF Enumerated

\* OnAttach, step by step.
LEMMA AttachTracks ==
  ASSUME TypeOK, SoloInv, TrackInv, env, dll = "attach", Attaches(loader)
  PROVE  TrackMoves
<1> USE DEF lifeVars, moduleVars
<1> DEFINE a == loader
           f == call[loader]
           g == call'[loader]
<1>1. /\ a \in Thread /\ AttachFrame(f)
      /\ \A u \in Thread \ {a} : call[u] = Idle
  BY DEF SoloInv
<1>2. /\ capture /\ f.op = "attach" /\ modules \in SUBSET Module
      /\ \/ ~started /\ BeforeTracking(f)
         \/ started /\ Enumerating(f, modules)
         \/ started /\ Registered(f, modules) /\ (registered \/ f.pc \in {"load", "install"})
  BY DEF TrackInv, TypeOK
<1>3. LoaderCall = f /\ (UNCHANGED loader => LoaderCall' = g) /\ a # NoThread
  BY <1>1, ConstantsAssumption DEF LoaderCall
<1> HIDE DEF f, g
<1>4. f.pc \notin EmitPC => \A t \in Thread : call[t].pc \in EmitPC => call[t].ev.module = NoModule
  BY QuietLoader DEF f
<1>6. ASSUME UNCHANGED <<dll, loader, capture>>, g.op = "attach",
             \/ ~started' /\ BeforeTracking(g)
             \/ started' /\ Enumerating(g, modules')
             \/ started' /\ Registered(g, modules') /\ (registered' \/ g.pc \in {"load", "install"})
      PROVE  TrackAfter
  BY <1>2, <1>6 DEF TrackAfter, g
<1>a. f.pc \notin {"load", "install"} => ~Deaf
  BY DEF Deaf, f
<1>7. CASE SendCheck(a) \/ SendHeader(a) \/ SendPayload(a) \/ AppendLock(a)
  <2>1. PICK p \in {"header", "payload", "append", "line"} :
          Goto(a, p) /\ (p = "header" => SendCheck(a) \/ SendHeader(a))
    <3>1. CASE SendHeader(a)
      <4>1. PICK p \in {"header", "payload", "append"} : Goto(a, p)
        BY <1>1, <3>1, SendGoes
      <4>2. QED
        BY <3>1, <4>1
    <3>2. CASE SendPayload(a)
      <4>1. call[a].pc = "payload" /\ (Goto(a, "append"))
        BY <3>2 DEF SendPayload, WriteFails, WritePayload
      <4>2. QED
        BY <4>1
    <3>3. QED
      BY <1>7, <3>1, <3>2 DEF SendCheck, AppendLock
  <2>2. /\ call[a].pc \in EmitPC /\ p \in EmitPC
        /\ p \in Unwritten => call[a].pc \in Unwritten
        /\ UNCHANGED <<dll, loader, moduleVars>>
    BY <1>7, <2>1 DEF EmitPC, Unwritten, SendCheck, SendHeader, SendPayload, AppendLock
  <2>3. QED
    BY <1>1, <2>1, <2>2, LoaderGoto
<1>8. CASE AppendCheck(a) \/ WriteLine(a)
  <2>1. /\ call[a].pc \in EmitPC \ Unwritten /\ UNCHANGED <<dll, loader, moduleVars>>
    BY <1>8 DEF AppendCheck, WriteLine, EmitPC, Unwritten
  <2>2. Goto(a, "lock") \/ Resume(a, call[a].next)
    BY <1>8 DEF AppendCheck, WriteLine
  <2>3. QED
    BY <1>1, <2>1, <2>2, LoaderGoto, LoaderResume, EarlyLabels DEF EmitPC
<1>9. CASE StartModuleTracking(a)
  <2>1. f.pc = "track" /\ UNCHANGED <<dll, loader, modules, capture, registered>>
    BY <1>9 DEF StartModuleTracking, f
  <2>2. ~started /\ f.todo = {}
    BY <1>2, <2>1, EarlyLabels DEF BeforeTracking, Enumerating, Registered, Reporting
  <2>3. started' /\ Enumerate(a)
    BY <1>2, <1>9, <2>2 DEF StartModuleTracking
  <2>4. PICK ms \in Enumerated : /\ missed' = modules \ ms
                                 /\ Become(a, [call[a] EXCEPT !.pc = "enum", !.todo = ms])
    BY <2>3 DEF Enumerate
  <2>5. g.pc = "enum" /\ g.todo = ms /\ g.op = f.op
    <3>1. g = [call[a] EXCEPT !.pc = "enum", !.todo = ms]
      BY <1>1, <2>4, BecomeKeeps DEF g
    <3>2. call[a] \in Frame
      BY <1>1 DEF TypeOK
    <3>3. QED
      BY <3>1, <3>2 DEF Frame, f
  <2>6. ms \subseteq modules
    BY EnumeratedTypes
  <2>7. TrackAfter
    BY <1>2, <1>6, <2>1, <2>3, <2>5, <2>6 DEF Enumerating
  <2>8. ASSUME NEW early \in {Unwritten, EmitPC}
        PROVE  TakenMoves(early)
    <3>1. early \subseteq EmitPC /\ g.pc \notin early /\ f.pc \notin early
      BY <2>1, <2>5, EarlyLabels
    <3>2. Reported' = modules \ ms
      BY <1>3, <2>1, <2>3, <2>5 DEF Reported
    <3>3. Taken(early)' = Reported'
      BY <1>2, <1>3, <2>1, <3>1, <3>2, TakenFrom, TakenIs
    <3>4. NonePasses(early)
      BY <1>4, <2>1, <3>1, EarlyLabels DEF NonePasses
    <3>5. QED
      BY <1>a, <2>1, <2>2, <2>3, <2>4, <2>6, <3>2, <3>3, <3>4 DEF TakenMoves
  <2>9. QED
    BY <2>7, <2>8 DEF TrackMoves
<1>10. CASE EmitModuleLoaded(a)
  <2>1. f.pc = "enum" /\ UNCHANGED <<dll, loader, moduleVars>>
    BY <1>10 DEF EmitModuleLoaded, f
  <2>2. started /\ f.todo \subseteq modules /\ Reported = modules \ f.todo
    BY <1>2, <1>3, <2>1, EarlyLabels
    DEF BeforeTracking, Enumerating, Registered, Reporting, Reported
  <2>3. CASE f.todo = {} /\ Goto(a, "register")
    <3>1. g.pc = "register" /\ g.op = f.op /\ g.todo = f.todo
      BY <1>1, <2>3, GotoKeeps DEF f, g
    <3>2. TrackAfter
      BY <1>2, <1>6, <2>1, <2>2, <2>3, <3>1 DEF Enumerating
    <3>3. Reported' = Reported
      BY <1>3, <2>1, <3>1 DEF Reported
    <3>4. TakenMoves(Unwritten) /\ TakenMoves(EmitPC)
      BY <1>3, <1>4, <1>a, <2>1, <3>1, <3>3, TakenStays, EarlyLabels
    <3>5. QED
      BY <3>2, <3>4 DEF TrackMoves
  <2>4. ASSUME NEW m \in f.todo,
               Become(a, [EmitFrame(a, ModuleEvent("module_loaded", m), "send", "enum")
                            EXCEPT !.todo = @ \ {m}])
        PROVE  TrackMoves
    <3> DEFINE e == ModuleEvent("module_loaded", m)
               h == EmitFrame(a, e, "send", "enum")
    <3>1. h.todo = f.todo
      BY <1>1, EmitKeeps DEF f
    <3>2. g = [h EXCEPT !.todo = f.todo \ {m}]
      BY <1>1, <2>4, <3>1, BecomeKeeps DEF g
    <3> HIDE DEF e
    <3>3. /\ g.pc = "send" /\ g.ev = e /\ g.next = "enum" /\ g.op = f.op
          /\ g.todo = f.todo \ {m}
      BY <1>1, <3>2, EmitKeeps DEF f
    <3>4. m \in Module /\ m \in modules
      BY <1>2, <2>2
    <3>5. Reporting(g, modules')
      BY <2>1, <2>2, <3>3, <3>4, EarlyLabels DEF Reporting, EmitPC, e
    <3>6. TrackAfter
      BY <1>2, <1>6, <2>1, <2>2, <3>3, <3>5 DEF Enumerating
    <3>7. /\ Reported' = Reported \cup {m} /\ m \notin Reported
          /\ Reported \in SUBSET Module /\ Reported' \in SUBSET Module
      BY <1>2, <1>3, <2>1, <2>2, <3>3, <3>4 DEF Reported
    <3>8. LoaderCall.pc \notin EmitPC /\ LoaderCall'.pc = "send"
          /\ LoaderCall'.ev = ModuleEvent("module_loaded", m)
      BY <1>3, <2>1, <3>3, EarlyLabels DEF e
    <3>9. TakenMoves(Unwritten) /\ TakenMoves(EmitPC)
      BY <1>4, <1>a, <2>1, <3>4, <3>7, <3>8, TakenBegins, EarlyLabels
    <3>10. QED
      BY <3>6, <3>9 DEF TrackMoves
  <2>5. QED
    BY <1>10, <2>3, <2>4 DEF EmitModuleLoaded, f
<1>11. CASE FaultOnUnmapped(a)
  <2>1. f.pc = "enum" /\ f.todo \ modules # {}
    BY <1>11 DEF FaultOnUnmapped, f
  <2>2. QED
    BY <1>2, <2>1, EarlyLabels DEF BeforeTracking, Enumerating, Registered, Reporting
<1>12. CASE Register(a)
  <2>1. f.pc = "register" /\ UNCHANGED <<dll, loader, modules, capture, started, missed>>
    BY <1>12 DEF Register, f
  <2>2. started /\ f.todo = {}
    BY <1>2, <2>1, EarlyLabels DEF BeforeTracking, Enumerating, Registered, Reporting
  <2>3. Resume(a, "load")
    BY <1>2, <1>12 DEF Register, AfterTracking, f
  <2>4. g.pc = "load" /\ g.op = f.op /\ g.todo = f.todo
    BY <1>1, <2>3, ResumeKeeps DEF f, g
  <2>5. TrackAfter
    BY <1>2, <1>6, <2>1, <2>2, <2>4 DEF Registered
  <2>6. Reported' = Reported
    BY <1>3, <2>1, <2>4 DEF Reported
  <2>7. TakenMoves(Unwritten) /\ TakenMoves(EmitPC)
    BY <1>3, <1>4, <1>a, <2>1, <2>4, <2>6, TakenStays, EarlyLabels
  <2>8. QED
    BY <2>5, <2>7 DEF TrackMoves
<1>13. CASE Connect(a)
  <2>1. f.pc = "connect" /\ UNCHANGED <<dll, loader, moduleVars>> /\ Goto(a, "open")
    BY <1>13 DEF Connect, f
  <2>2. ~started /\ f.todo = {}
    BY <1>2, <2>1, EarlyLabels DEF BeforeTracking, Enumerating, Registered, Reporting
  <2>3. g.pc = "open" /\ g.op = f.op /\ g.todo = f.todo
    BY <1>1, <2>1, GotoKeeps DEF f, g
  <2>4. TrackAfter
    BY <1>2, <1>6, <2>1, <2>2, <2>3 DEF BeforeTracking
  <2>5. Reported' = Reported
    BY <1>3, <2>1, <2>3 DEF Reported
  <2>6. TakenMoves(Unwritten) /\ TakenMoves(EmitPC)
    BY <1>3, <1>4, <1>a, <2>1, <2>3, <2>5, TakenStays, EarlyLabels
  <2>7. QED
    BY <2>4, <2>6 DEF TrackMoves
<1>14. CASE OpenAtAttach(a)
  <2>1. f.pc = "open" /\ UNCHANGED <<dll, loader, moduleVars>>
    BY <1>14 DEF OpenAtAttach, f
  <2>2. ~started /\ f.todo = {}
    BY <1>2, <2>1, EarlyLabels DEF BeforeTracking, Enumerating, Registered, Reporting
  <2>3. g = EmitFrame(a, Plain("hello"), "send", "track")
    BY <1>1, <1>14, BecomeKeeps DEF OpenAtAttach, g
  <2>4. /\ g.pc = "send" /\ g.ev = Plain("hello") /\ g.next = "track" /\ g.op = f.op
        /\ g.todo = f.todo
    BY <1>1, <2>3, EmitKeeps DEF f
  <2>5. g.ev.module = NoModule /\ NoModule \notin Module
    BY <2>4, ConstantsAssumption DEF Plain, NoEvent
  <2>6. TrackAfter
    BY <1>2, <1>6, <2>1, <2>2, <2>4, <2>5 DEF BeforeTracking, EmitPC
  <2>7. Reported' = Reported
    BY <1>3, <2>1, <2>4 DEF Reported
  <2>8. TakenMoves(Unwritten) /\ TakenMoves(EmitPC)
    BY <1>3, <1>4, <1>a, <2>1, <2>5, <2>7, TakenStays, EarlyLabels
  <2>9. QED
    BY <2>6, <2>8 DEF TrackMoves
<1>15. CASE LoadD3D12(a)
  <2>1. f.pc = "load" /\ UNCHANGED <<dll, loader, capture, started, registered, missed>>
    BY <1>15 DEF LoadD3D12, f
  <2>2. started /\ f.todo = {} /\ Reported = modules
    BY <1>2, <1>3, <2>1, EarlyLabels
    DEF BeforeTracking, Enumerating, Registered, Reporting, Reported
  <2>3. ASSUME NEW p \in {"load", "install"}, Goto(a, p), registered => UNCHANGED modules
        PROVE  TrackMoves
    <3>1. g.pc = p /\ g.op = f.op /\ g.todo = f.todo
      BY <1>1, <2>3, GotoKeeps DEF f, g
    <3>2. TrackAfter
      BY <1>2, <1>6, <2>1, <2>2, <2>3, <3>1 DEF Registered
    <3>3. CASE Deaf
      <4>1. Deaf'
        BY <2>1, <2>3, <3>1, <3>3 DEF Deaf, g
      <4>2. QED
        BY <1>4, <2>1, <3>2, <4>1, DeafStays, EarlyLabels DEF TrackMoves
    <3>4. CASE ~Deaf
      <4>1. UNCHANGED modules
        BY <2>1, <2>3, <3>4 DEF Deaf, f
      <4>2. Reported' = Reported
        BY <1>3, <2>1, <3>1, <4>1 DEF Reported
      <4>3. p \notin EmitPC /\ f.pc \notin EmitPC
        BY <2>1, EarlyLabels
      <4>4. TakenMoves(Unwritten) /\ TakenMoves(EmitPC)
        BY <1>3, <1>4, <2>1, <3>1, <3>4, <4>2, <4>3, TakenStays
      <4>5. QED
        BY <3>2, <4>4 DEF TrackMoves
    <3>5. QED
      BY <3>3, <3>4
  <2>4. ASSUME NEW m \in Module \ modules, modules' = modules \cup {m}, registered,
               Become(a, EmitFrame(a, ModuleEvent("module_loaded", m), "send", "load"))
        PROVE  TrackMoves
    <3> DEFINE e == ModuleEvent("module_loaded", m)
               h == EmitFrame(a, e, "send", "load")
    <3>1. g = h
      BY <1>1, <2>4, BecomeKeeps DEF g
    <3> HIDE DEF e
    <3>2. g.pc = "send" /\ g.ev = e /\ g.next = "load" /\ g.op = f.op /\ g.todo = f.todo
      BY <1>1, <3>1, EmitKeeps DEF f
    <3>3. Reporting(g, modules')
      BY <2>2, <2>4, <3>2 DEF Reporting, EmitPC, e
    <3>4. TrackAfter
      BY <1>2, <1>6, <2>1, <2>2, <2>4, <3>2, <3>3 DEF Registered
    <3>5. /\ Reported' = Reported \cup {m} /\ m \notin Reported
          /\ Reported \in SUBSET Module /\ Reported' \in SUBSET Module
      BY <1>2, <1>3, <2>1, <2>2, <2>4, <3>2 DEF Reported
    <3>6. LoaderCall.pc \notin EmitPC /\ LoaderCall'.pc = "send"
          /\ LoaderCall'.ev = ModuleEvent("module_loaded", m)
      BY <1>3, <2>1, <3>2, EarlyLabels DEF e
    <3>7. ~Deaf
      BY <2>4 DEF Deaf
    <3>8. TakenMoves(Unwritten) /\ TakenMoves(EmitPC)
      BY <1>4, <2>1, <2>4, <3>5, <3>6, <3>7, TakenBegins, EarlyLabels
    <3>9. QED
      BY <3>4, <3>8 DEF TrackMoves
  <2>5. QED
    BY <1>15, <2>3, <2>4 DEF LoadD3D12, OnLdrNotification
<1>16. CASE InstallExportHooks(a)
  <2>1. /\ f.pc = "install" /\ dll' = "in" /\ loader' = NoThread /\ UNCHANGED moduleVars
        /\ Become(a, Idle)
    BY <1>16 DEF InstallExportHooks, f
  <2>2. started /\ f.todo = {} /\ Reported = modules
    BY <1>2, <1>3, <2>1, EarlyLabels
    DEF BeforeTracking, Enumerating, Registered, Reporting, Reported
  <2>3. \A u \in Thread : call'[u] = Idle
    BY <1>1, <2>1, BecomeKeeps
  <2>4. TrackAfter
    BY <2>1, <2>2, <2>3, IdleFacts DEF TrackAfter
  <2>5. LoaderCall' = Idle /\ Reported' = Reported
    BY <2>1, <2>2, IdleFacts DEF LoaderCall, Reported
  <2>6. Deaf => Deaf'
    BY <2>1 DEF Deaf
  <2>7. TakenMoves(Unwritten) /\ TakenMoves(EmitPC)
    BY <1>3, <1>4, <2>1, <2>5, <2>6, TakenStays, EarlyLabels, IdleFacts
  <2>8. QED
    BY <2>4, <2>7 DEF TrackMoves
<1>17. QED
  BY <1>7, <1>8, <1>9, <1>10, <1>11, <1>12, <1>13, <1>14, <1>15, <1>16 DEF Attaches

\* The loader maps or unmaps a module.
LEMMA ModuleMoves ==
  ASSUME TypeOK, TrackInv, env, dll = "in", NEW t \in Thread, NEW m \in Module,
         LoadModule(t, m) \/ UnloadModule(t, m)
  PROVE  TrackMoves
<1> USE DEF moduleVars
<1> DEFINE g == call'[t]
<1>1. /\ loader = NoThread /\ loader' = t /\ call[t] = Idle /\ started
      /\ UNCHANGED <<dll, registered, started, missed>> /\ modules \in SUBSET Module
      /\ \A u \in Thread : Mute(call[u]) /\ ~Leaving(call[u])
  <2>1. /\ loader = NoThread /\ loader' = t /\ call[t] = Idle
        /\ UNCHANGED <<dll, registered, started, missed>>
    BY DEF LoadModule, UnloadModule, Begin
  <2>2. NoThread \notin Thread
    BY ConstantsAssumption
  <2>3. QED
    BY <2>1, <2>2 DEF TrackInv, TypeOK
<1>2. LoaderCall = Idle /\ LoaderCall' = g /\ Reported = modules
  BY <1>1, ConstantsAssumption, IdleFacts DEF LoaderCall, Reported
<1>3. \A u \in Thread : call[u].pc \in EmitPC => call[u].ev.module = NoModule
  BY <1>1 DEF Mute
<1>a. CASE ~registered
  <2>1. Goto(t, "unlockLoader")
    BY <1>a DEF LoadModule, UnloadModule, OnLdrNotification
  <2>2. /\ g.pc = "unlockLoader" /\ g.op = "none" /\ g.todo = {}
        /\ \A u \in Thread \ {t} : call'[u] = call[u]
    BY <1>1, <2>1, GotoKeeps, IdleFacts
  <2> HIDE DEF g
  <2>3. Loading(g, modules')
    BY <2>2 DEF Loading
  <2>4. TrackAfter
    BY <1>1, <2>2, <2>3 DEF TrackAfter, g
  <2>5. Deaf'
    BY <1>1, <1>a DEF Deaf
  <2>6. QED
    BY <1>1, <1>3, <2>4, <2>5, DeafStays DEF TrackMoves
<1>4. ASSUME NEW k \in {"module_loaded", "module_unloaded"}, registered,
             OnLdrNotification(t, k, m, "unlockLoader"),
             \/ k = "module_loaded" /\ modules' = modules \cup {m} /\ m \notin modules
             \/ k = "module_unloaded" /\ modules' = modules \ {m} /\ m \in modules
      PROVE  TrackMoves
  <2> DEFINE e == ModuleEvent(k, m)
             h == EmitFrame(t, e, "send", "unlockLoader")
  <2>1. g = h /\ \A u \in Thread \ {t} : call'[u] = call[u]
    BY <1>1, <1>4, BecomeKeeps DEF OnLdrNotification
  <2> HIDE DEF e
  <2>2. g.pc = "send" /\ g.ev = e /\ g.next = "unlockLoader" /\ g.op = "none" /\ g.todo = {}
    BY <1>1, <2>1, EmitKeeps, IdleFacts
  <2> HIDE DEF g
  <2>3. Reporting(g, modules')
    BY <1>4, <2>2 DEF Reporting, EmitPC, e
  <2>4. Loading(g, modules')
    BY <2>2, <2>3 DEF Loading
  <2>5. TrackAfter
    BY <1>1, <1>4, <2>1, <2>4 DEF TrackAfter, g
  <2>6. Reported' = modules' /\ modules' \in SUBSET Module
    BY <1>1, <1>2, <1>4, <2>2 DEF Reported
  <2>7. LoaderCall.pc \notin EmitPC /\ LoaderCall'.pc = "send" /\ LoaderCall'.ev = e
    BY <1>2, <2>2, IdleFacts, EarlyLabels
  <2>8. \/ /\ LoaderCall'.ev = ModuleEvent("module_loaded", m)
           /\ m \notin Reported /\ Reported' = Reported \cup {m}
        \/ /\ LoaderCall'.ev = ModuleEvent("module_unloaded", m)
           /\ m \in Reported /\ Reported' = Reported \ {m}
    BY <1>2, <1>4, <2>6, <2>7 DEF e
  <2>9. ~Deaf
    BY <1>4 DEF Deaf
  <2>10. TakenMoves(Unwritten) /\ TakenMoves(EmitPC)
    BY <1>1, <1>2, <1>3, <2>6, <2>7, <2>8, <2>9, TakenBegins
  <2>11. QED
    BY <2>5, <2>10 DEF TrackMoves
<1>5. QED
  BY <1>1, <1>4, <1>a DEF LoadModule, UnloadModule

LEMMA EnvironmentIdle ==
  ASSUME NEW t \in Thread, Environment(t)
  PROVE  call[t] = Idle
BY DEF Environment, Attach, ObjectEvent, StartLogging, StopLogging, LoadModule, UnloadModule,
   Detach, Begin

\* The holder of the loader lock, after OnAttach.
LEMMA LoadingTracks ==
  ASSUME TypeOK, SoloInv, TrackInv, env, dll = "in", loader \in Thread,
         Environment(loader) \/ Continue(loader)
  PROVE  TrackMoves
<1> USE DEF lifeVars, moduleVars
<1> DEFINE a == loader
           f == call[loader]
<1>1. Loading(f, modules) /\ started /\ a # NoThread
  BY ConstantsAssumption DEF TrackInv
<1>2. /\ f.op = "none" /\ f.todo = {} /\ f.pc \in EmitPC \cup {"unlockLoader"}
  BY <1>1 DEF Loading, Reporting
<1>3. Continue(a)
  BY <1>2, EnvironmentIdle, IdleFacts, EarlyLabels
<1> HIDE DEF f
<1>4. CASE SendCheck(a) \/ SendHeader(a) \/ SendPayload(a) \/ AppendLock(a)
  <2>1. PICK p \in {"header", "payload", "append", "line"} :
          Goto(a, p) /\ (p = "header" => SendCheck(a) \/ SendHeader(a))
    <3>1. CASE SendHeader(a)
      <4>1. PICK p \in {"header", "payload", "append"} : Goto(a, p)
        BY <3>1, SendGoes
      <4>2. QED
        BY <3>1, <4>1
    <3>2. CASE SendPayload(a)
      <4>1. call[a].pc = "payload" /\ Goto(a, "append")
        BY <3>2 DEF SendPayload, WriteFails, WritePayload
      <4>2. QED
        BY <4>1
    <3>3. QED
      BY <1>4, <3>1, <3>2 DEF SendCheck, AppendLock
  <2>2. /\ call[a].pc \in EmitPC /\ p \in EmitPC
        /\ p \in Unwritten => call[a].pc \in Unwritten
        /\ UNCHANGED <<dll, loader, moduleVars>>
    BY <1>4, <2>1 DEF EmitPC, Unwritten, SendCheck, SendHeader, SendPayload, AppendLock
  <2>3. QED
    BY <2>1, <2>2, LoaderGoto
<1>5. CASE AppendCheck(a) \/ WriteLine(a)
  <2>1. /\ call[a].pc \in EmitPC \ Unwritten /\ UNCHANGED <<dll, loader, moduleVars>>
    BY <1>5 DEF AppendCheck, WriteLine, EmitPC, Unwritten
  <2>2. Goto(a, "lock") \/ Resume(a, call[a].next)
    BY <1>5 DEF AppendCheck, WriteLine
  <2>3. QED
    BY <2>1, <2>2, LoaderGoto, LoaderResume, EarlyLabels DEF EmitPC
<1>6. CASE UnlockLoader(a)
  <2>1. /\ f.pc = "unlockLoader" /\ loader' = NoThread /\ UNCHANGED <<dll, moduleVars>>
        /\ Become(a, Idle)
    BY <1>6 DEF UnlockLoader, f
  <2>2. call'[a] = Idle /\ \A u \in Thread \ {a} : call'[u] = call[u]
    BY <2>1, BecomeKeeps
  <2>3. \A u \in Thread \ {a} : Mute(call[u]) /\ ~Leaving(call[u])
    BY DEF TrackInv
  <2>4. TrackAfter
    BY <1>1, <2>1, <2>2, <2>3, IdleFacts DEF TrackAfter
  <2>5. LoaderCall = f /\ LoaderCall' = Idle /\ Reported' = Reported
    BY <1>1, <1>2, <2>1, IdleFacts DEF LoaderCall, Reported, f
  <2>6. \A u \in Thread : call[u].pc \in EmitPC => call[u].ev.module = NoModule
    BY <2>1, <2>3, EarlyLabels DEF Mute, f
  <2>a. Deaf => Deaf'
    BY <2>1 DEF Deaf
  <2>7. TakenMoves(Unwritten) /\ TakenMoves(EmitPC)
    BY <2>1, <2>5, <2>6, <2>a, TakenStays, EarlyLabels, IdleFacts
  <2>8. QED
    BY <2>4, <2>7 DEF TrackMoves
<1>7. CASE \/ StartModuleTracking(a) \/ EmitModuleLoaded(a) \/ FaultOnUnmapped(a) \/ Register(a)
           \/ Connect(a) \/ OpenAtAttach(a) \/ LoadD3D12(a) \/ InstallExportHooks(a)
           \/ OpenAtStart(a) \/ CloseLog(a) \/ StopModuleTracking(a) \/ ClosePipeAtDetach(a)
           \/ CloseLogAtDetach(a)
  BY <1>2, <1>7, EarlyLabels DEF StartModuleTracking, EmitModuleLoaded, FaultOnUnmapped, Register,
     Connect, OpenAtAttach, LoadD3D12, InstallExportHooks, OpenAtStart, CloseLog,
     StopModuleTracking, ClosePipeAtDetach, CloseLogAtDetach, f
<1>8. QED
  BY <1>3, <1>4, <1>5, <1>6, <1>7 DEF Continue

\* Any other thread, after OnAttach.
LEMMA OtherTracks ==
  ASSUME TypeOK, TrackInv, env, dll = "in", NEW t \in Thread \ {loader},
         Environment(t) \/ Continue(t), ~Attach(t),
         \A m \in Module : ~LoadModule(t, m) /\ ~UnloadModule(t, m)
  PROVE  TrackMoves
<1>1. /\ Mute(call[t]) /\ ~Leaving(call[t]) /\ started
      /\ loader # NoThread =>
           /\ Loading(call[loader], modules)
           /\ registered \/ call[loader].pc = "unlockLoader"
      /\ \A u \in Thread \ {loader} : Mute(call[u]) /\ ~Leaving(call[u])
  BY DEF TrackInv
<1>2. /\ UNCHANGED <<modules, started, missed>> /\ Mute(call'[t])
      /\ \A u \in Thread : Mute(call[u]) => Mute(call'[u])
      /\ \/ /\ UNCHANGED <<dll, loader, registered>>
            /\ \A u \in Thread \ {t} : call'[u] = call[u]
            /\ ~Leaving(call'[t])
         \/ dll' = "detach" /\ loader = NoThread
  BY <1>1, MuteGoes
<1>3. CASE dll' = "detach" /\ loader = NoThread
  <2>1. \A u \in Thread : Mute(call'[u])
    BY <1>1, <1>2, <1>3, ConstantsAssumption
  <2>2. QED
    BY <1>1, <1>2, <1>3, <2>1 DEF TrackMoves, TrackAfter
<1>4. CASE /\ UNCHANGED <<dll, loader, registered>>
           /\ \A u \in Thread \ {t} : call'[u] = call[u]
           /\ ~Leaving(call'[t])
  <2>1. loader # NoThread => loader \in Thread \ {t}
    BY DEF TypeOK
  <2>2. TrackAfter
    <3>1. \A u \in Thread \ {loader'} : Mute(call'[u]) /\ ~Leaving(call'[u])
      BY <1>1, <1>2, <1>4
    <3>2. loader' # NoThread =>
            /\ Loading(call'[loader'], modules')
            /\ registered' \/ call'[loader'].pc = "unlockLoader"
      BY <1>1, <1>2, <1>4, <2>1
    <3>3. QED
      BY <1>1, <1>2, <1>4, <3>1, <3>2 DEF TrackAfter
  <2>3. LoaderCall' = LoaderCall /\ Reported' = Reported
    BY <1>2, <1>4, <2>1 DEF LoaderCall, Reported
  <2>4. ASSUME NEW early \in {Unwritten, EmitPC}
        PROVE  TakenMoves(early)
    <3>1. Taken(early)' = Taken(early)
      BY <2>3 DEF Taken
    <3>2. NonePasses(early)
      BY <1>1, <1>4, EarlyLabels DEF NonePasses, Mute
    <3>3. Deaf => Deaf'
      BY <1>4 DEF Deaf
    <3>4. QED
      BY <1>2, <3>1, <3>2, <3>3 DEF TakenMoves
  <2>5. QED
    BY <2>2, <2>4 DEF TrackMoves
<1>5. QED
  BY <1>2, <1>3, <1>4

LEMMA TrackStep ==
  ASSUME TypeOK, AloneInv, SoloInv, TrackInv, env, [Next]_vars
  PROVE  TrackMoves
<1> USE DEF lifeVars, moduleVars
<1>1. CASE UNCHANGED vars \/ LauncherActs
  <2>1. UNCHANGED <<dll, loader, modules, capture, started, registered, missed, call>>
    BY <1>1 DEF vars, LauncherActs, ServerCloses, ServerReads
  <2>2. TrackAfter
    BY <2>1 DEF TrackInv, TrackAfter
  <2>3. ASSUME NEW early \in {Unwritten, EmitPC}
        PROVE  TakenMoves(early)
    <3>1. Taken(early)' = Taken(early) /\ NonePasses(early)
      BY <2>1 DEF Taken, LoaderCall, Reported, NonePasses
    <3>2. Deaf' = Deaf
      BY <2>1 DEF Deaf
    <3>3. QED
      BY <2>1, <3>1, <3>2 DEF TakenMoves
  <2>4. QED
    BY <2>2, <2>3 DEF TrackMoves
<1>2. ASSUME NEW t \in Thread, Attach(t)
      PROVE  TrackMoves
  <2> DEFINE f == [Idle EXCEPT !.op = "attach", !.pc = "connect"]
  <2>1. f.op = "attach" /\ f.pc = "connect" /\ f.todo = {}
    BY DEF Idle
  <2>2. /\ dll = "out" /\ dll' = "attach" /\ loader' = t /\ loader = NoThread /\ capture' = env
        /\ UNCHANGED <<modules, started, registered, missed>> /\ Become(t, f)
    BY <1>2 DEF Attach
  <2> HIDE DEF f
  <2>3. ~started /\ call'[t] = f /\ t # NoThread
    BY <2>2, BecomeKeeps, ConstantsAssumption DEF TrackInv
  <2>4. TrackAfter
    BY <2>1, <2>2, <2>3 DEF TrackAfter, BeforeTracking
  <2>5. LoaderCall = Idle /\ LoaderCall' = f /\ Reported' = Reported
    BY <2>2, <2>3 DEF LoaderCall, Reported
  <2>6. \A u \in Thread : call[u].pc \in EmitPC => call[u].ev.module = NoModule
    BY <2>2, IdleFacts, EarlyLabels DEF AloneInv
  <2>a. ~Deaf
    BY <2>2 DEF Deaf
  <2>7. TakenMoves(Unwritten) /\ TakenMoves(EmitPC)
    BY <2>a, <2>2, <2>1, <2>5, <2>6, TakenStays, EarlyLabels, IdleFacts
  <2>8. QED
    BY <2>4, <2>7 DEF TrackMoves
<1>3. CASE dll = "attach"
  BY <1>1, <1>3, AttachMoves, AttachTracks
<1>4. ASSUME NEW t \in Thread, Environment(t) \/ Continue(t), dll = "in"
      PROVE  TrackMoves
  <2>1. ~Attach(t)
    BY <1>4 DEF Attach
  <2>2. CASE \E m \in Module : LoadModule(t, m) \/ UnloadModule(t, m)
    BY <1>4, <2>2, ModuleMoves
  <2>3. CASE t = loader
    BY <1>4, <2>3, LoadingTracks
  <2>4. CASE t # loader /\ \A m \in Module : ~LoadModule(t, m) /\ ~UnloadModule(t, m)
    BY <1>4, <2>1, <2>4, OtherTracks
  <2>5. QED
    BY <2>2, <2>3, <2>4
<1>5. ASSUME NEW t \in Thread, Environment(t) \/ Continue(t), dll \notin {"out", "attach", "in"}
      PROVE  TrackMoves
  <2>1. ~Attach(t) /\ \A m \in Module : ~LoadModule(t, m) /\ ~UnloadModule(t, m)
    BY <1>5 DEF Attach, LoadModule, UnloadModule
  <2>2. started /\ \A u \in Thread : Mute(call[u])
    BY <1>5 DEF TrackInv
  <2>3. /\ UNCHANGED started /\ \A u \in Thread : Mute(call'[u])
        /\ dll' = dll \/ dll' = "gone"
    BY <1>5, <2>1, <2>2, MuteGoes
  <2>4. QED
    BY <1>5, <2>2, <2>3 DEF TrackMoves, TrackAfter
<1>6. QED
  BY <1>1, <1>2, <1>3, <1>4, <1>5, OutMoves DEF Next

-----------------------------------------------------------------------------
(* Whose step it is, and what it does to the messages *)

\* A step that is not the end of everything moves one thread.
LEMMA OneBecomes ==
  ASSUME TypeOK, NEW u \in Thread, Environment(u) \/ Continue(u), ~FaultOnUnmapped(u),
         ~CloseLogAtDetach(u), \A op \in {"detach", "exit"} : ~Detach(u, op)
  PROVE  \E f : Become(u, f)
<1>1. CASE Environment(u)
  BY <1>1 DEF Environment, Attach, ObjectEvent, StartLogging, StopLogging, LoadModule,
     UnloadModule, OnLdrNotification, Goto
<1>a. CASE SendHeader(u) \/ SendPayload(u)
  BY <1>a, SendGoes DEF Goto
<1>2. CASE SendCheck(u) \/ AppendCheck(u) \/ AppendLock(u) \/ WriteLine(u)
  BY <1>2 DEF SendCheck, AppendCheck, AppendLock, WriteLine, Goto, Resume
<1>3. CASE StartModuleTracking(u) \/ EmitModuleLoaded(u) \/ Register(u) \/ UnlockLoader(u)
           \/ Connect(u) \/ OpenAtAttach(u)
  BY <1>3 DEF StartModuleTracking, Enumerate, EmitModuleLoaded, Register, UnlockLoader, Connect,
     OpenAtAttach, Goto, Resume
<1>4. CASE LoadD3D12(u) \/ InstallExportHooks(u) \/ OpenAtStart(u) \/ CloseLog(u)
           \/ StopModuleTracking(u) \/ ClosePipeAtDetach(u)
  BY <1>4 DEF LoadD3D12, InstallExportHooks, OpenAtStart, CloseLog, StopModuleTracking,
     ClosePipeAtDetach, OnLdrNotification, Goto
<1>5. QED
  BY <1>1, <1>2, <1>3, <1>4, <1>a DEF Continue

LEMMA OwnStep ==
  ASSUME TypeOK, [Next]_vars, dll' \in {"attach", "in"}, NEW t \in Thread, call'[t] # call[t]
  PROVE  Environment(t) \/ Continue(t)
<1>1. UNCHANGED vars \/ LauncherActs => UNCHANGED call
  BY DEF vars, LauncherActs, ServerCloses, ServerReads
<1>2. PICK u \in Thread : Environment(u) \/ Continue(u)
  BY <1>1 DEF Next
<1>3. \E f : Become(u, f)
  <2>1. ASSUME \/ FaultOnUnmapped(u) \/ CloseLogAtDetach(u)
               \/ \E op \in {"detach", "exit"} : Detach(u, op)
        PROVE  FALSE
    BY <2>1 DEF FaultOnUnmapped, CloseLogAtDetach, Detach
  <2>2. QED
    BY <1>2, <2>1, OneBecomes
<1>4. t = u
  BY <1>3, BecomeKeeps
<1>5. QED
  BY <1>2, <1>4

LEMMA MessagesType ==
  ASSUME TypeOK
  PROVE  /\ Messages \in Seq(Event) /\ Len(Messages) = (Len(wire) + 1) \div 2
         /\ \A i \in 1..Len(Messages) : 2 * i - 1 \in 1..Len(wire) /\ Messages[i] = wire[2 * i - 1].ev
<1>1. wire \in Seq(Chunk) /\ Len(wire) \in Nat
  BY LenProperties DEF TypeOK
<1> DEFINE n == (Len(wire) + 1) \div 2
<1>2. n \in Nat /\ \A i \in 1..n : 2 * i - 1 \in 1..Len(wire)
  BY <1>1
<1>3. Messages = [i \in 1..n |-> wire[2 * i - 1].ev]
  BY DEF Messages
<1> HIDE DEF n
<1>4. \A i \in 1..n : wire[2 * i - 1].ev \in Event
  <2>1. \A i \in 1..Len(wire) : wire[i] \in Chunk
    BY <1>1, ElementOfSeq
  <2>2. QED
    BY <1>2, <2>1 DEF Chunk
<1>5. Messages \in Seq(Event) /\ Len(Messages) = n
  BY <1>2, <1>3, <1>4
<1>6. QED
  BY <1>2, <1>3, <1>5 DEF n

\* A header is a message, a payload is none.
LEMMA MessagesStep ==
  ASSUME TypeOK, NEW c \in Chunk, wire' = Append(wire, c)
  PROVE  Messages' = IF Odd(Len(wire)) THEN Messages ELSE Append(Messages, c.ev)
<1>1. wire \in Seq(Chunk) /\ Len(wire) \in Nat
  BY LenProperties DEF TypeOK
<1>2. /\ Len(wire') = Len(wire) + 1 /\ wire'[Len(wire) + 1] = c
      /\ \A i \in 1..Len(wire) : wire'[i] = wire[i]
  BY <1>1, AppendProperties
<1> DEFINE n == (Len(wire) + 1) \div 2
           n1 == (Len(wire) + 2) \div 2
<1>3. /\ n \in Nat /\ n1 \in Nat
      /\ Odd(Len(wire)) => n1 = n
      /\ ~Odd(Len(wire)) => n1 = n + 1 /\ 2 * n1 - 1 = Len(wire) + 1
  BY <1>1 DEF Odd
<1>4. /\ Messages \in Seq(Event) /\ Len(Messages) = n
      /\ \A i \in 1..n : 2 * i - 1 \in 1..Len(wire) /\ Messages[i] = wire[2 * i - 1].ev
  BY MessagesType
<1>5. (Len(wire') + 1) \div 2 = n1
  BY <1>1, <1>2
<1>6. Messages' = [i \in 1..n1 |-> wire'[2 * i - 1].ev]
  BY <1>5 DEF Messages
<1>7. Messages = [i \in 1..n |-> wire[2 * i - 1].ev]
  BY DEF Messages
<1> HIDE DEF n, n1
<1>8. CASE Odd(Len(wire))
  <2>1. \A i \in 1..n : wire'[2 * i - 1].ev = wire[2 * i - 1].ev
    BY <1>2, <1>4
  <2>2. QED
    BY <1>3, <1>6, <1>7, <1>8, <2>1
<1>9. CASE ~Odd(Len(wire))
  <2>1. c.ev \in Event
    BY DEF Chunk
  <2> DEFINE x == Append(Messages, c.ev)
  <2>2. /\ x \in Seq(Event) /\ Len(x) = n + 1 /\ x[n + 1] = c.ev
        /\ \A i \in 1..n : x[i] = Messages[i]
    BY <1>4, <2>1, AppendProperties
  <2> HIDE DEF x
  <2>3. \A i \in 1..n1 : wire'[2 * i - 1].ev = x[i]
    <3>1. \A i \in 1..n : wire'[2 * i - 1].ev = x[i]
      BY <1>2, <1>4, <2>2
    <3>2. wire'[2 * n1 - 1].ev = x[n1]
      BY <1>2, <1>3, <1>9, <2>2
    <3>3. QED
      BY <1>3, <1>9, <3>1, <3>2
  <2>4. x = [i \in 1..n1 |-> x[i]]
    BY <1>3, <1>9, <2>2
  <2>5. Messages' = x
    BY <1>6, <2>3, <2>4
  <2>6. QED
    BY <1>9, <2>5 DEF x
<1>10. QED
  BY <1>8, <1>9

\* What happens to the pipe that a reader of its messages can tell.
LEMMA MessagesKind ==
  ASSUME Inv, [Next]_vars
  PROVE  \/ /\ Messages' = Messages
            /\ CanWrite' => CanWrite \/ \E t \in Thread : Connect(t)
            /\ CanWrite' => \A t \in Thread : SendHeader(t) => UNCHANGED call
         \/ \E t \in Thread :
              /\ CanWrite /\ SendHeader(t) /\ WriteHeader(t)
              /\ Messages' = Append(Messages, call[t].ev)
<1>1. TypeOK /\ CallInv
  BY DEF Inv
<1>2. ASSUME UNCHANGED wire, CanWrite' => CanWrite \/ \E t \in Thread : Connect(t)
      PROVE  /\ Messages' = Messages
             /\ CanWrite' => \A t \in Thread : SendHeader(t) => UNCHANGED call
  <2>1. Messages' = Messages
    BY <1>2 DEF Messages
  <2>2. ASSUME NEW t \in Thread, SendHeader(t), CanWrite'
        PROVE  UNCHANGED call
    <3>1. ASSUME NEW part \in {"header", "payload"},
                 wire' = Append(wire, [part |-> part, ev |-> call[t].ev])
          PROVE  FALSE
      <4>1. [part |-> part, ev |-> call[t].ev] \in Chunk
        BY <1>1 DEF TypeOK, Frame, Chunk
      <4>2. wire \in Seq(Chunk) /\ Len(wire) \in Nat
        BY <1>1, LenProperties DEF TypeOK
      <4>3. Len(wire') = Len(wire) + 1
        BY <3>1, <4>1, <4>2, AppendProperties
      <4>4. QED
        BY <1>2, <4>2, <4>3
    <3>2. QED
      BY <1>1, <2>2, <3>1, SendGoes
  <2>3. QED
    BY <2>1, <2>2
<1>3. ASSUME NEW t \in Thread, CanWrite, SendHeader(t) \/ SendPayload(t),
             NEW c \in Chunk, c.ev = call[t].ev, wire' = Append(wire, c)
      PROVE  \/ SendHeader(t) /\ WriteHeader(t) /\ Messages' = Append(Messages, call[t].ev)
             \/ Messages' = Messages /\ CanWrite /\ SendPayload(t)
  <2>1. CASE SendHeader(t)
    <3>1. ~Odd(Len(wire))
      <4>1. pipe_mu \in {NoThread, t} /\ call[t].pc = "header" /\ pipe_
        BY <1>3, <2>1 DEF SendHeader, CanWrite
      <4>2. QED
        BY <4>1 DEF Inv, FramingInv
    <3>2. WriteHeader(t)
      <4>1. wire \in Seq(Chunk) /\ Len(wire) \in Nat
        BY <1>1, LenProperties DEF TypeOK
      <4>2. Len(wire') = Len(wire) + 1
        BY <1>3, <4>1, AppendProperties
      <4>3. wire' # wire
        BY <4>1, <4>2
      <4>4. QED
        BY <1>3, <2>1, <4>3 DEF SendHeader, WaitForReader, WriteFails
    <3>3. QED
      BY <1>1, <1>3, <2>1, <3>1, <3>2, MessagesStep
  <2>2. CASE SendPayload(t)
    <3>1. Odd(Len(wire))
      BY <2>2 DEF Inv, FramingInv, SendPayload
    <3>2. QED
      BY <1>1, <1>3, <2>2, <3>1, MessagesStep
  <2>3. QED
    BY <1>3, <2>1, <2>2
<1>4. ASSUME NEW t \in Thread, SendPayload(t), CanWrite
      PROVE  \A u \in Thread : ~SendHeader(u)
  <2>1. pipe_mu = t /\ t # NoThread /\ call[t].pc # "header"
    BY <1>4, ConstantsAssumption DEF Inv, FramingInv, SendPayload
  <2>2. QED
    BY <2>1 DEF SendHeader
<1>5. QED
  BY <1>1, <1>2, <1>3, <1>4, WireKind

-----------------------------------------------------------------------------
(* The streams follow *)

\* Follows for the next state, with its stream written out.
FollowsAfter(x, early) ==
  \/ Deaf'
  \/ /\ ModulesIn(x) = Taken(early)' \cap Named(x)
     /\ Taken(early)' \ missed' \subseteq Named(x)

\* TakenMoves where no event about a module passes.
TakenRests(early) ==
  \/ Deaf'
  \/ /\ ~Deaf
     /\ \/ Taken(early)' = Taken(early) /\ UNCHANGED missed
        \/ ~started /\ Taken(early)' \subseteq missed'

\* Nothing about a module is added and none is pending any longer.
LEMMA FollowsOn ==
  ASSUME NEW s, NEW x, NEW early, Follows(s, early), ~started => Named(s) = {},
         TakenRests(early), Named(x) = Named(s), ModulesIn(x) = ModulesIn(s)
  PROVE  FollowsAfter(x, early)
<1>1. ASSUME ~Deaf, Taken(early)' = Taken(early), UNCHANGED missed
      PROVE  FollowsAfter(x, early)
  BY <1>1 DEF Follows, FollowsAfter
<1>2. ASSUME ~started, ~Deaf, Taken(early)' \subseteq missed'
      PROVE  FollowsAfter(x, early)
  BY <1>2 DEF Follows, FollowsAfter
<1>3. QED
  BY <1>1, <1>2 DEF TakenRests, FollowsAfter

\* The pending event is added.
LEMMA FollowsEvent ==
  ASSUME NEW s \in Seq(Event), NEW early, Sound(s, missed), Follows(s, early), ~Deaf,
         UNCHANGED missed, NEW m \in Module, NEW k \in {"module_loaded", "module_unloaded"},
         \/ k = "module_loaded" /\ m \notin Taken(early) /\ Taken(early)' = Taken(early) \cup {m}
         \/ k = "module_unloaded" /\ m \in Taken(early) /\ Taken(early)' = Taken(early) \ {m}
  PROVE  /\ Sound(Append(s, ModuleEvent(k, m)), missed')
         /\ FollowsAfter(Append(s, ModuleEvent(k, m)), early)
<1> DEFINE x == Append(s, ModuleEvent(k, m))
<1>1. /\ Named(x) = Named(s) \cup {m}
      /\ ModulesIn(x) = IF k = "module_loaded" THEN ModulesIn(s) \cup {m} ELSE ModulesIn(s) \ {m}
  BY ModuleAdded
<1>a. PICK ms : ms = missed
  OBVIOUS
<1>2. Sound(x, ms)
  <2>1. k = "module_loaded" => m \notin ModulesIn(s)
    BY DEF Follows
  <2>2. k = "module_unloaded" => m \in ModulesIn(s) \/ (m \notin Named(s) /\ m \in ms)
    BY <1>a DEF Follows
  <2>3. Sound(s, ms)
    BY <1>a
  <2>4. QED
    BY <2>1, <2>2, <2>3, SoundAdded
<1> HIDE DEF x
<1>3. FollowsAfter(x, early)
  BY <1>1 DEF Follows, FollowsAfter
<1>4. QED
  BY <1>2, <1>3, <1>a DEF x

\* A thread that is past Unwritten has written its header or found no pipe.
LEMMA PassesPipe ==
  ASSUME TypeOK, [Next]_vars, dll' \in {"attach", "in"}, NEW t \in Thread,
         call[t].pc \in Unwritten, call'[t].pc \notin Unwritten
  PROVE  SendHeader(t) \/ ~CanWrite'
<1>1. call'[t] # call[t]
  OBVIOUS
<1>2. Environment(t) \/ Continue(t)
  BY <1>1, OwnStep
<1>3. call[t] # Idle
  BY IdleFacts, EarlyLabels
<1>4. Continue(t)
  BY <1>2, <1>3, EnvironmentIdle
<1>5. SendCheck(t) \/ SendHeader(t)
  BY <1>4 DEF Unwritten, Continue, SendPayload, AppendCheck, AppendLock, WriteLine,
     StartModuleTracking, EmitModuleLoaded, FaultOnUnmapped, Register, UnlockLoader, Connect,
     OpenAtAttach, LoadD3D12, InstallExportHooks, OpenAtStart, CloseLog, StopModuleTracking,
     ClosePipeAtDetach, CloseLogAtDetach
<1>6. CASE SendCheck(t)
  <2>1. CASE pipe_
    <3>1. Goto(t, "header")
      BY <1>6, <2>1 DEF SendCheck
    <3>2. QED
      BY <3>1, GotoKeeps DEF Unwritten
  <2>2. CASE ~pipe_
    BY <1>6, <2>2 DEF SendCheck, CanWrite, pipeVars
  <2>3. QED
    BY <2>1, <2>2
<1>7. QED
  BY <1>5, <1>6

\* A thread that is past EmitPC has written its line or found no log.
LEMMA PassesLog ==
  ASSUME TypeOK, [Next]_vars, dll' \in {"attach", "in"}, NEW t \in Thread,
         call[t].pc \in EmitPC, call'[t].pc \notin EmitPC
  PROVE  WriteLine(t) \/ file_' = 0
<1>1. call'[t] # call[t]
  OBVIOUS
<1>2. Environment(t) \/ Continue(t)
  BY <1>1, OwnStep
<1>3. call[t] # Idle
  BY IdleFacts, EarlyLabels
<1>4. Continue(t)
  BY <1>2, <1>3, EnvironmentIdle
<1>5. \/ SendCheck(t) \/ SendHeader(t) \/ SendPayload(t) \/ AppendLock(t)
      \/ AppendCheck(t) \/ WriteLine(t)
  BY <1>4 DEF EmitPC, Continue,
     StartModuleTracking, EmitModuleLoaded, FaultOnUnmapped, Register, UnlockLoader, Connect,
     OpenAtAttach, LoadD3D12, InstallExportHooks, OpenAtStart, CloseLog, StopModuleTracking,
     ClosePipeAtDetach, CloseLogAtDetach
<1>6. ASSUME NEW p \in EmitPC, Goto(t, p)
      PROVE  FALSE
  BY <1>6, GotoKeeps
<1>a. CASE SendHeader(t) \/ SendPayload(t)
  BY <1>6, <1>a, SendGoes DEF EmitPC
<1>7. CASE SendCheck(t) \/ AppendLock(t)
  BY <1>6, <1>7 DEF SendCheck, AppendLock, EmitPC
<1>8. CASE AppendCheck(t)
  BY <1>6, <1>8 DEF AppendCheck, EmitPC, logVars
<1>9. QED
  BY <1>5, <1>7, <1>8, <1>a

\* Who reports, holds the loader lock.
LEMMA ReporterHolds ==
  ASSUME TypeOK, AloneInv, SoloInv, TrackInv, NEW t \in Thread,
         call[t].pc \in EmitPC, call[t].ev.module # NoModule
  PROVE  /\ t = loader /\ dll \in {"attach", "in"} /\ started
         /\ \E m \in Module : \E k \in {"module_loaded", "module_unloaded"} :
              call[t].ev = ModuleEvent(k, m)
<1>1. ~Mute(call[t])
  BY DEF Mute
<1>2. call[t].pc # "idle"
  BY EarlyLabels
<1>3. dll \in {"attach", "in"} /\ t = loader
  BY <1>1, <1>2, IdleFacts DEF TrackInv, AloneInv, SoloInv, TypeOK
<1>4. t # NoThread
  BY ConstantsAssumption
<1>5. Reporting(call[t], modules) /\ started
  BY <1>3, <1>4, EarlyLabels
  DEF TrackInv, Loading, BeforeTracking, Enumerating, Registered
<1>6. QED
  BY <1>3, <1>5 DEF Reporting

LEMMA StartedStays ==
  ASSUME [Next]_vars
  PROVE  /\ env' = env /\ (started => started') /\ (started => missed' = missed)
         /\ missed' = missed \/ started'
<1>1. CASE UNCHANGED vars \/ LauncherActs
  BY <1>1 DEF vars, lifeVars, moduleVars, LauncherActs, ServerCloses, ServerReads
<1>2. ASSUME NEW t \in Thread, Environment(t)
      PROVE  env' = env /\ started' = started /\ missed' = missed
  BY <1>2 DEF Environment, Attach, ObjectEvent, StartLogging, StopLogging, LoadModule,
     UnloadModule, Detach, lifeVars, moduleVars
<1>3. ASSUME NEW t \in Thread, Continue(t)
      PROVE  /\ env' = env /\ (started => started') /\ (started => missed' = missed)
             /\ missed' = missed \/ started'
  <2>1. CASE \/ SendCheck(t) \/ SendHeader(t) \/ SendPayload(t) \/ AppendCheck(t)
             \/ AppendLock(t) \/ WriteLine(t) \/ EmitModuleLoaded(t)
    BY <2>1 DEF SendCheck, SendHeader, SendPayload, AppendCheck, AppendLock, WriteLine,
       EmitModuleLoaded, lifeVars, moduleVars
  <2>5. CASE StartModuleTracking(t)
    <3>1. env' = env /\ (\/ started' = TRUE /\ ~started
                         \/ started' = started /\ missed' = missed)
      BY <2>5 DEF StartModuleTracking, lifeVars
    <3>2. QED
      BY <3>1
  <2>2. CASE \/ FaultOnUnmapped(t) \/ Register(t) \/ UnlockLoader(t) \/ Connect(t)
             \/ OpenAtAttach(t) \/ LoadD3D12(t)
    BY <2>2 DEF FaultOnUnmapped, Register, UnlockLoader, Connect, OpenAtAttach, LoadD3D12,
       lifeVars, moduleVars
  <2>3. CASE \/ InstallExportHooks(t) \/ OpenAtStart(t) \/ CloseLog(t) \/ StopModuleTracking(t)
             \/ ClosePipeAtDetach(t) \/ CloseLogAtDetach(t)
    BY <2>3 DEF InstallExportHooks, OpenAtStart, CloseLog, StopModuleTracking,
       ClosePipeAtDetach, CloseLogAtDetach, lifeVars, moduleVars
  <2>4. QED
    BY <1>3, <2>1, <2>2, <2>3, <2>5 DEF Continue
<1>4. QED
  BY <1>1, <1>2, <1>3 DEF Next

\* Once OnDetach has begun the DLL does not come back.
LEMMA NeverBack ==
  ASSUME TypeOK, TrackInv, dll \notin {"out", "attach", "in"}, [Next]_vars
  PROVE  dll' \notin {"out", "attach", "in"}
<1>1. CASE UNCHANGED vars \/ LauncherActs
  BY <1>1 DEF vars, lifeVars, LauncherActs, ServerCloses, ServerReads
<1>2. ASSUME NEW t \in Thread, Environment(t) \/ Continue(t)
      PROVE  dll' \notin {"out", "attach", "in"}
  <2>1. ~Attach(t) /\ \A m \in Module : ~LoadModule(t, m) /\ ~UnloadModule(t, m)
    BY DEF Attach, LoadModule, UnloadModule
  <2>2. started /\ Mute(call[t])
    BY DEF TrackInv
  <2>3. dll' = dll \/ dll' = "gone"
    BY <1>2, <2>1, <2>2, MuteGoes
  <2>4. QED
    BY <2>3
<1>3. QED
  BY <1>1, <1>2 DEF Next

\* Before the enumeration nothing is taken for mapped.
LEMMA TakenNone ==
  ASSUME TypeOK, SoloInv, TrackInv, dll = "attach", call[loader].pc \in {"connect", "open"},
         dll' = "attach", loader' = loader, UNCHANGED started,
         NEW early \in {Unwritten, EmitPC},
         call'[loader].pc \notin early \/ call'[loader].ev.module \notin Module
  PROVE  ~started' /\ Taken(early)' = {}
<1>1. loader \in Thread /\ loader # NoThread
  BY ConstantsAssumption DEF SoloInv
<1>2. ~started
  BY EarlyLabels DEF TrackInv, BeforeTracking, Enumerating, Registered, Reporting
<1>3. LoaderCall' = call'[loader] /\ Reported' = {}
  BY <1>1, <1>2 DEF LoaderCall, Reported
<1>4. QED
  BY <1>2, <1>3 DEF Taken

LEMMA EmptyFollows ==
  ASSUME NEW early, Taken(early)' = {}
  PROVE  Named(<<>>) = {} /\ (\A ms : Sound(<<>>, ms)) /\ FollowsAfter(<<>>, early)
<1>1. Named(<<>>) = {} /\ ModulesIn(<<>>) = {}
  BY DEF Named, ModulesIn
<1>2. \A ms : Sound(<<>>, ms)
  BY DEF Sound, Alternates, Founded
<1>3. QED
  BY <1>1, <1>2 DEF FollowsAfter

LEMMA PipeStays ==
  ASSUME Inv, SoloInv, HelloInv, TrackInv, env, TrackMoves, PipeFollows, [Next]_vars
  PROVE  PipeFollows'
<1>1. /\ TypeOK /\ AloneInv /\ Messages \in Seq(Event) /\ (started => started')
      /\ missed' = missed \/ (~started /\ started')
  BY MessagesType, StartedStays DEF Inv
<1> DEFINE Tracking == dll \in {"attach", "in"}
<1> DEFINE Goal == /\ Sound(Messages', missed')
                   /\ ~started' => Named(Messages') = {}
                   /\ dll' \in {"attach", "in"} /\ CanWrite' => FollowsAfter(Messages', Unwritten)
<1>2. SUFFICES Goal
  BY DEF PipeFollows, FollowsAfter, Follows, Sound, Alternates, Founded, Named, ModulesIn
<1>a. PICK ms, ns : ms = missed /\ ns = missed'
  OBVIOUS
<1>b. ASSUME NEW s, Sound(s, ms), ~started => Named(s) = {}
      PROVE  Sound(s, ns)
  BY <1>1, <1>a, <1>b, SoundOn
<1>3. ASSUME NEW t \in Thread, CanWrite, SendHeader(t), WriteHeader(t),
             Messages' = Append(Messages, call[t].ev)
      PROVE  Goal
  <2>1. /\ call[t].pc = "header" /\ UNCHANGED <<dll, loader, started>>
        /\ call'[t].pc = "payload" /\ call[t].ev \in Event
    <3>1. call[t].pc = "header" /\ UNCHANGED <<dll, loader, started>> /\ Goto(t, "payload")
      BY <1>3 DEF SendHeader, WriteHeader, lifeVars, moduleVars
    <3>2. QED
      BY <1>1, <3>1, GotoKeeps DEF TypeOK, Frame
  <2>2. call[t].pc \in Unwritten /\ call[t].pc \in EmitPC /\ call'[t].pc \notin Unwritten
    BY <2>1 DEF Unwritten, EmitPC
  <2>3. /\ Sound(Messages, ms) /\ (~started => Named(Messages) = {})
        /\ Tracking => Follows(Messages, Unwritten)
    BY <1>3, <1>a DEF PipeFollows
  <2>4. CASE call[t].ev.module = NoModule
    <3> DEFINE x == Messages'
    <3>1. Named(x) = Named(Messages) /\ ModulesIn(x) = ModulesIn(Messages) /\ Sound(x, ms)
      BY <1>1, <1>3, <2>1, <2>3, <2>4, PlainAdded
    <3> HIDE DEF x
    <3>a. Sound(x, ns) /\ (~started' => Named(x) = {})
      BY <1>1, <1>b, <2>3, <3>1
    <3>2. ASSUME dll' \in {"attach", "in"}
          PROVE  FollowsAfter(x, Unwritten)
      <4>1. TakenMoves(Unwritten)
        BY <3>2 DEF TrackMoves
      <4>2. \A m \in Module : \A k \in {"module_loaded", "module_unloaded"} :
              call[t].ev # ModuleEvent(k, m)
        BY <2>4, ModuleEventFacts, ConstantsAssumption
      <4>3. \A u \in Thread \ {t} : call'[u] = call[u]
        BY <1>1, <1>3, GotoKeeps DEF WriteHeader
      <4>4. TakenRests(Unwritten)
        BY <4>1, <4>2, <4>3 DEF TakenMoves, TakenRests
      <4>5. Follows(Messages, Unwritten)
        BY <2>1, <2>3, <3>2
      <4>6. QED
        BY <2>3, <3>1, <4>4, <4>5, FollowsOn
    <3>3. QED
      BY <1>a, <3>a, <3>2 DEF x
  <2>5. CASE call[t].ev.module # NoModule
    <3>1. t = loader /\ dll \in {"attach", "in"} /\ started
      BY <1>1, <2>2, <2>5, ReporterHolds
    <3>2. TakenMoves(Unwritten) /\ ~NonePasses(Unwritten)
      BY <2>1, <2>2, <2>5, <3>1 DEF TrackMoves, NonePasses
    <3>b. ~Deaf /\ UNCHANGED missed
      BY <3>1, <3>2 DEF TakenMoves
    <3>3. PICK m \in Module :
            \/ /\ call[loader].ev = ModuleEvent("module_loaded", m)
               /\ m \notin Taken(Unwritten) /\ Taken(Unwritten)' = Taken(Unwritten) \cup {m}
            \/ /\ call[loader].ev = ModuleEvent("module_unloaded", m)
               /\ m \in Taken(Unwritten) /\ Taken(Unwritten)' = Taken(Unwritten) \ {m}
      BY <3>2 DEF TakenMoves
    <3>4. PICK k \in {"module_loaded", "module_unloaded"} :
            /\ call[t].ev = ModuleEvent(k, m)
            /\ \/ /\ k = "module_loaded" /\ m \notin Taken(Unwritten)
                  /\ Taken(Unwritten)' = Taken(Unwritten) \cup {m}
               \/ /\ k = "module_unloaded" /\ m \in Taken(Unwritten)
                  /\ Taken(Unwritten)' = Taken(Unwritten) \ {m}
      BY <3>1, <3>3
    <3>5. Follows(Messages, Unwritten) /\ started'
      BY <1>1, <2>3, <3>1
    <3>6. /\ Sound(Append(Messages, ModuleEvent(k, m)), missed')
          /\ FollowsAfter(Append(Messages, ModuleEvent(k, m)), Unwritten)
      BY <1>1, <1>a, <2>3, <3>4, <3>5, <3>b, FollowsEvent
    <3>7. Messages' = Append(Messages, ModuleEvent(k, m))
      BY <1>3, <3>4
    <3>8. QED
      BY <3>5, <3>6, <3>7
  <2>6. QED
    BY <2>4, <2>5
<1>4. ASSUME Messages' = Messages,
             CanWrite' => CanWrite \/ \E t \in Thread : Connect(t),
             CanWrite' => \A t \in Thread : SendHeader(t) => UNCHANGED call
      PROVE  Goal
  <2>1. Sound(Messages', missed') /\ (~started' => Named(Messages') = {})
    <3>1. Sound(Messages, ms) /\ (~started => Named(Messages) = {})
      BY <1>a DEF PipeFollows
    <3>2. Sound(Messages, ns)
      BY <1>b, <3>1
    <3>3. QED
      BY <1>1, <1>4, <1>a, <3>1, <3>2
  <2>2. ASSUME dll' \in {"attach", "in"}, CanWrite', NEW t \in Thread, Connect(t)
        PROVE  FollowsAfter(Messages', Unwritten)
    <3>1. call[t].pc = "connect" /\ UNCHANGED <<dll, loader, started>> /\ Goto(t, "open")
      BY <2>2 DEF Connect, lifeVars, moduleVars
    <3>2. dll = "attach" /\ t = loader
      BY <1>1, <3>1, IdleFacts DEF AloneInv, SoloInv
    <3>3. call'[t].pc \notin Unwritten
      BY <1>1, <3>1, GotoKeeps, EarlyLabels
    <3>4. Taken(Unwritten)' = {}
      BY <1>1, <3>1, <3>2, <3>3, TakenNone
    <3>5. Len(wire) = 0
      BY <3>1, <3>2 DEF HelloInv, Unopened
    <3>6. Messages = <<>>
      <4>1. Len(Messages) = 0
        BY <1>1, <3>5, MessagesType
      <4>2. QED
        BY <1>1, <4>1, EmptySeq
    <3>7. QED
      BY <1>4, <3>4, <3>6, EmptyFollows
  <2>3. ASSUME dll' \in {"attach", "in"}, CanWrite', \A t \in Thread : ~Connect(t)
        PROVE  FollowsAfter(Messages', Unwritten)
    <3>1. CanWrite
      BY <1>4, <2>3
    <3>2. dll \in {"attach", "in"}
      <4>1. ~(dll = "out")
        BY <1>1, <3>1 DEF AloneInv, Fresh, CanWrite
      <4>2. dll \notin {"out", "attach", "in"} => dll' \notin {"out", "attach", "in"}
        BY <1>1, NeverBack
      <4>3. QED
        BY <2>3, <4>1, <4>2
    <3>3. Follows(Messages, Unwritten)
      BY <3>1, <3>2 DEF PipeFollows
    <3>4. TakenMoves(Unwritten)
      BY <2>3 DEF TrackMoves
    <3>5. ~(loader \in Thread /\ call[loader].pc \in Unwritten /\ call'[loader].pc \notin Unwritten)
      BY <1>1, <1>4, <2>3, PassesPipe
    <3>6. TakenRests(Unwritten)
      BY <3>4, <3>5 DEF TakenMoves, TakenRests
    <3>a. ~started => Named(Messages) = {}
      BY DEF PipeFollows
    <3> DEFINE x == Messages'
    <3>7. Named(x) = Named(Messages) /\ ModulesIn(x) = ModulesIn(Messages)
      BY <1>4
    <3> HIDE DEF x
    <3>8. FollowsAfter(x, Unwritten)
      BY <3>3, <3>6, <3>7, <3>a, FollowsOn
    <3>9. QED
      BY <3>8 DEF x
  <2>4. QED
    BY <2>1, <2>2, <2>3
<1>5. QED
  BY <1>3, <1>4, MessagesKind

-----------------------------------------------------------------------------
(* The logs follow *)

\* Who has opened the files and what is in them does not change, but for a line.
LEMMA LineFacts ==
  ASSUME FilesOK, file_ # 0, NEW e \in Event,
         files' = [files EXCEPT ![file_].lines = Append(@, e)]
  PROVE  /\ Len(files') = Len(files) /\ Len(files) \in Nat
         /\ \A j \in 1..Len(files) :
              /\ files'[j].by = files[j].by /\ files'[j].lost = files[j].lost
              /\ files'[j].lines = IF j = file_ THEN Append(files[j].lines, e) ELSE files[j].lines
<1> DEFINE l == files[file_].lines
           w == [files[file_] EXCEPT !.lines = Append(@, e)]
<1>1. Len(files) \in Nat /\ file_ \in 1..Len(files)
  BY LenProperties DEF FilesOK
<1>2. files[file_] \in File /\ l \in Seq(Event)
  BY <1>1, FileTypes
<1>3. w \in File /\ w.by = files[file_].by /\ w.lines = Append(l, e)
      /\ w.lost = files[file_].lost
  <2>1. Append(l, e) \in Seq(Event)
    BY <1>2, AppendProperties
  <2>2. w = [files[file_] EXCEPT !.lines = Append(l, e)]
    OBVIOUS
  <2> HIDE DEF l, w
  <2>3. QED
    BY <1>2, <2>1, <2>2 DEF File
<1>4. files' = [files EXCEPT ![file_] = w]
  OBVIOUS
<1> HIDE DEF w, l
<1>5. /\ Len(files') = Len(files)
      /\ \A j \in 1..Len(files) : files'[j] = IF j = file_ THEN w ELSE files[j]
  <2>1. files \in Seq(File) /\ w \in File /\ file_ \in 1..Len(files)
    BY <1>1, <1>3 DEF FilesOK
  <2>2. /\ Len([files EXCEPT ![file_] = w]) = Len(files)
        /\ \A j \in 1..Len(files) :
             [files EXCEPT ![file_] = w][j] = IF j = file_ THEN w ELSE files[j]
    BY <2>1, ExceptSeq
  <2>3. QED
    BY <1>4, <2>2
<1>6. \A j \in 1..Len(files) : j = file_ => files[j].lines = l
  BY DEF l
<1>7. QED
  BY <1>1, <1>3, <1>5, <1>6

\* When a line is lost, what is in the files stays as it is.
LEMMA LossFacts ==
  ASSUME FilesOK, file_ # 0, NEW e \in Event,
         files' = [files EXCEPT ![file_].lost = @ \cup {e}]
  PROVE  /\ Len(files') = Len(files) /\ Len(files) \in Nat
         /\ \A j \in 1..Len(files) :
              /\ files'[j].by = files[j].by /\ files'[j].lines = files[j].lines
              /\ files'[j].lost = IF j = file_ THEN files[j].lost \cup {e} ELSE files[j].lost
<1> DEFINE w == [files[file_] EXCEPT !.lost = @ \cup {e}]
<1>1. Len(files) \in Nat /\ file_ \in 1..Len(files)
  BY LenProperties DEF FilesOK
<1>2. files[file_] \in File
  BY <1>1, FileTypes
<1>3. files[file_].lost \cup {e} \in SUBSET Event
  BY <1>2 DEF File
<1>4. /\ w \in File /\ w.by = files[file_].by /\ w.lines = files[file_].lines
      /\ w.lost = files[file_].lost \cup {e}
  BY <1>2, <1>3 DEF File
<1>5. files' = [files EXCEPT ![file_] = w]
  OBVIOUS
<1>6. files \in Seq(File) /\ w \in File
  BY <1>4 DEF FilesOK
<1> HIDE DEF w
<1>7. /\ Len(files') = Len(files)
      /\ \A j \in 1..Len(files) : files'[j] = IF j = file_ THEN w ELSE files[j]
  BY ONLY <1>1, <1>5, <1>6, ExceptSeq
<1>8. ASSUME NEW j \in 1..Len(files)
      PROVE  /\ files'[j].by = files[j].by /\ files'[j].lines = files[j].lines
             /\ files'[j].lost = IF j = file_ THEN files[j].lost \cup {e} ELSE files[j].lost
  <2>1. CASE j = file_
    BY <1>4, <1>7, <2>1
  <2>2. CASE j # file_
    BY <1>7, <2>2
  <2>3. QED
    BY <2>1, <2>2
<1>9. QED
  BY ONLY <1>1, <1>7, <1>8

LEMMA OpenFacts ==
  ASSUME FilesOK, NEW by \in {"attach", "start"}, OpenLog(by)
  PROVE  /\ Len(files) \in Nat
         /\ \A j \in 1..Len(files) : /\ files'[j].by = files[j].by /\ files'[j].lines = files[j].lines
                                   /\ files'[j].lost = files[j].lost
         /\ \/ Len(files') = Len(files) /\ file_' = 0
            \/ /\ Len(files') = Len(files) + 1 /\ file_' = Len(files')
               /\ files'[file_'].by = by /\ files'[file_'].lines = <<>>
               /\ files'[file_'].lost = {}
<1> DEFINE fs == CloseFile(files)
           new == NewFile(by)
<1>1. /\ fs \in Seq(File) /\ Len(fs) = Len(files) /\ Len(files) \in Nat
      /\ \A i \in 1..Len(files) : fs[i].by = files[i].by /\ fs[i].lines = files[i].lines
                                   /\ fs[i].lost = files[i].lost
  BY CloseFileLines, LenProperties DEF FilesOK
<1>2. new \in File /\ new.by = by /\ new.lines = <<>> /\ new.lost = {}
  BY DEF File, NewFile
<1>3. \/ files' = fs /\ file_' = 0
      \/ files' = Append(fs, new) /\ file_' = Len(files) + 1
  BY DEF OpenLog
<1> HIDE DEF fs, new
<1>4. /\ Len(Append(fs, new)) = Len(fs) + 1
      /\ \A i \in 1..Len(fs) : Append(fs, new)[i] = fs[i]
      /\ Append(fs, new)[Len(fs) + 1] = new
  BY <1>1, <1>2, AppendProperties
<1>5. QED
  BY <1>1, <1>2, <1>3, <1>4

\* A step that leaves the log alone.
LEMMA SameLog ==
  ASSUME TypeOK, AloneInv, SoloInv, HelloInv, TrackInv, env, TrackMoves, LogFollows, [Next]_vars,
         UNCHANGED <<file_, files>>, \A t \in Thread : ~WriteLine(t) \/ file_ = 0,
         NEW i \in 1..Len(files), files[i].by = "attach", Complete(files[i]),
         dll' \in {"attach", "in"}, i = file_
  PROVE  FollowsAfter(files[i].lines, EmitPC)
<1>1. Len(files) \in Nat
  BY LenProperties DEF TypeOK
<1>2. dll \in {"attach", "in"}
  <2>1. dll # "out"
    BY <1>1 DEF HelloInv, Unopened
  <2>2. QED
    BY <2>1, NeverBack
<1>3. Follows(files[i].lines, EmitPC) /\ (~started => Named(files[i].lines) = {})
  BY <1>2 DEF LogFollows
<1>4. file_ # 0
  BY <1>1
<1>5. ~(loader \in Thread /\ call[loader].pc \in EmitPC /\ call'[loader].pc \notin EmitPC)
  BY <1>4, PassesLog
<1>6. TakenMoves(EmitPC)
  BY DEF TrackMoves
<1>7. TakenRests(EmitPC)
  BY <1>5, <1>6 DEF TakenMoves, TakenRests
<1> DEFINE s == files[i].lines
<1>8. Follows(s, EmitPC) /\ (~started => Named(s) = {})
  BY <1>3
<1> HIDE DEF s
<1>9. FollowsAfter(s, EmitPC)
  BY <1>7, <1>8, FollowsOn
<1>10. QED
  BY <1>9 DEF s

\* A line is written to a log that OnAttach opened.
LEMMA LineFollows ==
  ASSUME TypeOK, AloneInv, SoloInv, HelloInv, TrackInv, env, TrackMoves, LogFollows, [Next]_vars,
         NEW t \in Thread, WriteLine(t), file_ # 0, files[file_].by = "attach",
         Complete(files[file_])
  PROVE  LET x == Append(files[file_].lines, call[t].ev) IN
         /\ Sound(x, missed') /\ (~started' => Named(x) = {})
         /\ dll' \in {"attach", "in"} => FollowsAfter(x, EmitPC)
<1> DEFINE s == files[file_].lines
           e == call[t].ev
           x == Append(s, e)
<1>1. FilesOK /\ Len(files) \in Nat /\ file_ \in 1..Len(files)
  BY LenProperties DEF TypeOK, FilesOK
<1>2. s \in Seq(Event) /\ e \in Event
  BY <1>1, FileTypes DEF TypeOK, Frame
<1>3. /\ call[t].pc = "line" /\ UNCHANGED <<dll, loader, started, missed>> /\ Resume(t, call[t].next)
  BY DEF WriteLine, lifeVars, moduleVars
<1>4. call[t].pc \in EmitPC
  BY <1>3 DEF EmitPC
<1>a. PICK ms : ms = missed
  OBVIOUS
<1>5. /\ Sound(s, ms) /\ (~started => Named(s) = {})
      /\ dll \in {"attach", "in"} => Follows(s, EmitPC)
  BY <1>1, <1>a DEF LogFollows
<1> HIDE DEF s
<1>6. \A u \in Thread \ {t} : call'[u] = call[u]
  BY <1>3, ResumeKeeps
<1>7. CASE e.module = NoModule
  <2>1. Named(x) = Named(s) /\ ModulesIn(x) = ModulesIn(s) /\ Sound(x, ms)
    BY <1>2, <1>5, <1>7, PlainAdded
  <2>2. ASSUME dll' \in {"attach", "in"}
        PROVE  FollowsAfter(x, EmitPC)
    <3>1. TakenMoves(EmitPC)
      BY <2>2 DEF TrackMoves
    <3>2. \A m \in Module : \A k \in {"module_loaded", "module_unloaded"} :
            call[t].ev # ModuleEvent(k, m)
      BY <1>7, ModuleEventFacts, ConstantsAssumption
    <3>3. TakenRests(EmitPC)
      BY <1>6, <3>1, <3>2 DEF TakenMoves, TakenRests
    <3>4. Follows(s, EmitPC) /\ (~started => Named(s) = {})
      BY <1>3, <1>5, <2>2
    <3> HIDE DEF x
    <3>5. QED
      BY <2>1, <3>3, <3>4, FollowsOn
  <2>3. QED
    BY <1>3, <1>5, <1>a, <2>1, <2>2 DEF s
<1>8. CASE e.module # NoModule
  <2>1. t = loader /\ dll \in {"attach", "in"} /\ started
    BY <1>4, <1>8, ReporterHolds
  <2>2. call'[t].pc \notin EmitPC
    <3>1. call'[t].pc = call[t].next
      <4> DEFINE p == call[t].next
      <4>1. Resume(t, p)
        BY <1>3
      <4> HIDE DEF p
      <4>2. call'[t].pc = p
        BY <4>1, ResumeKeeps
      <4>3. QED
        BY <4>2 DEF p
    <3>2. call[t].next \notin EmitPC
      <4>1. t # NoThread
        BY ConstantsAssumption
      <4>2. call[t].next \in {"track", "enum", "load", "unlockLoader"}
        BY <1>4, <2>1, <4>1, EarlyLabels
        DEF TrackInv, Loading, BeforeTracking, Enumerating, Registered
      <4>3. QED
        BY <4>2, EarlyLabels
    <3>3. QED
      BY <3>1, <3>2
  <2>3. TakenMoves(EmitPC) /\ ~NonePasses(EmitPC)
    BY <1>3, <1>4, <1>8, <2>1, <2>2 DEF TrackMoves, NonePasses
  <2>4. PICK m \in Module :
          \/ /\ call[loader].ev = ModuleEvent("module_loaded", m)
             /\ m \notin Taken(EmitPC) /\ Taken(EmitPC)' = Taken(EmitPC) \cup {m}
          \/ /\ call[loader].ev = ModuleEvent("module_unloaded", m)
             /\ m \in Taken(EmitPC) /\ Taken(EmitPC)' = Taken(EmitPC) \ {m}
    BY <2>3 DEF TakenMoves
  <2>5. PICK k \in {"module_loaded", "module_unloaded"} :
          /\ call[t].ev = ModuleEvent(k, m)
          /\ \/ /\ k = "module_loaded" /\ m \notin Taken(EmitPC)
                /\ Taken(EmitPC)' = Taken(EmitPC) \cup {m}
             \/ /\ k = "module_unloaded" /\ m \in Taken(EmitPC)
                /\ Taken(EmitPC)' = Taken(EmitPC) \ {m}
    BY <2>1, <2>4
  <2>6. Follows(s, EmitPC) /\ started' /\ Sound(s, missed) /\ UNCHANGED missed
    BY <1>3, <1>5, <1>a, <2>1
  <2>a. ~Deaf
    BY <2>3 DEF TakenMoves
  <2>7. /\ Sound(Append(s, ModuleEvent(k, m)), missed')
        /\ FollowsAfter(Append(s, ModuleEvent(k, m)), EmitPC)
    BY <1>2, <2>5, <2>6, <2>a, FollowsEvent
  <2>8. x = Append(s, ModuleEvent(k, m))
    BY <2>5
  <2>9. QED
    BY <2>6, <2>7, <2>8 DEF s
<1>9. QED
  BY <1>7, <1>8

\* A line that is not about a module does not get into such a log.
LEMMA LossFollows ==
  ASSUME TypeOK, AloneInv, SoloInv, HelloInv, TrackInv, env, TrackMoves, LogFollows, [Next]_vars,
         NEW t \in Thread, WriteLine(t), file_ # 0, files[file_].by = "attach",
         Complete(files[file_]), call[t].ev.module = NoModule, dll' \in {"attach", "in"}
  PROVE  FollowsAfter(files[file_].lines, EmitPC)
<1> DEFINE s == files[file_].lines
<1>1. Len(files) \in Nat /\ file_ \in 1..Len(files)
  BY LenProperties DEF TypeOK
<1>2. UNCHANGED dll /\ Resume(t, call[t].next)
  BY DEF WriteLine, lifeVars
<1>3. Follows(s, EmitPC) /\ (~started => Named(s) = {})
  BY <1>1, <1>2 DEF LogFollows
<1> HIDE DEF s
<1>4. \A u \in Thread \ {t} : call'[u] = call[u]
  BY <1>2, ResumeKeeps
<1>5. TakenMoves(EmitPC)
  BY DEF TrackMoves
<1>6. \A m \in Module : \A k \in {"module_loaded", "module_unloaded"} :
        call[t].ev # ModuleEvent(k, m)
  BY ModuleEventFacts, ConstantsAssumption
<1>7. TakenRests(EmitPC)
  BY <1>4, <1>5, <1>6 DEF TakenMoves, TakenRests
<1>8. QED
  BY <1>3, <1>7, FollowsOn DEF s

LEMMA LogStays ==
  ASSUME Inv, SoloInv, HelloInv, TrackInv, env, TrackMoves, LogFollows, [Next]_vars
  PROVE  LogFollows'
<1>1. TypeOK /\ AloneInv /\ FilesOK /\ Len(files) \in Nat
  BY LenProperties DEF Inv, TypeOK, FilesOK
<1>2. SUFFICES ASSUME NEW i \in 1..Len(files'), files'[i].by = "attach", Complete(files'[i])
               PROVE  /\ Sound(files'[i].lines, missed')
                      /\ ~started' => Named(files'[i].lines) = {}
                      /\ dll' \in {"attach", "in"} /\ i = file_'
                           => FollowsAfter(files'[i].lines, EmitPC)
  BY DEF LogFollows, Complete, FollowsAfter, Follows, Sound, Alternates, Founded, Named, ModulesIn
<1> DEFINE Still == /\ Sound(files'[i].lines, missed')
                    /\ ~started' => Named(files'[i].lines) = {}
           Goal == /\ Still
                   /\ dll' \in {"attach", "in"} /\ i = file_'
                        => FollowsAfter(files'[i].lines, EmitPC)
<1>a. PICK ms, ns : ms = missed /\ ns = missed'
  OBVIOUS
<1>b. ASSUME i \in 1..Len(files), files'[i].by = files[i].by, files'[i].lines = files[i].lines,
             files[i].lost \subseteq files'[i].lost
      PROVE  Still /\ files[i].by = "attach" /\ Complete(files[i])
  <2>1. files[i].by = "attach" /\ Complete(files[i])
    BY <1>2, <1>b DEF Complete
  <2>2. Sound(files[i].lines, ms) /\ (~started => Named(files[i].lines) = {})
    BY <1>a, <1>b, <2>1 DEF LogFollows
  <2>3. ms = ns \/ ~started
    BY <1>a, StartedStays
  <2>4. Sound(files[i].lines, ns)
    BY <2>2, <2>3, SoundOn
  <2>5. started => started'
    BY StartedStays
  <2>6. QED
    BY <1>a, <1>b, <2>1, <2>2, <2>4, <2>5
<1>3. ASSUME NEW t \in Thread, WriteLine(t), file_ # 0
      PROVE  Goal
  <2>1. UNCHANGED file_ /\ call[t].ev \in Event
    BY <1>1, <1>3 DEF WriteLine, TypeOK, Frame
  <2>2. CASE files' = [files EXCEPT ![file_].lines = Append(@, call[t].ev)]
    <3>1. /\ i \in 1..Len(files) /\ files[i].by = files'[i].by /\ files[i].lost = files'[i].lost
          /\ files'[i].lines = IF i = file_ THEN Append(files[i].lines, call[t].ev)
                               ELSE files[i].lines
      BY <1>1, <1>3, <2>1, <2>2, LineFacts
    <3>2. CASE i = file_
      <4>1. files[file_].by = "attach" /\ Complete(files[file_])
        BY <1>2, <3>1, <3>2 DEF Complete
      <4>2. QED
        BY <1>1, <1>3, <3>1, <3>2, <4>1, LineFollows
    <3>3. CASE i # file_
      BY <1>b, <2>1, <3>1, <3>3
    <3>4. QED
      BY <3>2, <3>3
  <2>3. CASE files' = [files EXCEPT ![file_].lost = @ \cup {call[t].ev}]
    <3>1. /\ i \in 1..Len(files) /\ files[i].by = files'[i].by /\ files'[i].lines = files[i].lines
          /\ files'[i].lost = IF i = file_ THEN files[i].lost \cup {call[t].ev} ELSE files[i].lost
      BY <1>1, <1>3, <2>1, <2>3, LossFacts
    <3>2. Still /\ files[i].by = "attach" /\ Complete(files[i])
      BY <1>b, <3>1
    <3>3. ASSUME dll' \in {"attach", "in"}, i = file_
          PROVE  FollowsAfter(files'[i].lines, EmitPC)
      <4>1. call[t].ev.module = NoModule
        BY <1>2, <3>1, <3>3 DEF Complete
      <4>2. FollowsAfter(files[file_].lines, EmitPC)
        BY <1>1, <1>3, <3>2, <3>3, <4>1, LossFollows
      <4>3. QED
        BY <3>1, <3>3, <4>2
    <3>4. QED
      BY <2>1, <3>2, <3>3
  <2>4. QED
    BY <1>3, <2>2, <2>3 DEF WriteLine
<1>4. ASSUME NEW t \in Thread, OpenAtAttach(t)
      PROVE  Goal
  <2>1. /\ OpenLog("attach") /\ call[t].op = "attach" /\ call[t].pc = "open"
        /\ UNCHANGED <<dll, loader, started>>
    BY <1>4 DEF OpenAtAttach, lifeVars, moduleVars
  <2>2. dll = "attach" /\ t = loader
    BY <1>1, <2>1, IdleFacts DEF SoloInv
  <2>3. PICK f : Emits(t, f, Plain("hello"), "send", "track") /\ Become(t, f)
    BY <1>4 DEF OpenAtAttach, Emits
  <2>4. call'[t].ev.module \notin Module
    <3>1. call'[t].ev = Plain("hello")
      BY <1>1, <2>3, EmitFacts
    <3>2. QED
      BY <3>1, ConstantsAssumption DEF Plain, NoEvent
  <2>5. Taken(EmitPC)' = {}
    BY <1>1, <2>1, <2>2, <2>4, TakenNone
  <2>6. Named(<<>>) = {} /\ Sound(<<>>, ns) /\ FollowsAfter(<<>>, EmitPC)
    BY <2>5, EmptyFollows
  <2>7. CASE i \in 1..Len(files)
    <3>1. /\ files'[i].by = files[i].by /\ files'[i].lines = files[i].lines /\ i # file_'
          /\ files'[i].lost = files[i].lost
      BY <1>1, <2>1, <2>7, OpenFacts
    <3>2. QED
      BY <1>b, <2>7, <3>1
  <2>8. CASE i \notin 1..Len(files)
    <3>1. files'[i].lines = <<>>
      BY <1>1, <1>2, <2>1, <2>8, OpenFacts
    <3>2. QED
      BY <1>a, <2>6, <3>1
  <2>9. QED
    BY <2>7, <2>8
<1>5. ASSUME NEW t \in Thread, OpenAtStart(t)
      PROVE  Goal
  <2>1. OpenLog("start")
    BY <1>5 DEF OpenAtStart
  <2>2. /\ i \in 1..Len(files) /\ i # file_' /\ files'[i].lost = files[i].lost
        /\ files'[i].by = files[i].by /\ files'[i].lines = files[i].lines
    BY <1>1, <1>2, <2>1, OpenFacts
  <2>3. QED
    BY <1>b, <2>2
<1>6. ASSUME NEW t \in Thread, CloseLog(t) \/ CloseLogAtDetach(t)
      PROVE  Goal
  <2>1. files' = CloseFile(files) /\ file_' = 0
    BY <1>6 DEF CloseLog, CloseLogAtDetach
  <2>2. /\ i \in 1..Len(files) /\ i # file_' /\ files'[i].lost = files[i].lost
        /\ files'[i].by = files[i].by /\ files'[i].lines = files[i].lines
    BY <1>1, <1>2, <2>1, CloseFileLines
  <2>3. QED
    BY <1>b, <2>2
<1>7. ASSUME UNCHANGED <<file_, files>>, \A t \in Thread : ~WriteLine(t) \/ file_ = 0
      PROVE  Goal
  <2>1. /\ i \in 1..Len(files) /\ Still
        /\ files[i].by = "attach" /\ Complete(files[i])
    BY <1>2, <1>7, <1>b
  <2>2. dll' \in {"attach", "in"} /\ i = file_ => FollowsAfter(files[i].lines, EmitPC)
    BY <1>1, <1>7, <2>1, SameLog
  <2>3. QED
    BY <1>7, <2>1, <2>2
<1>8. ASSUME \A t \in Thread : /\ ~(WriteLine(t) /\ file_ # 0) /\ ~OpenAtAttach(t)
                               /\ ~OpenAtStart(t) /\ ~CloseLog(t) /\ ~CloseLogAtDetach(t)
      PROVE  UNCHANGED <<file_, files>>
  <2> USE DEF logVars
  <2>1. CASE UNCHANGED vars \/ LauncherActs
    BY <2>1 DEF vars, LauncherActs, ServerCloses, ServerReads
  <2>2. ASSUME NEW t \in Thread, Environment(t)
        PROVE  UNCHANGED <<file_, files>>
    BY <2>2 DEF Environment, Attach, ObjectEvent, StartLogging, StopLogging, LoadModule,
       UnloadModule, Detach
  <2>3. ASSUME NEW t \in Thread, Continue(t), ~WriteLine(t)
        PROVE  UNCHANGED <<file_, files>>
    BY <1>8, <2>3 DEF Continue, SendCheck, SendHeader, SendPayload, AppendCheck, AppendLock,
       StartModuleTracking, EmitModuleLoaded, FaultOnUnmapped, Register, UnlockLoader,
       Connect, LoadD3D12, InstallExportHooks, StopModuleTracking, ClosePipeAtDetach
  <2>4. ASSUME NEW t \in Thread, WriteLine(t)
        PROVE  UNCHANGED <<file_, files>>
    BY <1>8, <2>4 DEF WriteLine
  <2>5. QED
    BY <2>1, <2>2, <2>3, <2>4 DEF Next
<1>9. QED
  BY <1>3, <1>4, <1>5, <1>6, <1>7, <1>8

-----------------------------------------------------------------------------
(* The theorems about modules *)

\* Both follow from one invariant.
ModuleInv == SoloInv /\ HelloInv /\ (env => TrackInv /\ PipeFollows /\ LogFollows)

LEMMA ModuleInvInit == Init => ModuleInv
<1> SUFFICES ASSUME Init PROVE ModuleInv
  OBVIOUS
<1>1. /\ dll = "out" /\ wire = <<>> /\ files = <<>> /\ \A t \in Thread : call[t] = Idle
      /\ ~started /\ loader = NoThread
  BY DEF Init
<1>2. Idle.op = "none" /\ Len(wire) = 0 /\ Len(files) = 0
  BY <1>1 DEF Idle
<1>3. SoloInv
  BY <1>1, <1>2 DEF SoloInv
<1>4. HelloInv
  BY <1>1, <1>2 DEF HelloInv, Unopened
<1>5. TrackInv
  BY <1>1 DEF TrackInv
<1>6. PipeFollows
  <2>1. Messages = <<>>
    <3>1. TypeOK
      BY InitInv DEF Inv
    <3>2. Messages \in Seq(Event) /\ Len(Messages) = 0
      BY <1>2, <3>1, MessagesType
    <3>3. QED
      BY <3>2, EmptySeq
  <2>2. Named(<<>>) = {} /\ \A ms : Sound(<<>>, ms)
    BY DEF Sound, Alternates, Founded, Named
  <2>3. QED
    BY <1>1, <2>1, <2>2 DEF PipeFollows
<1>7. LogFollows
  BY <1>2 DEF LogFollows
<1>8. QED
  BY <1>3, <1>4, <1>5, <1>6, <1>7 DEF ModuleInv

LEMMA ModuleInvStep == Inv /\ ModuleInv /\ [Next]_vars => ModuleInv'
<1> SUFFICES ASSUME Inv, ModuleInv, [Next]_vars PROVE ModuleInv'
  OBVIOUS
<1>1. SoloInv' /\ HelloInv' /\ env' = env
  BY SoloStep, HelloStep, StartedStays DEF Inv, ModuleInv
<1>2. ASSUME env
      PROVE  TrackInv' /\ PipeFollows' /\ LogFollows'
  <2>1. SoloInv /\ HelloInv /\ TrackInv /\ PipeFollows /\ LogFollows /\ TypeOK /\ AloneInv
    BY <1>2 DEF ModuleInv, Inv
  <2>2. TrackMoves
    BY <1>2, <2>1, TrackStep
  <2>3. TrackInv'
    BY <2>2, TrackPrime DEF TrackMoves
  <2>4. PipeFollows' /\ LogFollows'
    BY <1>2, <2>1, <2>2, PipeStays, LogStays
  <2>5. QED
    BY <2>3, <2>4
<1>3. QED
  BY <1>1, <1>2 DEF ModuleInv

LEMMA ModuleInvHolds == Spec => []ModuleInv
<1>1. QED
  BY ModuleInvInit, ModuleInvStep, InvHolds, PTL DEF Spec

\* With module tracking from OnAttach no sink opened there reports a module
\* twice in a row as loaded or as unloaded, whatever the loader, StartLogging and
\* StopLogging do, and whether or not the enumeration and the registration
\* succeed; nor as unloaded before it was loaded, but for the modules that the
\* enumeration missed.
THEOREM StreamsAlternate == Spec => []ModuleStreamsAlternate
<1>1. ModuleInv => ModuleStreamsAlternate
  <2> SUFFICES ASSUME ModuleInv, env, NEW s \in AttachedStreams
               PROVE  Alternates(s) /\ UnloadsFollowLoads(s)
    BY DEF ModuleStreamsAlternate
  <2>1. Sound(s, missed)
    <3>1. PipeFollows /\ LogFollows
      BY DEF ModuleInv
    <3>2. QED
      BY <3>1 DEF PipeFollows, LogFollows, AttachedStreams
  <2>2. QED
    BY <2>1 DEF Sound, Founded, UnloadsFollowLoads
<1>2. QED
  BY <1>1, ModuleInvHolds, PTL

\* The enumeration under the loader lock and the notifications after it leave out
\* no module but those that EnumProcessModules did not give: if the registration
\* succeeded, a sink that OnAttach opened, that is still open and that no event
\* about a module failed to reach gives the modules that are mapped.
THEOREM AttachKnowsModules == Spec => []ModulesKnownFromAttach
<1>1. Inv /\ ModuleInv => ModulesKnownFromAttach
  <2> SUFFICES ASSUME Inv, ModuleInv, env, dll = "in", loader = NoThread, registered
               PROVE  /\ pipe_ /\ server => Gives(Messages)
                      /\ file_ # 0 /\ files[file_].by = "attach" /\ Complete(files[file_]) =>
                           Gives(files[file_].lines)
    BY DEF ModulesKnownFromAttach
  <2>1. TypeOK /\ TrackInv /\ PipeFollows /\ LogFollows
    BY DEF Inv, ModuleInv
  <2>2. started /\ LoaderCall = Idle
    BY <2>1 DEF TrackInv, LoaderCall
  <2>3. \A early \in {Unwritten, EmitPC} : Taken(early) = modules
    BY <2>1, <2>2, IdleFacts, EarlyLabels DEF Taken, Reported, TypeOK
  <2>4. ASSUME NEW s, Follows(s, Unwritten) \/ Follows(s, EmitPC)
        PROVE  Gives(s)
    BY <2>3, <2>4 DEF Follows, Deaf, Gives
  <2>5. pipe_ /\ server => Gives(Messages)
    BY <2>1, <2>4 DEF PipeFollows, CanWrite
  <2>6. file_ # 0 => file_ \in 1..Len(files)
    BY <2>1, LenProperties DEF TypeOK
  <2>7. QED
    BY <2>1, <2>4, <2>5, <2>6 DEF LogFollows
<1>2. QED
  BY <1>1, InvHolds, ModuleInvHolds, PTL

-----------------------------------------------------------------------------
(* An object event reaches the sinks that are open: the invariant *)

On(s, x)   == \E i \in 1..Len(s) : s[i] = x

Only(s, x) == \E i \in 1..Len(s) : \A j \in 1..Len(s) : s[j] = x <=> j = i

Payload(e) == [part |-> "payload", ev |-> e]

\* f has nothing to do with an object.
Apart(f) == f.op # "object" /\ f.ev.kind # "object"

\* A call of a hook is an emission from its beginning to its end; its event is
\* nobody else's.
ObjectInv ==
  /\ ops \in Nat
  /\ \A t \in Thread :
       \/ Apart(call[t])
       \/ /\ call[t].op = "object" /\ call[t].pc \in EmitPC /\ call[t].next = "idle"
          /\ call[t].ev.kind = "object" /\ call[t].ev.n <= ops
  /\ \A t, u \in Thread : t # u /\ call[t].op = "object" /\ call[u].op = "object"
       => call[t].ev # call[u].ev

\* The events that the sinks have are of calls that have begun.
PastInv ==
  /\ \A i \in 1..Len(wire) : wire[i].ev.kind = "object" => wire[i].ev.n <= ops
  /\ \A i \in 1..Len(files) : \A j \in 1..Len(files[i].lines) :
       files[i].lines[j].kind = "object" => files[i].lines[j].n <= ops

\* Up to SendPayload a payload is not on the wire, and then it is, once, or the
\* pipe is closed, for it is connected only once.
SentInv ==
  \A t \in Thread : call[t].op = "object" =>
    IF call[t].pc \in Sending THEN ~On(wire, Payload(call[t].ev))
                              ELSE pipe_ => Only(wire, Payload(call[t].ev))

\* Up to WriteLine a line is in no file.
LoggedInv ==
  \A t \in Thread : call[t].op = "object" =>
    \A i \in 1..Len(files) : ~On(files[i].lines, call[t].ev)

-----------------------------------------------------------------------------
(* Who emits an object event *)

\* What a thread does, it does itself, unless it is terminated.
LEMMA Mover ==
  ASSUME TypeOK, [Next]_vars, NEW t \in Thread, call'[t] # call[t]
  PROVE  Environment(t) \/ Continue(t) \/ call'[t] = Dead
<1>1. UNCHANGED vars \/ LauncherActs => UNCHANGED call
  BY DEF vars, LauncherActs, ServerCloses, ServerReads
<1>2. PICK u \in Thread : Environment(u) \/ Continue(u)
  BY <1>1 DEF Next
<1>3. CASE u = t
  BY <1>2, <1>3
<1>4. CASE u # t
  <2>1. CASE FaultOnUnmapped(u)
    BY <2>1 DEF FaultOnUnmapped
  <2>2. CASE CloseLogAtDetach(u)
    <3>1. call'[t] = IF call[u].op = "exit" \/ (t # u /\ call[t] # Idle) THEN Dead ELSE Idle
      BY <2>2 DEF CloseLogAtDetach
    <3>2. QED
      BY <1>4, <3>1
  <2>3. ASSUME NEW op \in {"detach", "exit"}, Detach(u, op)
        PROVE  call'[t] = Dead
    <3> DEFINE f == [EmitFrame(u, Plain("goodbye"), "send", "unregister") EXCEPT !.op = op]
    <3>1. \/ call' = [x \in Thread |-> IF x = u THEN f ELSE Dead]
          \/ Become(u, f)
      BY <2>3 DEF Detach
    <3> HIDE DEF f
    <3>2. ASSUME Become(u, f)
          PROVE  FALSE
      BY <1>4, <3>2, BecomeKeeps
    <3>3. QED
      BY <1>4, <3>1, <3>2
  <2>4. ASSUME NEW f, Become(u, f)
        PROVE  FALSE
    BY <1>4, <2>4, BecomeKeeps
  <2>5. QED
    BY <1>2, <2>1, <2>2, <2>3, <2>4, OneBecomes
<1>5. QED
  BY <1>3, <1>4

LEMMA ResumeSilent ==
  ASSUME TypeOK, NEW t \in Thread, NEW p, Resume(t, p)
  PROVE  call'[t].ev = NoEvent /\ call'[t].op \in {call[t].op, "none"}
<1> DEFINE f == [Idle EXCEPT !.op = call[t].op, !.pc = p, !.todo = call[t].todo]
<1>1. f.ev = NoEvent /\ f.op = call[t].op /\ Idle.ev = NoEvent /\ Idle.op = "none"
  BY DEF Idle
<1>2. call' = [call EXCEPT ![t] = IF p = "idle" THEN Idle ELSE f]
  BY DEF Resume, Become
<1> HIDE DEF f
<1>3. call'[t] = IF p = "idle" THEN Idle ELSE f
  BY <1>2 DEF TypeOK
<1>4. QED
  BY <1>1, <1>3

\* t goes on inside Send or Append.
Passes(t) ==
  /\ \/ SendCheck(t) \/ SendHeader(t) \/ SendPayload(t)
     \/ AppendCheck(t) \/ AppendLock(t)
  /\ \E p \in EmitPC : Goto(t, p)

\* Every kind of step of a thread, seen by the events about objects.
LEMMA ObjectMoves ==
  ASSUME TypeOK, ObjectInv, [Next]_vars, NEW t \in Thread, call'[t] # call[t]
  PROVE  ObjectEvent(t) \/ Passes(t) \/ Apart(call'[t])
<1> DEFINE Goal == ObjectEvent(t) \/ Passes(t) \/ Apart(call'[t])
           Kinds == {"none", "hello", "goodbye", "module_loaded", "module_unloaded"}
<1>1. NoEvent.kind = "none"
  BY DEF NoEvent
<1>2. Apart(Idle) /\ Apart(Dead)
  BY <1>1, IdleFacts, FrameTypes DEF Apart
<1>3. ASSUME Become(t, Idle)
      PROVE  Goal
  BY <1>2, <1>3, BecomeKeeps
<1>4. ASSUME NEW p, Resume(t, p), call[t].op # "object" \/ p = "idle"
      PROVE  Goal
  <2>1. CASE p = "idle"
    BY <1>2, <1>4, <2>1, ResumeKeeps
  <2>2. CASE p # "idle"
    BY <1>1, <1>4, <2>2, ResumeSilent DEF Apart
  <2>3. QED
    BY <2>1, <2>2
<1>5. ASSUME NEW p, Goto(t, p), Apart(call[t])
      PROVE  Goal
  BY <1>5, GotoKeeps DEF Apart
<1>6. ASSUME NEW f, Become(t, f), Apart(f)
      PROVE  Goal
  BY <1>6, BecomeKeeps
<1>7. ASSUME Apart(call[t]), NEW e, NEW first, NEW label, e.kind # "object"
      PROVE  LET f == EmitFrame(t, e, first, label) IN
             /\ Apart(f) /\ \A ms : Apart([f EXCEPT !.todo = ms])
             /\ \A o : o # "object" => Apart([f EXCEPT !.op = o])
  BY <1>7, EmitKeeps DEF Apart
<1>8. \A k \in {"hello", "goodbye"} : Plain(k).kind # "object"
  BY ModuleEventFacts, 0 \in Nat DEF Plain, NoEvent
<1>9. \A k \in {"module_loaded", "module_unloaded"}, m \in Module :
        ModuleEvent(k, m).kind # "object"
  BY ModuleEventFacts
<1>10. ASSUME Apart(call[t]), NEW k \in {"module_loaded", "module_unloaded"}, NEW m \in Module,
              NEW label, OnLdrNotification(t, k, m, label)
       PROVE  Goal
  <2>1. ASSUME Become(t, EmitFrame(t, ModuleEvent(k, m), "send", label))
        PROVE  Goal
    <3>1. Apart(EmitFrame(t, ModuleEvent(k, m), "send", label))
      BY <1>7, <1>9, <1>10
    <3>2. QED
      BY <1>6, <2>1, <3>1
  <2>2. ASSUME Goto(t, label)
        PROVE  Goal
    BY <1>5, <1>10, <2>2
  <2>3. QED
    BY <1>10, <2>1, <2>2 DEF OnLdrNotification
<1>11. CASE Environment(t)
  <2>1. call[t] = Idle /\ Apart(call[t])
    BY <1>2, <1>11, EnvironmentIdle
  <2>2. Apart([Idle EXCEPT !.op = "attach", !.pc = "connect"])
        /\ Apart([Idle EXCEPT !.op = "start", !.pc = "open"])
        /\ Apart([Idle EXCEPT !.op = "stop", !.pc = "close"])
    BY <1>1 DEF Apart, Idle
  <2>3. ASSUME NEW m \in Module, LoadModule(t, m) \/ UnloadModule(t, m)
        PROVE  Goal
    BY <1>10, <2>1, <2>3 DEF LoadModule, UnloadModule
  <2>4. ASSUME NEW op \in {"detach", "exit"}, Detach(t, op)
        PROVE  Goal
    <3> DEFINE f == [EmitFrame(t, Plain("goodbye"), "send", "unregister") EXCEPT !.op = op]
    <3>1. Apart(f)
      BY <1>7, <1>8, <2>1
    <3>2. \/ call' = [x \in Thread |-> IF x = t THEN f ELSE Dead]
          \/ Become(t, f)
      BY <2>4 DEF Detach
    <3> HIDE DEF f
    <3>3. call'[t] = f
      BY <3>2, BecomeKeeps
    <3>4. QED
      BY <3>1, <3>3
  <2>5. CASE Attach(t) \/ StopLogging(t) \/ \E callstacks \in BOOLEAN : StartLogging(t, callstacks)
    <3>1. \/ Become(t, [Idle EXCEPT !.op = "attach", !.pc = "connect"])
          \/ Become(t, [Idle EXCEPT !.op = "start", !.pc = "open"])
          \/ Become(t, [Idle EXCEPT !.op = "stop", !.pc = "close"])
      BY <2>5 DEF Attach, StopLogging, StartLogging
    <3>2. QED
      BY <1>6, <2>2, <3>1
  <2>6. QED
    BY <1>11, <2>3, <2>4, <2>5 DEF Environment
<1>12. CASE Continue(t) /\ call[t].pc \in EmitPC
  <2>1. \/ SendCheck(t) \/ SendHeader(t) \/ SendPayload(t) \/ AppendLock(t)
        \/ AppendCheck(t) \/ WriteLine(t)
    BY <1>12 DEF EmitPC, Continue,
       StartModuleTracking, EmitModuleLoaded, FaultOnUnmapped, Register, UnlockLoader, Connect,
       OpenAtAttach, LoadD3D12, InstallExportHooks, OpenAtStart, CloseLog, StopModuleTracking,
       ClosePipeAtDetach, CloseLogAtDetach
  <2>2. call[t].op # "object" \/ call[t].next = "idle"
    BY DEF ObjectInv, Apart
  <2>3. ASSUME Resume(t, call[t].next)
        PROVE  Goal
    <3> DEFINE p == call[t].next
    <3>1. Resume(t, p) /\ (call[t].op # "object" \/ p = "idle")
      BY <2>2, <2>3
    <3> HIDE DEF p
    <3>2. QED
      BY <1>4, <3>1
  <2>4. CASE SendCheck(t) \/ SendHeader(t) \/ SendPayload(t) \/ AppendLock(t)
    <3>1. CASE SendCheck(t) \/ AppendLock(t)
      BY <3>1 DEF SendCheck, AppendLock, EmitPC, Passes
    <3>2. CASE SendHeader(t) \/ SendPayload(t)
      BY <3>2, SendGoes DEF EmitPC, Passes
    <3>3. QED
      BY <2>4, <3>1, <3>2
  <2>5. CASE AppendCheck(t)
    BY <2>3, <2>5 DEF AppendCheck, EmitPC, Passes
  <2>6. CASE WriteLine(t)
    BY <2>3, <2>6 DEF WriteLine
  <2>7. QED
    BY <2>1, <2>4, <2>5, <2>6
<1>13. CASE Continue(t) /\ call[t].pc \notin EmitPC
  <2>1. Apart(call[t]) /\ call[t].op # "object"
    BY <1>13 DEF ObjectInv, Apart
  <2>2. ~(SendCheck(t) \/ SendHeader(t) \/ SendPayload(t) \/ AppendLock(t)
            \/ AppendCheck(t) \/ WriteLine(t))
    BY <1>13 DEF EmitPC, SendCheck, SendHeader, SendPayload, AppendLock, AppendCheck, WriteLine
  <2>3. ASSUME NEW p, Goto(t, p)
        PROVE  Goal
    BY <1>5, <2>1, <2>3
  <2>4. ASSUME NEW p, Resume(t, p)
        PROVE  Goal
    BY <1>4, <2>1, <2>4
  <2>5. CASE StartModuleTracking(t)
    <3>1. ASSUME NEW ms, Become(t, [call[t] EXCEPT !.pc = "enum", !.todo = ms])
          PROVE  Goal
      <4>1. call[t] \in Frame
        BY DEF TypeOK
      <4>2. Apart([call[t] EXCEPT !.pc = "enum", !.todo = ms])
        BY <2>1, <4>1 DEF Apart, Frame
      <4>3. QED
        BY <1>6, <3>1, <4>2
    <3>2. QED
      BY <2>4, <2>5, <3>1 DEF StartModuleTracking, Enumerate
  <2>6. CASE EmitModuleLoaded(t)
    <3>1. ASSUME NEW m \in call[t].todo,
                 Become(t, [EmitFrame(t, ModuleEvent("module_loaded", m), "send", "enum")
                              EXCEPT !.todo = @ \ {m}])
          PROVE  Goal
      <4> DEFINE f == EmitFrame(t, ModuleEvent("module_loaded", m), "send", "enum")
                 ms == f.todo \ {m}
      <4>1. m \in Module
        BY DEF TypeOK, Frame
      <4>2. Become(t, [f EXCEPT !.todo = ms])
        BY <3>1
      <4> HIDE DEF ms
      <4>3. Apart([f EXCEPT !.todo = ms])
        BY <1>7, <1>9, <2>1, <4>1
      <4>4. QED
        BY <1>6, <4>2, <4>3
    <3>2. QED
      BY <2>3, <2>6, <3>1 DEF EmitModuleLoaded
  <2>7. CASE FaultOnUnmapped(t) \/ CloseLogAtDetach(t)
    <3>1. call'[t] \in {Idle, Dead}
      BY <2>7 DEF FaultOnUnmapped, CloseLogAtDetach
    <3>2. QED
      BY <1>2, <3>1
  <2>8. CASE UnlockLoader(t) \/ InstallExportHooks(t) \/ CloseLog(t)
    BY <1>3, <2>8 DEF UnlockLoader, InstallExportHooks, CloseLog
  <2>9. CASE OpenAtAttach(t) \/ OpenAtStart(t)
    <3>1. \/ Become(t, Idle)
          \/ \E first \in {"send", "append"} :
               Become(t, EmitFrame(t, Plain("hello"), first, "track"))
      BY <2>9 DEF OpenAtAttach, OpenAtStart
    <3>2. \A first : Apart(EmitFrame(t, Plain("hello"), first, "track"))
      BY <1>7, <1>8, <2>1
    <3>3. QED
      BY <1>3, <1>6, <3>1, <3>2
  <2>10. CASE LoadD3D12(t)
    BY <1>10, <2>1, <2>3, <2>10 DEF LoadD3D12
  <2>11. CASE Register(t) \/ Connect(t) \/ StopModuleTracking(t) \/ ClosePipeAtDetach(t)
    BY <2>3, <2>4, <2>11 DEF Register, Connect, StopModuleTracking, ClosePipeAtDetach
  <2>12. QED
    BY <1>13, <2>2, <2>5, <2>6, <2>7, <2>8, <2>9, <2>10, <2>11 DEF Continue
<1>14. QED
  BY <1>2, <1>11, <1>12, <1>13, Mover

\* What the hook does that emits an object event.
LEMMA ObjectBegins ==
  ASSUME TypeOK, ops \in Nat, NEW t \in Thread, ObjectEvent(t)
  PROVE  /\ call[t] = Idle /\ ops' = ops + 1 /\ UNCHANGED <<pipeVars, logVars>>
         /\ call'[t].op = "object" /\ call'[t].pc = "send" /\ call'[t].next = "idle"
         /\ call'[t].ev.kind = "object" /\ call'[t].ev.n = ops + 1
         /\ \A u \in Thread \ {t} : call'[u] = call[u]
<1> DEFINE e == [Plain("object") EXCEPT !.n = ops + 1]
           f == [EmitFrame(t, e, "send", "idle") EXCEPT !.op = "object"]
<1>1. /\ call[t] = Idle /\ ops' = ops + 1 /\ UNCHANGED <<pipeVars, logVars>> /\ Become(t, f)
  BY DEF ObjectEvent, Begin
<1>2. e.kind = "object" /\ e.n = ops + 1
  BY DEF Plain, NoEvent
<1> HIDE DEF e
<1>3. f.op = "object" /\ f.pc = "send" /\ f.next = "idle" /\ f.ev = e
  BY EmitKeeps
<1> HIDE DEF f
<1>4. call'[t] = f /\ \A u \in Thread \ {t} : call'[u] = call[u]
  BY <1>1, BecomeKeeps
<1>5. QED
  BY <1>1, <1>2, <1>3, <1>4

LEMMA PassFacts ==
  ASSUME TypeOK, NEW t \in Thread, Passes(t)
  PROVE  /\ call[t].pc \in EmitPC /\ call'[t].pc \in EmitPC
         /\ call'[t].op = call[t].op /\ call'[t].ev = call[t].ev /\ call'[t].next = call[t].next
         /\ UNCHANGED <<files, file_>>
         /\ \A u \in Thread \ {t} : call'[u] = call[u]
<1>1. PICK p \in EmitPC : Goto(t, p)
  BY DEF Passes
<1>2. call[t].pc \in EmitPC /\ UNCHANGED <<files, file_>>
  BY DEF Passes, SendCheck, SendHeader, SendPayload, AppendCheck, AppendLock, EmitPC, logVars
<1>3. QED
  BY <1>1, <1>2, GotoKeeps

\* The count of what the environment begins, and of lines lost, only grows.
LEMMA OpsGrow ==
  ASSUME ops \in Nat, [Next]_vars
  PROVE  ops' \in Nat /\ ops <= ops'
<1>1. CASE UNCHANGED vars \/ LauncherActs
  BY <1>1 DEF vars, LauncherActs, ServerCloses, ServerReads
<1>2. ASSUME NEW t \in Thread, Environment(t)
      PROVE  ops' = ops \/ ops' = ops + 1
  BY <1>2 DEF Environment, Attach, ObjectEvent, StartLogging, StopLogging, LoadModule,
     UnloadModule, Detach, Begin
<1>3. ASSUME NEW t \in Thread, Continue(t)
      PROVE  ops' = ops \/ ops' = ops + 1
  <2>1. CASE SendCheck(t) \/ SendHeader(t) \/ SendPayload(t) \/ AppendCheck(t) \/ AppendLock(t)
             \/ WriteLine(t) \/ StartModuleTracking(t) \/ EmitModuleLoaded(t)
             \/ FaultOnUnmapped(t) \/ Register(t)
    BY <2>1 DEF SendCheck, SendHeader, SendPayload, AppendCheck, AppendLock, WriteLine,
       StartModuleTracking, EmitModuleLoaded, FaultOnUnmapped, Register
  <2>2. CASE UnlockLoader(t) \/ Connect(t) \/ OpenAtAttach(t) \/ LoadD3D12(t)
             \/ InstallExportHooks(t) \/ OpenAtStart(t) \/ CloseLog(t) \/ StopModuleTracking(t)
             \/ ClosePipeAtDetach(t) \/ CloseLogAtDetach(t)
    BY <2>2 DEF UnlockLoader, Connect, OpenAtAttach, LoadD3D12, InstallExportHooks, OpenAtStart,
       CloseLog, StopModuleTracking, ClosePipeAtDetach, CloseLogAtDetach
  <2>3. QED
    BY <1>3, <2>1, <2>2 DEF Continue
<1>4. QED
  BY <1>1, <1>2, <1>3 DEF Next

\* An event in progress is the one of the state before, or has a new number.
LEMMA SameEvent ==
  ASSUME TypeOK, ObjectInv, [Next]_vars, NEW t \in Thread, call'[t].op = "object"
  PROVE  \/ ObjectEvent(t)
         \/ /\ call[t].op = "object" /\ call'[t].ev = call[t].ev
            /\ call'[t] = call[t] \/ Passes(t)
<1>1. ~Apart(call'[t])
  BY DEF Apart
<1>2. CASE call'[t] = call[t]
  BY <1>2
<1>3. CASE call'[t] # call[t]
  BY <1>1, <1>3, ObjectMoves, PassFacts
<1>4. QED
  BY <1>2, <1>3

LEMMA ObjectStep ==
  ASSUME TypeOK, ObjectInv, [Next]_vars
  PROVE  ObjectInv'
<1>1. ops \in Nat /\ ops' \in Nat /\ ops <= ops'
  BY OpsGrow DEF ObjectInv
<1>2. ASSUME NEW t \in Thread
      PROVE  \/ Apart(call'[t])
             \/ /\ call'[t].op = "object" /\ call'[t].pc \in EmitPC /\ call'[t].next = "idle"
                /\ call'[t].ev.kind = "object" /\ call'[t].ev.n <= ops'
  <2>1. CASE ObjectEvent(t)
    BY <1>1, <2>1, ObjectBegins DEF EmitPC
  <2>2. CASE Passes(t) \/ call'[t] = call[t]
    <3>1. /\ call'[t].op = call[t].op /\ call'[t].ev = call[t].ev /\ call'[t].next = call[t].next
          /\ call[t].pc \in EmitPC => call'[t].pc \in EmitPC
      BY <2>2, PassFacts
    <3>2. CASE Apart(call[t])
      BY <3>1, <3>2 DEF Apart
    <3>3. CASE ~Apart(call[t])
      <4>1. /\ call[t].op = "object" /\ call[t].pc \in EmitPC /\ call[t].next = "idle"
            /\ call[t].ev.kind = "object" /\ call[t].ev.n <= ops
        BY <3>3 DEF ObjectInv
      <4>2. call[t].ev.n \in Nat
        BY DEF TypeOK, Frame, Event
      <4>3. QED
        BY <1>1, <3>1, <4>1, <4>2
    <3>4. QED
      BY <3>2, <3>3
  <2>3. QED
    BY <2>1, <2>2, ObjectMoves
<1>3. ASSUME NEW t \in Thread, NEW u \in Thread, t # u, call'[t].op = "object", call'[u].op = "object",
             ObjectEvent(t)
      PROVE  call'[t].ev # call'[u].ev
  <2>1. call'[u] = call[u] /\ call'[t].ev.n = ops + 1
    BY <1>1, <1>3, ObjectBegins
  <2>2. call[u].ev.n \in Nat /\ call[u].ev.n <= ops
    BY <1>3, <2>1 DEF ObjectInv, Apart, TypeOK, Frame, Event
  <2>3. QED
    BY <1>1, <2>1, <2>2
<1>4. ASSUME NEW t \in Thread, NEW u \in Thread, t # u, call'[t].op = "object", call'[u].op = "object"
      PROVE  call'[t].ev # call'[u].ev
  <2>1. CASE ObjectEvent(t) \/ ObjectEvent(u)
    BY <1>3, <1>4, <2>1
  <2>2. CASE ~ObjectEvent(t) /\ ~ObjectEvent(u)
    <3>1. /\ call[t].op = "object" /\ call'[t].ev = call[t].ev
          /\ call[u].op = "object" /\ call'[u].ev = call[u].ev
      BY <1>4, <2>2, SameEvent
    <3>2. QED
      BY <1>4, <3>1 DEF ObjectInv
  <2>3. QED
    BY <2>1, <2>2
<1>5. QED
  <2> DEFINE Told(f, n) == /\ f.op = "object" /\ f.pc \in EmitPC /\ f.next = "idle"
                           /\ f.ev.kind = "object" /\ f.ev.n <= n
  <2>1. \A t \in Thread : Apart(call'[t]) \/ Told(call'[t], ops')
    BY <1>2
  <2>2. ObjectInv' <=>
          /\ ops' \in Nat
          /\ \A t \in Thread : Apart(call'[t]) \/ Told(call'[t], ops')
          /\ \A t, u \in Thread : t # u /\ call'[t].op = "object" /\ call'[u].op = "object"
               => call'[t].ev # call'[u].ev
    BY DEF ObjectInv, Apart
  <2> HIDE DEF Told
  <2>3. QED
    BY <1>1, <1>4, <2>1, <2>2

-----------------------------------------------------------------------------
(* Where an object event is *)

LEMMA Appended ==
  ASSUME NEW S, NEW s \in Seq(S), NEW x \in S, NEW y \in S
  PROVE  /\ \A z : z # y => (On(Append(s, y), z) <=> On(s, z))
         /\ x # y /\ Only(s, x) => Only(Append(s, y), x)
         /\ ~On(s, x) => Only(Append(s, x), x)
<1>1. Len(s) \in Nat
  BY LenProperties
<1>2. ASSUME NEW c \in S
      PROVE  /\ Len(Append(s, c)) = Len(s) + 1
             /\ \A i \in 1..Len(s) : Append(s, c)[i] = s[i]
             /\ Append(s, c)[Len(s) + 1] = c
             /\ \A i \in 1..Len(Append(s, c)) : i \in 1..Len(s) \/ i = Len(s) + 1
             /\ \A i \in 1..Len(s) : i \in 1..Len(Append(s, c)) /\ i # Len(s) + 1
             /\ Len(s) + 1 \in 1..Len(Append(s, c))
  <2>1. /\ Len(Append(s, c)) = Len(s) + 1
        /\ \A i \in 1..Len(s) : Append(s, c)[i] = s[i]
        /\ Append(s, c)[Len(s) + 1] = c
    BY AppendProperties
  <2>2. QED
    BY <1>1, <2>1
<1> DEFINE a(c) == Append(s, c)
<1>3. ASSUME NEW z, z # y
      PROVE  On(a(y), z) <=> On(s, z)
  BY <1>2, <1>3 DEF On
<1>4. ASSUME x # y, Only(s, x)
      PROVE  Only(a(y), x)
  <2>1. PICK i \in 1..Len(s) : \A j \in 1..Len(s) : s[j] = x <=> j = i
    BY <1>4 DEF Only
  <2>2. \A j \in 1..Len(a(y)) : a(y)[j] = x <=> j = i
    BY <1>2, <1>4, <2>1
  <2>3. QED
    BY <1>2, <2>2 DEF Only
<1>5. ASSUME ~On(s, x)
      PROVE  Only(a(x), x)
  <2>1. \A j \in 1..Len(a(x)) : a(x)[j] = x <=> j = Len(s) + 1
    BY <1>2, <1>5 DEF On
  <2>2. QED
    BY <1>2, <2>1 DEF Only
<1>6. QED
  BY <1>3, <1>4, <1>5

LEMMA OnlyOnce ==
  ASSUME NEW s, NEW x, Only(s, x)
  PROVE  Once(s, x)
<1>1. PICK i \in 1..Len(s) : \A j \in 1..Len(s) : s[j] = x <=> j = i
  BY DEF Only
<1>2. {j \in 1..Len(s) : s[j] = x} = {i}
  BY <1>1
<1>3. QED
  BY <1>2, FS_Singleton DEF Once

\* What a step puts on the wire.
LEMMA WireMoves ==
  ASSUME TypeOK, CallInv, [Next]_vars
  PROVE  /\ \/ UNCHANGED wire
            \/ \E t \in Thread :
                 SendHeader(t) /\ wire' = Append(wire, [part |-> "header", ev |-> call[t].ev])
            \/ \E t \in Thread :
                 SendPayload(t) /\ wire' = Append(wire, Payload(call[t].ev))
         /\ pipe_' => pipe_ \/ \E t \in Thread : Connect(t)
<1>1. CASE UNCHANGED <<call, pipeVars>> \/ Dies
           \/ \E t \in Thread : Quiet(t) \/ Offers(t) \/ LastOffer(t)
  BY <1>1 DEF Dies, Quiet, Offers, LastOffer, pipeVars
<1>2. CASE LauncherActs
  BY <1>2 DEF LauncherActs, ServerCloses, ServerReads
<1>3. ASSUME NEW t \in Thread, SendHeader(t)
      PROVE  /\ \/ UNCHANGED wire
                \/ wire' = Append(wire, [part |-> "header", ev |-> call[t].ev])
             /\ pipe_' => pipe_
  BY <1>3 DEF SendHeader, WaitForReader, WriteFails, WriteHeader, Write, ClosePipe
<1>4. ASSUME NEW t \in Thread, SendPayload(t)
      PROVE  /\ UNCHANGED wire \/ wire' = Append(wire, Payload(call[t].ev))
             /\ pipe_' => pipe_
  BY <1>4 DEF SendPayload, WriteFails, WritePayload, Write, ClosePipe, Payload
<1>5. ASSUME NEW t \in Thread, SendCheck(t) \/ ClosePipeAtDetach(t)
      PROVE  UNCHANGED wire /\ (pipe_' => pipe_)
  BY <1>5 DEF SendCheck, ClosePipeAtDetach, ClosePipe, pipeVars
<1>6. ASSUME NEW t \in Thread, Connect(t)
      PROVE  UNCHANGED wire
  BY <1>6 DEF Connect
<1>7. QED
  BY <1>1, <1>2, <1>3, <1>4, <1>5, <1>6, StepKind DEF PipeStep

\* What a step does to the lines of the files.
LEMMA FileMoves ==
  ASSUME TypeOK, [Next]_vars
  PROVE  \/ \A i \in 1..Len(files') :
              \/ files'[i].lines = <<>>
              \/ i \in 1..Len(files) /\ files'[i].lines = files[i].lines
         \/ \E t \in Thread :
              /\ WriteLine(t) /\ file_ # 0 /\ Len(files') = Len(files)
              /\ \A i \in 1..Len(files) :
                   files'[i].lines = IF i = file_ THEN Append(files[i].lines, call[t].ev)
                                                  ELSE files[i].lines
<1> DEFINE Kept == \A i \in 1..Len(files') :
              \/ files'[i].lines = <<>>
              \/ i \in 1..Len(files) /\ files'[i].lines = files[i].lines
<1>1. FilesOK
  BY DEF TypeOK, FilesOK
<1>2. ASSUME files' = files
      PROVE  Kept
  BY <1>2
<1>3. ASSUME files' = CloseFile(files)
      PROVE  Kept
  BY <1>1, <1>3, CloseFileLines
<1>4. ASSUME NEW by \in {"attach", "start"}, OpenLog(by)
      PROVE  Kept
  <2>1. /\ Len(files) \in Nat
        /\ \A j \in 1..Len(files) : files'[j].lines = files[j].lines
        /\ \/ Len(files') = Len(files)
           \/ /\ Len(files') = Len(files) + 1 /\ file_' = Len(files')
              /\ files'[file_'].lines = <<>>
    BY <1>1, <1>4, OpenFacts
  <2>2. QED
    BY <2>1
<1>5. ASSUME NEW t \in Thread, WriteLine(t)
      PROVE  \/ Kept
             \/ /\ file_ # 0 /\ Len(files') = Len(files)
                /\ \A i \in 1..Len(files) :
                     files'[i].lines = IF i = file_ THEN Append(files[i].lines, call[t].ev)
                                                    ELSE files[i].lines
  <2>1. PICK e \in Event : e = call[t].ev
    BY DEF TypeOK, Frame
  <2>2. CASE file_ # 0 /\ files' = [files EXCEPT ![file_].lines = Append(@, call[t].ev)]
    BY ONLY <1>1, <2>1, <2>2, LineFacts
  <2>3. CASE file_ # 0 /\ files' = [files EXCEPT ![file_].lost = @ \cup {call[t].ev}]
    <3>1. /\ Len(files') = Len(files)
          /\ \A i \in 1..Len(files) : files'[i].lines = files[i].lines
      BY ONLY <1>1, <2>1, <2>3, LossFacts
    <3>2. QED
      BY <3>1
  <2>4. QED
    BY <1>2, <1>5, <2>2, <2>3 DEF WriteLine
<1>6. ASSUME NEW t \in Thread, Environment(t)
      PROVE  files' = files
  BY <1>6 DEF Environment, Attach, ObjectEvent, StartLogging, StopLogging, LoadModule,
     UnloadModule, Detach, logVars
<1>7. ASSUME NEW t \in Thread, Continue(t), ~WriteLine(t)
      PROVE  Kept
  <2>1. CASE OpenAtAttach(t) \/ OpenAtStart(t)
    BY <1>4, <2>1 DEF OpenAtAttach, OpenAtStart
  <2>2. CASE CloseLog(t) \/ CloseLogAtDetach(t)
    BY <1>3, <2>2 DEF CloseLog, CloseLogAtDetach
  <2>3. CASE ~(OpenAtAttach(t) \/ OpenAtStart(t) \/ CloseLog(t) \/ CloseLogAtDetach(t))
    <3>1. files' = files
      BY <1>7, <2>3 DEF Continue, SendCheck, SendHeader, SendPayload, AppendCheck, AppendLock,
         StartModuleTracking, EmitModuleLoaded, FaultOnUnmapped, Register, UnlockLoader,
         Connect, LoadD3D12, InstallExportHooks, StopModuleTracking, ClosePipeAtDetach, logVars
    <3>2. QED
      BY <1>2, <3>1
  <2>4. QED
    BY <2>1, <2>2, <2>3
<1>8. ASSUME UNCHANGED vars \/ LauncherActs
      PROVE  Kept
  BY <1>2, <1>8 DEF vars, LauncherActs, ServerCloses, ServerReads, logVars
<1> DEFINE Wrote(t) ==
             /\ WriteLine(t) /\ file_ # 0 /\ Len(files') = Len(files)
             /\ \A i \in 1..Len(files) :
                  files'[i].lines = IF i = file_ THEN Append(files[i].lines, call[t].ev)
                                                 ELSE files[i].lines
<1>9. ASSUME NEW t \in Thread, WriteLine(t)
      PROVE  Kept \/ Wrote(t)
  BY <1>5, <1>9
<1>10. QED
  <2> HIDE DEF Kept, Wrote
  <2>1. ASSUME NEW t \in Thread, Environment(t) \/ Continue(t)
        PROVE  Kept \/ Wrote(t)
    BY <1>2, <1>6, <1>7, <1>9, <2>1
  <2>2. Kept \/ \E t \in Thread : Wrote(t)
    BY <1>8, <2>1 DEF Next
  <2>3. QED
    BY <2>2 DEF Kept, Wrote

LEMMA EventsDiffer ==
  ASSUME ObjectInv, NEW t \in Thread, NEW u \in Thread, t # u, call[u].op = "object"
  PROVE  call[t].ev # call[u].ev
<1>1. CASE call[t].op = "object"
  BY <1>1 DEF ObjectInv
<1>2. CASE call[t].op # "object"
  BY <1>2 DEF ObjectInv, Apart
<1>3. QED
  BY <1>1, <1>2

\* The number of an event in progress has been given out.
LEMMA NumbersKnown ==
  ASSUME TypeOK, ObjectInv, NEW t \in Thread
  PROVE  /\ call[t].ev \in Event /\ call[t].ev.n \in Nat
         /\ call[t].ev.kind = "object" => call[t].ev.n <= ops
<1>1. call[t].ev \in Event /\ call[t].ev.n \in Nat
  BY DEF TypeOK, Frame, Event
<1>2. QED
  BY <1>1 DEF ObjectInv, Apart

LEMMA PastStep ==
  ASSUME TypeOK, CallInv, ObjectInv, PastInv, [Next]_vars
  PROVE  PastInv'
<1>1. ops \in Nat /\ ops' \in Nat /\ ops <= ops'
  BY OpsGrow DEF ObjectInv
<1> DEFINE Old(e) == e.kind = "object" => e.n <= ops
           Now(e) == e.kind = "object" => e.n <= ops'
<1>2. ASSUME NEW e \in Event, Old(e)
      PROVE  Now(e)
  <2>1. e.n \in Nat
    BY DEF Event
  <2>2. QED
    BY <1>1, <1>2, <2>1
<1>3. \A i \in 1..Len(wire') : Now(wire'[i].ev)
  <2>1. wire \in Seq(Chunk) /\ \A i \in 1..Len(wire) : wire[i].ev \in Event /\ Old(wire[i].ev)
    <3>1. \A i \in 1..Len(wire) : wire[i] \in Chunk
      BY ElementOfSeq DEF TypeOK
    <3>2. QED
      BY <3>1 DEF PastInv, TypeOK, Chunk
  <2>2. CASE UNCHANGED wire
    BY <1>2, <2>1, <2>2
  <2>3. ASSUME NEW t \in Thread, NEW part \in {"header", "payload"},
               wire' = Append(wire, [part |-> part, ev |-> call[t].ev])
        PROVE  \A i \in 1..Len(wire') : Now(wire'[i].ev)
    <3> DEFINE c == [part |-> part, ev |-> call[t].ev]
    <3>1. c \in Chunk /\ c.ev \in Event /\ Old(c.ev)
      BY NumbersKnown DEF Chunk
    <3>2. wire' = Append(wire, c)
      BY <2>3
    <3> HIDE DEF c
    <3>3. /\ Len(wire) \in Nat /\ Len(wire') = Len(wire) + 1
          /\ \A i \in 1..Len(wire) : wire'[i] = wire[i]
          /\ wire'[Len(wire) + 1] = c
      BY <2>1, <3>1, <3>2, AppendProperties, LenProperties
    <3>4. ASSUME NEW i \in 1..Len(wire')
          PROVE  Now(wire'[i].ev)
      <4>1. i \in 1..Len(wire) \/ i = Len(wire) + 1
        BY <3>3
      <4> HIDE DEF Old, Now
      <4>2. QED
        BY <1>2, <2>1, <3>1, <3>3, <4>1
    <3>5. QED
      BY <3>4
  <2>4. QED
    BY <2>2, <2>3, WireMoves DEF Payload
<1>4. ASSUME NEW i \in 1..Len(files'), NEW j \in 1..Len(files'[i].lines)
      PROVE  Now(files'[i].lines[j])
  <2>1. FilesOK
    BY DEF TypeOK, FilesOK
  <2>2. ASSUME NEW k \in 1..Len(files)
        PROVE  /\ files[k].lines \in Seq(Event)
               /\ \A x \in 1..Len(files[k].lines) :
                    files[k].lines[x] \in Event /\ Old(files[k].lines[x])
    <3>1. files[k].lines \in Seq(Event)
      BY <2>1, FileTypes
    <3>2. QED
      BY <3>1, ElementOfSeq DEF PastInv
  <2>3. CASE files'[i].lines = <<>>
    BY <2>3, EmptySeq
  <2>4. CASE i \in 1..Len(files) /\ files'[i].lines = files[i].lines
    BY <1>2, <2>2, <2>4
  <2>5. ASSUME NEW t \in Thread, i \in 1..Len(files),
               files'[i].lines = Append(files[i].lines, call[t].ev)
        PROVE  Now(files'[i].lines[j])
    <3> DEFINE l == files[i].lines
               e == call[t].ev
    <3>1. l \in Seq(Event) /\ e \in Event /\ Old(e) /\ files'[i].lines = Append(l, e)
      BY <2>2, <2>5, NumbersKnown
    <3>2. \A x \in 1..Len(l) : l[x] \in Event /\ Old(l[x])
      BY <2>2, <2>5
    <3> HIDE DEF l, e
    <3>3. /\ Len(l) \in Nat /\ Len(Append(l, e)) = Len(l) + 1
          /\ \A x \in 1..Len(l) : Append(l, e)[x] = l[x]
          /\ Append(l, e)[Len(l) + 1] = e
      BY <3>1, AppendProperties, LenProperties
    <3>4. j \in 1..Len(l) \/ j = Len(l) + 1
      BY <3>1, <3>3
    <3> HIDE DEF Old, Now
    <3>5. QED
      BY <1>2, <3>1, <3>2, <3>3, <3>4
  <2>6. QED
    BY <2>3, <2>4, <2>5, FileMoves
<1>5. QED
  BY <1>3, <1>4 DEF PastInv

\* Where a call in Send or Append gets to.
LEMMA PassKinds ==
  ASSUME TypeOK, CallInv, NEW t \in Thread, Passes(t)
  PROVE  \/ call[t].pc \in Sending /\ call'[t].pc \in Sending /\ ~SendPayload(t)
         \/ call'[t].pc \notin Sending /\ ~pipe_'
         \/ /\ SendPayload(t) /\ call[t].pc \in Sending /\ call'[t].pc \notin Sending
            /\ wire' = Append(wire, Payload(call[t].ev))
         \/ /\ call[t].pc \notin Sending /\ call'[t].pc \notin Sending
            /\ UNCHANGED <<pipe_, wire>>
<1>1. ASSUME NEW p, Goto(t, p)
      PROVE  call'[t].pc = p
  BY <1>1, GotoKeeps
<1>2. CASE SendCheck(t)
  BY <1>1, <1>2 DEF SendCheck, SendPayload, Sending, pipeVars
<1>3. CASE SendHeader(t)
  <2>1. call[t].pc = "header" /\ ~SendPayload(t)
    BY <1>3 DEF SendHeader, SendPayload
  <2>2. CASE WaitForReader(t)
    BY <2>1, <2>2 DEF WaitForReader, Sending
  <2>3. CASE WriteFails(t)
    BY <1>1, <2>3 DEF WriteFails, Sending, ClosePipe
  <2>4. CASE WriteHeader(t)
    BY <1>1, <2>1, <2>4 DEF WriteHeader, Sending
  <2>5. QED
    BY <1>3, <2>2, <2>3, <2>4 DEF SendHeader
<1>4. CASE SendPayload(t)
  BY <1>1, <1>4 DEF SendPayload, WriteFails, WritePayload, Write, Sending, ClosePipe, Payload
<1>5. CASE AppendCheck(t) \/ AppendLock(t)
  <2>1. call[t].pc \in {"append", "lock"} /\ UNCHANGED <<pipe_, wire>>
    BY <1>5 DEF AppendCheck, AppendLock, pipeVars
  <2>2. call'[t].pc \notin Sending
    <3>1. CASE AppendLock(t)
      BY <1>1, <3>1 DEF AppendLock, Sending
    <3>2. CASE AppendCheck(t) /\ file_ # 0
      BY <1>1, <3>2 DEF AppendCheck, Sending
    <3>3. CASE AppendCheck(t) /\ file_ = 0
      <4> DEFINE p == call[t].next
      <4>1. Resume(t, p) /\ p \in Labels
        BY <3>3 DEF AppendCheck, CallInv
      <4> HIDE DEF p
      <4>2. call'[t].pc = p
        BY <4>1, ResumeKeeps
      <4>3. QED
        BY <4>1, <4>2 DEF Labels, Sending
    <3>4. QED
      BY <1>5, <3>1, <3>2, <3>3
  <2>3. QED
    BY <2>1, <2>2 DEF Sending
<1>6. QED
  BY <1>2, <1>3, <1>4, <1>5 DEF Passes

LEMMA SentStep ==
  ASSUME TypeOK, CallInv, AloneInv, ObjectInv, PastInv, SentInv, [Next]_vars
  PROVE  SentInv'
<1> SUFFICES ASSUME NEW u \in Thread, call'[u].op = "object"
             PROVE  IF call'[u].pc \in Sending
                    THEN ~On(wire', Payload(call'[u].ev))
                    ELSE pipe_' => Only(wire', Payload(call'[u].ev))
  BY DEF SentInv
<1>1. wire \in Seq(Chunk) /\ ops \in Nat
  BY DEF TypeOK, ObjectInv
<1>2. CASE ObjectEvent(u)
  <2>1. /\ call'[u].pc = "send" /\ wire' = wire
        /\ call'[u].ev.kind = "object" /\ call'[u].ev.n = ops + 1
    BY <1>1, <1>2, ObjectBegins DEF pipeVars
  <2>2. ASSUME NEW i \in 1..Len(wire), wire[i] = Payload(call'[u].ev)
        PROVE  FALSE
    <3>1. wire[i].ev = call'[u].ev
      BY <2>2 DEF Payload
    <3>2. wire[i].ev.n <= ops
      BY <2>1, <3>1 DEF PastInv
    <3>3. QED
      BY <1>1, <2>1, <3>1, <3>2
  <2>3. QED
    BY <2>1, <2>2 DEF Sending, On
<1>3. CASE /\ call[u].op = "object" /\ call'[u].ev = call[u].ev
           /\ call'[u] = call[u] \/ Passes(u)
  <2> DEFINE x == Payload(call[u].ev)
             Added == SendPayload(u) /\ wire' = Append(wire, x)
  <2>1. x \in Chunk /\ x = Payload(call'[u].ev)
    BY <1>3, NumbersKnown DEF Payload, Chunk
  <2>2. IF call[u].pc \in Sending THEN ~On(wire, x) ELSE pipe_ => Only(wire, x)
    BY <1>3 DEF SentInv
  <2>3. /\ ~Added => (On(wire', x) <=> On(wire, x)) /\ (Only(wire, x) => Only(wire', x))
        /\ Added /\ ~On(wire, x) => Only(wire', x)
    <3>1. CASE UNCHANGED wire
      <4>1. ~Added
        <5>1. Len(wire) \in Nat /\ Len(Append(wire, x)) = Len(wire) + 1
          BY <1>1, <2>1, AppendProperties, LenProperties
        <5> HIDE DEF x
        <5>2. QED
          BY <3>1, <5>1
      <4> HIDE DEF x, Added
      <4>2. QED
        BY <3>1, <4>1
    <3>2. ASSUME NEW y \in Chunk, wire' = Append(wire, y), y # x
          PROVE  (On(wire', x) <=> On(wire, x)) /\ (Only(wire, x) => Only(wire', x))
      <4> HIDE DEF x
      <4>1. QED
        BY <1>1, <2>1, <3>2, Appended
    <3>3. ASSUME wire' = Append(wire, x), ~On(wire, x)
          PROVE  Only(wire', x)
      <4> HIDE DEF x
      <4>1. QED
        BY <1>1, <2>1, <3>3, Appended
    <3>4. ASSUME NEW t \in Thread, SendHeader(t),
                 wire' = Append(wire, [part |-> "header", ev |-> call[t].ev])
          PROVE  /\ ~Added
                 /\ (On(wire', x) <=> On(wire, x)) /\ (Only(wire, x) => Only(wire', x))
      <4> DEFINE y == [part |-> "header", ev |-> call[t].ev]
      <4>1. y \in Chunk /\ y # x
        BY NumbersKnown DEF Payload, Chunk
      <4>2. wire' = Append(wire, y)
        BY <3>4
      <4> HIDE DEF y, x
      <4>3. ~Added
        <5>1. /\ Len(wire) \in Nat
              /\ Append(wire, y)[Len(wire) + 1] = y /\ Append(wire, x)[Len(wire) + 1] = x
          BY <1>1, <2>1, <4>1, AppendProperties, LenProperties
        <5>2. QED
          BY <4>1, <4>2, <5>1
      <4>4. QED
        BY <3>2, <4>1, <4>2, <4>3
    <3>5. ASSUME NEW t \in Thread, SendPayload(t), wire' = Append(wire, Payload(call[t].ev))
          PROVE  \/ Added
                 \/ (On(wire', x) <=> On(wire, x)) /\ (Only(wire, x) => Only(wire', x))
      <4>1. CASE t = u
        BY <3>5, <4>1
      <4>2. CASE t # u
        <5>1. call[t].ev # call[u].ev
          BY <1>3, <4>2, EventsDiffer
        <5> DEFINE y == Payload(call[t].ev)
        <5>2. y \in Chunk /\ y # x
          BY <5>1, NumbersKnown DEF Payload, Chunk
        <5>3. wire' = Append(wire, y)
          BY <3>5
        <5> HIDE DEF y, x
        <5>4. QED
          BY <3>2, <5>2, <5>3
      <4>3. QED
        BY <4>1, <4>2
    <3>6. Added => wire' = Append(wire, x)
      OBVIOUS
    <3> HIDE DEF x, Added
    <3>7. QED
      BY <3>1, <3>3, <3>4, <3>5, <3>6, WireMoves
  <2>4. call[u].pc # "connect" /\ (pipe_' => pipe_)
    <3>1. call[u].pc # "connect" /\ call[u] # Idle
      BY <1>3, IdleFacts DEF ObjectInv, Apart, EmitPC
    <3>2. ASSUME NEW t \in Thread, Connect(t)
          PROVE  FALSE
      <4>1. call[t].pc = "connect"
        BY <3>2 DEF Connect
      <4>2. QED
        BY <3>1, <4>1 DEF AloneInv
    <3>3. QED
      BY <3>1, <3>2, WireMoves
  <2>5. CASE call'[u] = call[u]
    <3>1. ~Added
      <4>1. ASSUME SendPayload(u)
            PROVE  FALSE
        <5>1. call[u].pc = "payload" /\ Goto(u, "append")
          BY <4>1 DEF SendPayload, WriteFails, WritePayload
        <5>2. call'[u].pc = "append"
          BY <5>1, GotoKeeps
        <5>3. QED
          BY <2>5, <5>1, <5>2
      <4>2. QED
        BY <4>1
    <3> HIDE DEF x, Added
    <3>2. QED
      BY <2>1, <2>2, <2>3, <2>4, <2>5, <3>1
  <2>6. CASE Passes(u)
    <3>1. \/ call[u].pc \in Sending /\ call'[u].pc \in Sending /\ ~Added
          \/ call'[u].pc \notin Sending /\ ~pipe_'
          \/ Added /\ call[u].pc \in Sending /\ call'[u].pc \notin Sending
          \/ /\ call[u].pc \notin Sending /\ call'[u].pc \notin Sending
             /\ ~Added
      <4>1. SendPayload(u) => call[u].pc \in Sending
        BY DEF SendPayload, Sending
      <4>2. QED
        BY <2>6, <4>1, PassKinds
    <3> HIDE DEF x, Added
    <3>2. QED
      BY <2>1, <2>2, <2>3, <2>4, <3>1
  <2>7. QED
    BY <1>3, <2>5, <2>6
<1>4. QED
  BY <1>2, <1>3, SameEvent

LEMMA LoggedStep ==
  ASSUME TypeOK, CallInv, ObjectInv, PastInv, LoggedInv, [Next]_vars
  PROVE  LoggedInv'
<1> SUFFICES ASSUME NEW u \in Thread, call'[u].op = "object", NEW i \in 1..Len(files')
             PROVE  ~On(files'[i].lines, call'[u].ev)
  BY DEF LoggedInv
<1>1. FilesOK /\ ops \in Nat
  BY DEF TypeOK, FilesOK, ObjectInv
<1>2. CASE ObjectEvent(u)
  <2>1. /\ files' = files
        /\ call'[u].ev.kind = "object" /\ call'[u].ev.n = ops + 1
    BY <1>1, <1>2, ObjectBegins DEF logVars
  <2>2. ASSUME NEW j \in 1..Len(files[i].lines), files[i].lines[j] = call'[u].ev
        PROVE  FALSE
    <3>1. i \in 1..Len(files)
      BY <2>1
    <3>2. files[i].lines[j].n <= ops
      BY <2>1, <2>2, <3>1 DEF PastInv
    <3>3. QED
      BY <1>1, <2>1, <2>2, <3>2
  <2>3. QED
    BY <2>1, <2>2 DEF On
<1>3. CASE /\ call[u].op = "object" /\ call'[u].ev = call[u].ev
           /\ call'[u] = call[u] \/ Passes(u)
  <2> DEFINE e == call[u].ev
  <2>1. \A k \in 1..Len(files) : ~On(files[k].lines, e) /\ files[k].lines \in Seq(Event)
    BY <1>1, <1>3, FileTypes DEF LoggedInv
  <2>2. CASE files'[i].lines = <<>>
    BY <2>2, EmptySeq DEF On
  <2>3. CASE i \in 1..Len(files) /\ files'[i].lines = files[i].lines
    BY <1>3, <2>1, <2>3
  <2>4. ASSUME NEW t \in Thread, WriteLine(t), i \in 1..Len(files),
               files'[i].lines = Append(files[i].lines, call[t].ev)
        PROVE  ~On(files'[i].lines, call'[u].ev)
    <3>1. t # u
      <4>1. ASSUME t = u
            PROVE  FALSE
        <5>1. call[u].pc = "line" /\ Resume(u, call[u].next)
          BY <2>4, <4>1 DEF WriteLine
        <5>2. call[u].next = "idle"
          BY <1>3 DEF ObjectInv, Apart
        <5>3. call'[u] = Idle
          BY <5>1, <5>2, ResumeKeeps
        <5>4. QED
          BY <5>3, IdleFacts
      <4>2. QED
        BY <4>1
    <3> DEFINE l == files[i].lines
               y == call[t].ev
    <3>2. /\ y # e /\ y \in Event /\ e \in Event /\ l \in Seq(Event) /\ ~On(l, e)
          /\ files'[i].lines = Append(l, y)
      BY <1>3, <2>1, <2>4, <3>1, EventsDiffer, NumbersKnown
    <3> HIDE DEF l, y, e
    <3>3. ~On(Append(l, y), e)
      BY <3>2, Appended
    <3>4. QED
      BY <1>3, <3>2, <3>3 DEF e
  <2>5. QED
    <3>1. CASE \E t \in Thread :
              /\ WriteLine(t) /\ file_ # 0 /\ Len(files') = Len(files)
              /\ \A k \in 1..Len(files) :
                   files'[k].lines = IF k = file_ THEN Append(files[k].lines, call[t].ev)
                                                  ELSE files[k].lines
      <4>1. PICK t \in Thread :
              /\ WriteLine(t) /\ file_ # 0 /\ Len(files') = Len(files)
              /\ \A k \in 1..Len(files) :
                   files'[k].lines = IF k = file_ THEN Append(files[k].lines, call[t].ev)
                                                  ELSE files[k].lines
        BY <3>1
      <4>2. i \in 1..Len(files)
        BY <4>1
      <4>3. QED
        BY <2>3, <2>4, <4>1, <4>2
    <3>2. QED
      BY <2>2, <2>3, <3>1, FileMoves
<1>4. QED
  BY <1>2, <1>3, SameEvent

\* The last step of a call of a hook.
LEMMA ObjectEnds ==
  ASSUME TypeOK, ObjectInv, [Next]_vars, NEW t \in Thread,
         call[t].op = "object", call'[t] = Idle
  PROVE  WriteLine(t) \/ (AppendCheck(t) /\ file_ = 0)
<1>1. call[t] # Idle /\ Idle # Dead /\ call[t].pc \in EmitPC
  BY IdleFacts DEF ObjectInv, Apart
<1>2. Continue(t)
  BY <1>1, Mover, EnvironmentIdle
<1>3. \/ SendCheck(t) \/ SendHeader(t) \/ SendPayload(t) \/ AppendLock(t)
      \/ AppendCheck(t) \/ WriteLine(t)
  BY <1>1, <1>2 DEF EmitPC, Continue,
     StartModuleTracking, EmitModuleLoaded, FaultOnUnmapped, Register, UnlockLoader, Connect,
     OpenAtAttach, LoadD3D12, InstallExportHooks, OpenAtStart, CloseLog, StopModuleTracking,
     ClosePipeAtDetach, CloseLogAtDetach
<1>4. ASSUME NEW p \in EmitPC, Goto(t, p)
      PROVE  FALSE
  BY <1>4, GotoKeeps, IdleFacts DEF EmitPC
<1>5. CASE SendCheck(t) \/ SendHeader(t) \/ SendPayload(t) \/ AppendLock(t)
  <2>1. CASE SendCheck(t) \/ AppendLock(t)
    BY <1>4, <2>1 DEF SendCheck, AppendLock, EmitPC
  <2>2. CASE SendHeader(t) \/ SendPayload(t)
    BY <1>4, <2>2, SendGoes DEF EmitPC
  <2>3. QED
    BY <1>5, <2>1, <2>2
<1>6. CASE AppendCheck(t)
  BY <1>4, <1>6 DEF AppendCheck, EmitPC
<1>7. QED
  BY <1>3, <1>5, <1>6

LEMMA EventArrives ==
  ASSUME TypeOK, ObjectInv, SentInv, LoggedInv, [Next]_vars, NEW t \in Thread,
         call[t].op = "object", call'[t] = Idle
  PROVE  /\ file_' # 0 => \/ Once(files'[file_'].lines, call[t].ev)
                           \/ call[t].ev \in files'[file_'].lost
         /\ pipe_' => Once(wire', Payload(call[t].ev))
<1>1. WriteLine(t) \/ (AppendCheck(t) /\ file_ = 0)
  BY ObjectEnds
<1>2. UNCHANGED <<wire, pipe_, file_>> /\ call[t].pc \in {"append", "line"}
  BY <1>1 DEF WriteLine, AppendCheck, pipeVars, logVars
<1>3. pipe_' => Once(wire', Payload(call[t].ev))
  <2>1. call[t].pc \notin Sending
    BY <1>2 DEF Sending
  <2>2. pipe_ => Only(wire, Payload(call[t].ev))
    BY <2>1 DEF SentInv
  <2>3. QED
    BY <1>2, <2>2, OnlyOnce
<1>4. ASSUME file_' # 0
      PROVE  \/ Once(files'[file_'].lines, call[t].ev)
             \/ call[t].ev \in files'[file_'].lost
  <2> DEFINE l == files[file_].lines
             e == call[t].ev
  <2>1. FilesOK /\ file_ # 0 /\ WriteLine(t) /\ Len(files) \in Nat
    BY <1>1, <1>2, <1>4, LenProperties DEF TypeOK, FilesOK
  <2>2. file_ \in 1..Len(files) /\ e \in Event
    BY <2>1, NumbersKnown DEF FilesOK
  <2>3. l \in Seq(Event) /\ ~On(l, e)
    BY <2>1, <2>2, FileTypes DEF LoggedInv
  <2>4. CASE files' = [files EXCEPT ![file_].lines = Append(@, e)]
    <3>1. files'[file_].lines = Append(l, e)
      <4> HIDE DEF e
      <4>1. QED
        BY <2>1, <2>2, <2>4, LineFacts
    <3> HIDE DEF l
    <3>2. Only(Append(l, e), e)
      <4> HIDE DEF e
      <4>1. QED
        BY <2>2, <2>3, Appended
    <3>3. QED
      BY <1>2, <3>1, <3>2, OnlyOnce
  <2>5. CASE files' = [files EXCEPT ![file_].lost = @ \cup {e}]
    <3> HIDE DEF e
    <3>1. files'[file_].lost = files[file_].lost \cup {e}
      BY <2>1, <2>2, <2>5, LossFacts
    <3>2. QED
      BY <1>2, <3>1 DEF e
  <2>6. QED
    BY <2>1, <2>4, <2>5 DEF WriteLine
<1>5. QED
  BY <1>3, <1>4

\* An object event is on the wire and in the log exactly once when its hook is
\* done with it, if the pipe and the log are open then and writing that line did
\* not fail, whichever threads send, write, close, open and fail in between.
THEOREM EventsReachSinks == Spec => EventReachesOpenSinks
<1> DEFINE D == ObjectInv /\ PastInv /\ SentInv /\ LoggedInv
<1>1. Init => D
  <2> SUFFICES ASSUME Init PROVE D
    OBVIOUS
  <2>1. /\ wire = <<>> /\ files = <<>> /\ ops = 0 /\ \A t \in Thread : call[t] = Idle
    BY DEF Init
  <2>2. Apart(Idle) /\ Len(wire) = 0 /\ Len(files) = 0
    BY <2>1, IdleFacts, EmptySeq DEF Apart, NoEvent
  <2>3. ObjectInv
    BY <2>1, <2>2, IdleFacts DEF ObjectInv
  <2>4. PastInv
    BY <2>2 DEF PastInv
  <2>5. SentInv /\ LoggedInv
    BY <2>1, IdleFacts DEF SentInv, LoggedInv
  <2>6. QED
    BY <2>3, <2>4, <2>5
<1>2. Inv /\ D /\ [Next]_vars => D'
  BY ObjectStep, PastStep, SentStep, LoggedStep DEF Inv
<1>3. ASSUME Inv, D, [Next]_vars
      PROVE  [\A t \in Thread :
                call[t].op = "object" /\ call[t].pc \in EmitPC /\ call'[t] = Idle =>
                  /\ file_' # 0 => \/ Once(files'[file_'].lines, call[t].ev)
                                   \/ call[t].ev \in files'[file_'].lost
                  /\ pipe_' => Once(wire', [part |-> "payload", ev |-> call[t].ev])]_vars
  BY <1>3, EventArrives DEF Inv, Payload
<1>4. QED
  BY <1>1, <1>2, <1>3, InvHolds, PTL DEF Spec, EventReachesOpenSinks
=============================================================================
