# TLA+ models of dx12track

dx12track starts a Direct3D 12 program with a DLL injected into it. The DLL
hooks the methods that create, name and release D3D12 objects and reports them
as events, over a named pipe to the launcher and into a JSONL log. The launcher
keeps a model of the live objects, optionally joins it with ETW memory events,
and renders it on the console.

This directory holds models of that program in TLA+, the TLC configurations
that check them on small instances, and proofs for the TLA+ proof system. Paths
below are relative to the repository; `Tracker.cpp` without a directory is
`src/dll/Tracker.cpp`, `Main.cpp` is `src/launcher/Main.cpp`.

## The system

| component | state | operations | what makes it correct |
|---|---|---|---|
| object tracker (`Tracker.cpp`) | `objects_` by pointer, `next_id_`, `vtable_patches_`, `mu_` | Register, PatchVTableIfNew, OnReleaseToZero, OnSetName, LookupId, GetReal* | ids are born and die once; each sink tells each object's story in order; a hook always finds its original |
| object hooks (`ObjectHooks.cpp`) | none of their own | Hook_Release, Hook_SetName, Hook_SetPrivateData | no call of the application is swallowed or misreported |
| device hooks (`DeviceHooks.cpp`) | captured device methods | the Create* hooks, SetResidencyPriority | every created object is registered, placed resources name their heap |
| export and device vtable hooks (`Hooks.cpp`) | list of patched vtables, originals | InstallExportHooks, RemoveAllHooks, PatchDeviceVTable, the factory hooks | each vtable is patched once and keeps its real originals |
| pipe client (`PipeClient.cpp`) | `pipe_`, `mu_` | Connect, Send, Close | the byte stream stays framed; the handle is closed once |
| JSONL log (`JsonLog.cpp`) | `file_`, `mu_` | Open, Append, Close | hello is first; an event is in the file that was open |
| DLL life cycle (`DllMain.cpp`) | `g_capture_callstacks` | OnAttach, OnDetach | hello first, goodbye last; detach does not hang under the loader lock |
| public API (`PublicApi.cpp`) | none of its own | StartLogging, StopLogging | callable at any time, from any thread, repeatedly |
| module tracking (`Modules.cpp`) | `g_started`, `g_cookie` | StartModuleTracking, OnLdrNotification, StopModuleTracking | a log gives the mapped modules |
| pipe server (`PipeServer.cpp`) | `pipe_`, `reader_`, `stop_` | Create, ConnectAndStart, ReaderLoop, Stop | all events are read; Stop ends the reader |
| injector (`Injector.cpp`) | none | InjectDll | a target starts with the DLL or not at all |
| launcher main (`Main.cpp`) | local variables of `wmain` | create, inject, resume, connect, render, stop, summarise | the launcher ends when its target does, with a complete summary |
| launcher model (`Model.cpp`) | live objects, pointer index, ETW objects, totals | OnEvent, EtwOn*, snapshots | totals match the live set; an ETW object is joined to one object |
| sidecar (`Model.cpp`) | `side_`, `side_prebuf_` | EnableEtw, SideLine, FinishEtw | lines keep their order, `etw_hello` first and `etw_stats` last |
| ETW session (`EtwMonitor.cpp`) | session and trace handles | Start, Stop, EmergencyStop | no session is left behind, no live launcher's session is stopped |
| elevation (`Elevation.cpp`) | handoff between two launchers | Launch, Wait, Begin, SwitchConsole, ParentProcess | the target is the user's, whoever starts it |

How they interact. The application's threads run inside the hooks, which call
the tracker; the tracker emits through the global pipe client and the global
log, each with a lock of its own, after it has given up `mu_`. Module
notifications arrive on any thread under the loader lock of Windows, and so do
OnAttach and OnDetach. The pipe joins two processes: the DLL writes into it
while it is being attached, and the launcher starts to read only after the
injection has returned. The launcher's reader thread feeds the model, the main
thread renders it and watches the target; with `--etw`, the consumer thread of
the ETW session feeds the model as well, and all three write to the sidecar.
Launchers meet each other through names made of pids: a launcher that is not
elevated hands over to an elevated one, and each sweeps the ETW sessions that
dead ones have left.

What is hard. Two critical sections where a reader would expect one (release
and erase, name and report, open and hello, enumerate and register); checks
made without a lock and used under it; two sinks with an order of events each;
failures between the two writes of a message; threads that ExitProcess
terminates with locks in their hands; a bounded pipe that nobody reads yet;
calls whose failure nobody looks at (enumerating modules, registering for
notifications, writing a line, stopping a session);
a pid that names another process than it did a moment ago.
`PROJECT.json` lists the hazards line by line, with the properties that
would catch each, and a note where a property leaves the hazard itself out by
its premise.

## Modules

| module | models | state and actions |
|---|---|---|
| `Tracker` | `Tracker.cpp`, `ObjectHooks.cpp`, the Create* hooks of `DeviceHooks.cpp` | see below |
| `TrackerProofs`, `TrackerIds` | theorems about `Tracker` | |
| `Session` | `DllMain.cpp`, `PublicApi.cpp`, `PipeClient.cpp`, `JsonLog.cpp`, `Modules.cpp` | see below |
| `Channel` | what `PipeClient` promises: an abstract specification | a message is offered, delivered whole, or dropped |
| `SessionProofs` | theorems about `Session`, and that it implements `Channel` | |
| `Sidecar` | the sidecar file of `Model.cpp` | one operator per critical section of `Model::mu_` |
| `Launch` | `Main.cpp`, `Injector.cpp`, `PipeServer.cpp` and `Sidecar`, beside the injected thread and the target | see below |
| `LaunchProofs` | theorems about `Launch` and its sidecar | |
| `EtwJoin` | `Model.cpp` under `--etw`, beside the game, the runtime and the two feeds | see below |
| `EtwJoinProofs`, `EtwSettles` | theorems about `EtwJoin` | |
| `DeviceVTables` | `Hooks.cpp` | see below |
| `DeviceVTablesProofs` | theorems about `DeviceVTables` | |
| `Processes` | external: pids, handles and ends of Windows processes | born, ends, names |
| `EtwSession` | `EtwMonitor.cpp`, for all launchers | see below |
| `Elevation` | `Elevation.cpp`, for both launchers of a handover | see below |
| `Launchers` | `Main.cpp` around the two: `EtwSession` and `Elevation` composed with control events and kills | see below |
| `LaunchersProofs` | theorems about `Launchers` | |
| `MCTracker`, `MCSession`, `MCLaunchers` | symmetry sets for TLC | |
| `MCEtwJoin`, `MCDeviceVTables` | the games and the vtables of the instances | |

Each model is written at the grain at which its code can be interleaved.
`Tracker` assumes open sinks and looks at objects; `Session`
looks at the sinks and takes an object event as given; `Launch` counts events
and looks at the two processes; `EtwJoin` takes the events on the pipe as
atomic messages and looks at what the launcher makes of them; `DeviceVTables`
ends where `Tracker` begins, at the call of a hooked device method;
`Launchers` looks at several launchers and abstracts the target that `Launch`
is about. The operators of one that another abstracts are named in its header
comment.

### Tracker

A thread of the application has a frame in `call`: its label `pc`, the object
(`self`), the heap argument, the event being built and the name being set. An
action is one critical section of `Tracker::mu_` or one access to shared state
outside it:

* Create*: `HookCreate` (the real call), `LookupHeapId`, `PatchVTableIfNew`,
  `PatchSlot` for each of the three slots with `mu_` held, `Emplace`,
  `FetchId`, `Insert`, `EmitPipe`, `EmitLog`.
* Release: `HookRelease`, `ReleaseLookup`, `ReleaseReal`, `OnReleaseToZero`,
  and the emission of destroyed.
* SetName: `CallSetName`, `SetNameLookup`, then the SetPrivateData that the
  runtime makes through the vtable (`SetPrivateDataDispatch`,
  `SetPrivateDataLookup`, `HookSetPrivateData`, `InnerOnSetName`), then
  `OuterOnSetName`.
* SetResidencyPriority: `CallSetResidencyPriority`, `ResidencyLookup`.

The runtime is external. An object lives at an address and has an identity
(`serial`), which the code never sees and the properties need; its reference
count is the size of `refs[a]`. A record or an event carries, in `obj`, the
identity of the object its id was issued for.

What the application or the system may do beyond the well-behaved case is
enabled by the constant `Quirks` and remembered in `seen`, so that a property
can say under which of them it holds: `reuse` (an address is handed out again
while a final Release is still inside its hook), `shared` (Create* returns an
object that is alive), `naming` (two threads name one object at once), `clear`
(a name is removed), `protect` (VirtualProtect fails).

`RenamedPayload` has room for 255 characters of a name, whereas OnSetName compares
names in full. The constant `Cut` gives the beginning of a name; the payload shows
it (`Shown`), and the history field `full` says of which name it is. In the run
one of the names is the beginning of another. So two renamed events in a row may
look alike, and a reader then sees the beginnings of two different names; what
`NoRenameEcho` excludes is that one name is reported twice, and `NamesSettle`
promises the runtime's name as far as the payload has room for it. The shortening
of the names of modules and of the executable is data that no property is about.

### Session

A thread has a frame with its entry point (`attach`, `start`, `stop`, `object`,
`module`, `detach`, `exit`) and a label. `Send` is `SendCheck` (the unlocked
read of `pipe_`), `SendHeader` and `SendPayload` (with `pipe_mu` held between
them); `Append` is `AppendCheck`, `AppendLock`, `WriteLine`. `wire` is what the
launcher was sent, chunk by chunk; `files` are all log files ever created.
`loader` is the loader lock: attach, detach and module notifications hold it.

What Windows may refuse, and the code does not notice, happens here too.
`EnumProcessModules` fails or has no room for all modules: what it left out
is remembered in `missed`. The registration of notifications fails: `registered`
stays false, and loads and unloads go unreported. The WriteFile of a log line fails:
the line is in `lost` of that file, which stays open. Lost lines count as
operations, so that `MaxOps` bounds them; a line is written whole or not at all. The
pipe is `busy` while another client has its only instance: `Connect` then goes
round without looking at its deadline, for as long as that lasts. It is `full` when
a write has to wait for the launcher, which it does with `pipe_mu` held; only the
writer finds out, and `ServerReads` or `ServerCloses` ends it.
A module may bring others with it when d3d12.dll is loaded (`LoadD3D12`).
`Detach` with `exit` terminates every other thread where it stands, with the
locks it holds; with `detach` (FreeLibrary) the others go on until the DLL is
unmapped under them.

`Channel` is what the rest of the program takes the pipe client for: messages
are atomic, a thread's message is delivered once while the channel is open, and
is given up only if the channel is not open or with its thread. `Session`
implements it under the refinement mapping of its last section: the channel is
open while the pipe is at both ends, a thread inside `Send` has a message
pending, and what was received are the payloads on the wire. That is what allows
`Launch` to count events and `EtwJoin` to take them as messages.

### Launch

The pipe is a buffer of `Capacity` events. `startup` is the number of events
that OnAttach sends (hello and one per module); the injected thread sends them
while the target is suspended and the launcher waits in `InjectDll`. `main` is
the place of `wmain`, `reader` that of the reader thread: `read` has passed the
check of `stop_` but has not called ReadFile, `reading` is a pending read, the
only one that CancelIoEx can cancel. `prompt` says whether the reader keeps up
with the 200 ms that `wmain` gives it. `taken` says that another client came for
the only instance of the pipe: the DLL then never gets out of `Connect`, and
ConnectNamedPipe does not wait for it. The wait of `InjectDll` may time out on any
thread that is still attaching, slow or blocked. With `--etw` the consumer takes the
`records` of a session that ends when `wmain`, or somebody else, stops it; the STOP
of `wmain` may fail without being noticed, and ProcessTrace may give up before the
session ends.

`ReadEvent` takes a header and its payload at once. The reader's check of the magic
cannot fail, since both ends are built together and the stream is framed
(`WireWellFramed` of `Session`). A header that a dying client left without its
payload counts as no event: `ReadFails`.

The sidecar is the part of `Model` those threads share: each of its operators is
one critical section, composed into the step of the thread that calls it.
`given` remembers the lines in the order they were handed to `SideLine`; `file`
is what the file has, and the two differ by what waits in `side_prebuf_` for
hello.

### EtwJoin

`m` is the state of `Model`: `live`, the totals `bytes` and `loc`, `ptr`
(`ptr_to_id_`), `dead` (`dead_by_ptr_`), `children`, `etw` (`etw_objs_`),
`alias`, `byAddr`. The member functions that expect `mu_` to be held are
operators from a Model to a Model, in the order of the source; each handler
takes `mu_` once and is one action: `PipeCreated` and `PipeDestroyed` on the
reader thread, `OnEtw*` on the ETW consumer thread, `PollChild` and
`ForgetDead` (of `EtwTick`) on the main thread.

What they are told about is modelled beside them, because the join is right or
wrong only with respect to it. `Construct` and the hooks are steps of the game,
each with a time stamp; ETW records wait in `etwq` and pipe messages in `pipeq`,
each in its own order, and either may be far behind the other. `behind` chooses
between that and the regime the comments of `Model.cpp` expect, in which an ETW
record is handled after what the pipe has to say of its time. Pipe messages are
stamped before the lock under which they are written, so a stamp is anything
between the call and the message (`Message` takes the two extremes), and two
threads' messages may be in either order; `Overtaking` says whether a created
message may overtake the destroyed message of its predecessor at the address.

A group-change callback carries a batch, whose elements are handled one by one
under one lock; a record here is a batch of one. `ExitTime`
(`SetChildExitQpc`), which cuts off only what `exit_cutoff_ts_` cuts off too
once the exit has been noticed, is left out.

### DeviceVTables

`slot[v][s]` is what is in a slot of a vtable of the runtime: the function of
vtable `v`, or a hook. `orig` is `g_dev_originals` with the two `g_real_*` of the
factory chain: one original per method, whatever the vtable. `patched` is
`VTableSet`. A thread in a hook is at `hook` (before it calls the original),
`got` (before `AlreadyPatched`), `patch` (before a slot is captured) or `write`
(before it is overwritten). The probe for the highest device interface is the
constant `Version`. `Hook_D3D12GetInterface` looks at an object only if it was asked
for as `ID3D12SDKConfiguration1` (`Examined`); a configuration or a factory that
was asked for under another interface reaches the application unseen, and
`SeenAreHooked` says nothing of it.

### Launchers

`Processes` is what Windows guarantees: a pid names a process while it lives and
as long as somebody has a handle to it (`holds`), and then may be given to
another. `EtwSession` is the monitor of each launcher: Start with its sweep
(`Query`, `CheckName`, `StopStaleSession`, `StopOwnName`, `StartTrace`,
`EnableProviders`, `OpenTrace`), Stop, and `EmergencyStop`, which
runs on the thread of a control event beside all of them. The consumer is in
`Launch`; here Stop waits for it any time. Every STOP may be refused (a
launcher that is not elevated may start a session and yet have no right over
that of an elevated one), which nobody looks at; `denied` remembers by whom, and
`MaxDenied` bounds how many sessions that happens to. A session is
represented by the launcher that started it; the name the kernel knows it by is
its launcher's pid, so that stopping by name may hit another's.

`Elevation` has the original (`Decide`, `Declined`, `Accepted`, `NoHandle`,
`BeginWait`, `WaitOver`; after `NoHandle` it goes on alone although an elevated
instance runs) and the elevated instance (`NobodyWaits`, `OpenOriginal`, `OpenHandoff`,
`SwitchConsole`, `PublishConsole`, `Parents`). `Launchers` composes both into
`wmain`, with the creation of the target, control events (one per console, handled
on a thread of its own in every process attached to it) and kills at any step.
`recycled` remembers that a pid was given out while somebody relied on it, so
that the properties can say which of them that breaks.

## Runs

| run | result | what it shows |
|---|---|---|
| `tracker` | passes | all quirks: no call is swallowed, ids are born and die once, each sink keeps to the lifetime of each id, deaths are reported once and truly, names settle, as far as the payload shows them |
| `tracker_reuse` | violated | destroyed is emitted for a live object when its address was reused inside Hook_Release |
| `tracker_naming` | violated | two threads that name one object leave a name in the log that is not the object's |
| `session` | passes | framing, handles, hello, module streams, delivery to a sink that stays open, with all the failures above; the pipe client implements `Channel`; every call into the DLL returns, under fairness, but a `Connect` to a busy pipe |
| `session_hello` | violated | an event can precede hello in a log opened by StartLogging |
| `session_modules` | violated | a log opened by a second StartLogging does not give the mapped modules |
| `launch` | passes | no startup deadlock below the capacity of the pipe, complete summaries, a sidecar in order that ends with its statistics, the launcher finishes unless its ETW session cannot be stopped |
| `launch_connect` | violated | ConnectAndStart has no timeout |
| `etw_join` | passes | in any order of the two feeds: bindings agree from both ends, no index keeps what is gone, totals and locations match the live objects, an exiting game moves nothing; and the join ends with every live object bound to what it really is, in the documented regime |
| `etw_lifetime` | violated | an ETW object is bound, for a while, to the next object at its address |
| `device_vtables` | passes | no hook becomes an original and a hook finds its own object's method, each up to its limit; what a hook has looked at gets hooked |
| `launchers` | passes | no session is left behind but by a kill, an early Ctrl+C or a refused STOP, no live launcher's session is stopped by another, stale ones are, and an elevated launcher's target is its user's |

Each violated run checks a sentence of the documentation or of a comment,
quoted in `PROJECT.json` under `findings`.

### Bounds

* `tracker`: two threads, two addresses, one vtable, three names, of which one is
  the beginning of another, four calls of
  the application. Two threads are enough for each race here, since each is
  between one call and another; two addresses let a record be at the wrong one
  and a resource have a heap; four calls are create, create or name, release,
  and create again, the longest story a property tells. About 1.28 million states
  up to symmetry.
* `session`: two threads, one module, an enumeration buffer for one, two
  operations beside attach and detach. One module can be enumerated, missed, loaded
  and unloaded; two operations are an event against a StartLogging, a StopLogging,
  a module load or a failing write, and attach and detach come on top;
  `DX12TRACK_CALLSTACKS` set or not, the pipe busy or not. About 1.88 million states,
  without symmetry because of the liveness property.
* `launch`: a buffer of two, up to three startup events, three or more events in
  all: fewer than, as many as and more than the buffer holds; two ETW records and
  two lines of the sidecar, so that a line of each thread falls before and after
  hello. About 1.19 million states.
* `launchers`: three processes, two pids, one kill, one control event and one
  session that somebody may be refused to stop. Two
  processes make a handover, the third sweeps what they leave or is born with
  the pid of one of them, and with two pids that happens at once. About 2.79
  million states up to symmetry.
* `etw_join`: six games of two or three objects each (`MCEtwJoin`), with a bound
  of their own on re-reports, moves, losses and exits: a heap with a placed
  resource that moves twice; an allocation that moves while its game exits; an
  address used twice, with a re-report and a move; pipeline states that the
  runtime keeps after the last Release, on one address; an object of the
  runtime's own before tracked ones on its address; lost records between
  objects of different types. Each hazard of the join is about two objects at
  an address or a heap and its child. `Slack` is two stamped steps, so that
  stamps fall on either side of it; `DeadCap` 1 and `History` 5 make both ways
  of forgetting the dead happen. About 1.2 million states.
* `etw_lifetime`: one address used twice.
* `device_vtables`: two threads, one configuration, one factory, a device of
  version 10 and one of version 1, and a list of three places instead of eight,
  so that the last vtable finds it full. About 121,000 states.

What the properties except. Several hold but for a case that the code leaves
open, and then name that case. `RecordsNeverReplaced` and `SettledStreams` exclude
refused slots and shared objects, and `DestroyedIsDeath` the reuse of an address inside
Hook_Release (`tracker_reuse` shows what that does). `ModulesKnownFromAttach` asks for
a registration that succeeded and for all modules but the `missed` ones, and, with
`ModuleStreamsAlternate`, for a log that lost no line about a module;
`EventReachesOpenSinks` excepts the very line that failed to be written;
`HelloOpensAttachedSinks` a log whose hello was. `CallsReturn` excepts `Connect` on a busy
pipe (`RetriesBusyPipe`) and a lock that died with its owner. `SummaryIsComplete` takes
it that the 200 ms suffice (`prompt`). `StatsAreLast` excepts records that
ProcessTrace did not wait for, `LauncherFinishes` a launcher that waits for the
consumer of a session that could not be stopped. `NoSessionLeft` and `StaleSwept` except
sessions that somebody was refused to stop (`denied`).

`JoinSettles` assumes what it says: ETW behind the pipe, both feeds drained and
no call in a hook, no record lost, a game that still runs, and each death stamped
within `Slack` of the next construction at its address. `OriginalsAreReal` holds
up to `Limit` vtables and `CallsReachOwnMethod` with one vtable per class, the
case that `README.md:329-330` describes; without these premises TLC finds both
violated on the same instance (the ninth vtable is patched again and its hook
captured as the original, although `Hooks.cpp:28-29` calls patching again
harmless; a second device vtable replaces the originals of the first).

### Fairness

`session` assumes weak fairness of what a thread has begun (`Continue(t)`),
which is what the Windows scheduler gives a runnable thread, and of the launcher's
reader (`ServerReads`): a full pipe is read for as long as the launcher has its end of it.
The code relies on that, since its writes block. `ReaderLoop` reads until
`Stop`, at which the pipe's end goes with the process, and during startup, when there
is no reader, the launcher's wait for the injection ends after 30 s, and the target
with it. Nothing is assumed of the application or of the loader. A mutex is acquired by an action
that is enabled when it is free, and two threads that each write a bounded
number of events cannot starve one another in these instances. `launch` assumes
weak fairness of the launcher's two threads, of the consumer, of the injected
thread, of the timeout of an injection that does not return, and of the disappearance of a
target that has begun to exit; the target need not exit.
In `launch_connect` the same fairness does not help: the wait has no step.

`CHECK_DEADLOCK FALSE` is in every configuration because each of these systems
really stops: an application may make no more calls, a DLL is gone, a launcher
is done.

## Proofs

Proved for all values of the constants, assuming only what the modules assume
of them: in `Tracker`, that the three "none" values are not members of the sets
they extend (`ConstantsAssumption`); in `Session`, the same for "no thread" and
"no module", that there are finitely many modules, and the types of the rest
(`ConstantsAssumption`); in `EtwJoin`, the types of the games and bounds
(`JoinConstants`) and that "nothing" is no record (`NothingIsNoRecord`); in `Launch`,
that the bounds are numbers (`ConstantsAssumption`); in `DeviceVTables`, the
types of the constants and that a hook is no vtable (`VTableConstants`); in
`Processes` and `Launchers`, that nobody is no process, 0 is no pid, and the
bounds are numbers (`ProcessAssumption`, `LauncherAssumption`).

| theorem | module | property |
|---|---|---|
| `TypeCorrect` | `TrackerProofs` | `TypeOK` |
| `HooksFindReal` | `TrackerProofs` | `HookFindsReal` |
| `DestroyedAreDead` | `TrackerProofs` | `DestroyedIsDeath` |
| `BirthAndDeathOnce` | `TrackerIds` | `OneBirthOneDeath` |
| `MentionedWhileAlive` | `TrackerIds` | `EventsInsideLifetime` |
| `StreamsSettle` | `TrackerIds` | `SettledStreams` |
| `RecordsStay` | `TrackerIds` | `RecordsNeverReplaced` |
| `NoEchoes` | `TrackerIds` | `NoRenameEcho` |
| `NamesReported` | `TrackerIds` | `NamesSettle` |
| `TypeCorrect` | `DeviceVTablesProofs` | `TypeOK` |
| `TypeCorrect` | `SessionProofs` | `TypeOK` |
| `MessagesStayWhole` | `SessionProofs` | `WireWellFramed` |
| `HandlesCloseOnce` | `SessionProofs` | `NoHandleClosedTwice` |
| `AttachedSinksGetHello` | `SessionProofs` | `HelloOpensAttachedSinks` |
| `PipeIsAChannel` | `SessionProofs` | `ImplementsChannel` |
| `StreamsAlternate` | `SessionProofs` | `ModuleStreamsAlternate` |
| `AttachKnowsModules` | `SessionProofs` | `ModulesKnownFromAttach` |
| `EventsReachSinks` | `SessionProofs` | `EventReachesOpenSinks` |
| `TypeCorrect` | `EtwJoinProofs` | `TypeOK` |
| `BindingsCorrect` | `EtwJoinProofs` | `BindingsAgree` |
| `IndexesCorrect` | `EtwJoinProofs` | `IndexesAgree` |
| `TotalsCorrect` | `EtwJoinProofs` | `TotalsMatch` |
| `LocationsCorrect` | `EtwJoinProofs` | `LocationsFollowHeaps` |
| `TeardownCorrect` | `EtwJoinProofs` | `TeardownIgnored` |
| `JoinCorrect` | `EtwSettles` | `JoinSettles` |
| `TypeCorrect` | `LaunchProofs` | `TypeOK` |
| `StartupDoesNotDeadlock` | `LaunchProofs` | `NoStartupDeadlock` |
| `SummaryCoversAllEvents` | `LaunchProofs` | `SummaryIsComplete` |
| `SidecarKeepsOrder` | `LaunchProofs` | `SidecarInOrder` |
| `StatisticsCloseSidecar` | `LaunchProofs` | `StatsAreLast` |
| `NoHookIsItsOriginal` | `DeviceVTablesProofs` | `OriginalsAreReal` |
| `HooksForwardToOwn` | `DeviceVTablesProofs` | `CallsReachOwnMethod` |
| `SeenGetHooked` | `DeviceVTablesProofs` | `SeenAreHooked` |
| `TypeCorrect` | `LaunchersProofs` | `TypeOK` |
| `NoSessionIsLeft` | `LaunchersProofs` | `NoSessionLeft` |
| `StaleIsSwept` | `LaunchersProofs` | `StaleSwept` |
| `LiveSessionsAreKept` | `LaunchersProofs` | `LiveSessionsKept` |
| `TargetBelongsToUser` | `LaunchersProofs` | `TargetIsUsers` |

* `TypeCorrect` of `TrackerProofs`: `TypeOK` needs `CallOK` beside it (a call in
  progress is about an address), since a frame's type alone allows `NoAddr`.
* `HooksFindReal`: the inductive invariant `PatchInv` says who has `mu_`
  (`Mutex`), that a call's reference keeps its object and so its vtable
  (`Held`), that the vtable being patched has no entry yet (`PatchesOnce`), and
  where the original of each hooked slot is: in the map, or in the local of the
  thread that has `mu_` (`HookHasOriginal`). A thread that gets `mu_` finds it
  in the map, because nobody is patching then. `QuietStep` handles all steps
  but the three that patch.
* `DestroyedAreDead`: `DeathInv` relates records to objects. Register works for
  the object at its address (its caller holds a reference), a record is about
  the object at its address or about a dead one, and OnReleaseToZero runs for
  an address whose object is dead unless that address was reused meanwhile.
* `BirthAndDeathOnce`: `IdInv` follows an id. The right to send its created
  event stays with the thread that fetched it; the right to send its destroyed
  event passes from that thread to a record and from there to the thread that
  erases it, and is never in two places. No quirk breaks it.
* `MentionedWhileAlive`: `LifeInv` follows references. A thread mentions the id of
  an object, or of a parent heap, that it has a reference to (`FrameOK`), and
  nobody can be erasing that one; while the created event of an object is being
  sent only its creator has a reference, so whoever else finds the record finds
  it announced on both sinks (`RecordsAnnounced`).
* `StreamsSettle`, `RecordsStay`: `SettleInv` follows objects. Release of an object
  with a record is hooked (`RecordsTracked`, from `PatchedAreHooked`), so its last
  reference goes with `OnReleaseToZero`; every created event has a `Fate`: its
  record is in the map, or its destroyed event is being sent, or was sent. The
  address of an object that is being registered has no record (`RegistersFresh`),
  so `Insert` replaces none. `SettleStep` handles a step from what it does to the
  frame of its thread, the records, the slots and the sinks.
* `NoEchoes`: `NameInv` follows a name, in full, to the sinks. One thread names an object
  (`OneNamer`), and what it is about to send is what the record says
  (`RenamesOwn`); for each sink, `Told` says that the name in a record is the one
  its readers have, or such a thread is on its way to it, and then the name is
  new to them. The same formula is used for the pipe and for the log, with the
  labels at which the event is still due as its argument. Without `RenamesOwn`,
  which says that nobody else sends that id, `Told` is not inductive.
* `NamesReported`: `KeepInv` follows a name from the runtime to the record. All
  three slots of a remembered vtable are hooked (`AllHooked`), the vtable of an
  object with a record is remembered (`RecordsPatched`), so that a name that the
  runtime has is in the record, or OnSetName follows (`NamesFollow`, `NamesKnown`).
  With `NameInv` it goes on from there to both sinks, where its beginning is shown.
* `NoHookIsItsOriginal`: of `PatchInv` in `DeviceVTablesProofs`, while the list has
  room, a vtable that is being patched or has hooks is in the list, one thread
  patches it, and that thread's remaining slots are distinct and unhooked. That
  the list does have room when `AlreadyPatched` adds to it is a fact about
  cardinalities (`AddRespectsLimit`): what is listed is a proper subset of what
  has been seen.
* `HooksForwardToOwn`: `OwnInv` adds that the original of a hooked slot is its
  vtable's own; capturing cannot displace another vtable's original, since two
  vtables with a slot in common are of one class (`SlotsOf`).

* `SeenGetHooked`: `DoneInv` says of every slot of every vtable that a hook has
  looked at that it is hooked, or refused by VirtualProtect, or still to be
  done by a thread (`WillDo`); each step keeps the thread that will do it or
  does it.
* `SessionProofs`: `AloneInv` says that the pipe is connected once, by a thread
  that is alone in the DLL, `CallInv` that what is sent is an event and that
  Send returns to its caller. `FramingInv` says where a message can be half
  written: a header at the end of the wire has an owner, who holds `pipe_mu` and
  is about to write the payload, or died with it, or the pipe is broken.
  `HandleInv` and `ClosedInv` say that a handle in use was not closed. `StepKind`
  sorts the steps by what they do to pipe and wire, so that each of these, and
  the refinement, is proved kind by kind.
* `AttachedSinksGetHello`: `SoloInv` says that OnAttach runs alone in the DLL, under
  the loader lock, `HelloInv` that the pipe it connected is empty only while hello
  is on its way to it or it has failed, `GreetedInv` the same of a log that it
  opened and that is still open.
* `PipeIsAChannel`: the initial state maps to `Channel`'s, and each kind of step
  to a step of the channel or a stutter. `FramingInv` is what makes writing the
  payload the delivery of the whole message.
* `StreamsAlternate`, `AttachKnowsModules`: `TrackInv` says who may have something
  to report about a module: OnAttach, which goes through the stages
  `BeforeTracking`, `Enumerating` and `Registered`, and after it only who holds
  the loader lock, about the module it has just mapped or unmapped; every other
  call is `Mute`. `Taken` is what a sink must have been told so far of the modules
  that are mapped. `PipeFollows` and `LogFollows` say that of the modules a sink has
  been told of, a reader takes those for mapped that are in `Taken`, that it has
  been told of all of these but the `missed` ones, unless the registration failed
  (`Deaf`), and that its stream is sound up to there; each kind of step changes both
  sides alike.
* `EventsReachSinks`: `ObjectInv` says that a call of a hook is an emission from
  beginning to end, of an event that is nobody else's; `SentInv` that up to
  `SendPayload` its payload is not on the wire, and that afterwards it is there
  once or the pipe is closed for good, since it is connected only once, by a
  thread that is alone in the DLL (`AloneInv`); `LoggedInv` that until `WriteLine`
  its line is in no file.
* `EtwJoinProofs`: `Agree(M)` is what the maps of a `Model` say of each other: what
  is bound is bound both ways, an index leads to what is there, a heap's children
  are its live placed resources, totals are sums, effective locations follow
  heaps. Each member function is shown to keep it as a function on models (given
  any that agrees it returns one that does), so that a handler is dealt with by
  citing the functions it calls. `Inv` adds what they need of their arguments: the
  game does what a game can do (`Game`), and a message in a queue is about
  something that has happened and, if it destroys, comes once (`Feed`). That the
  totals are sums (`TotalsMatch`) needs an induction over finite sets; it is done
  by a minimal counterexample (`MinimalSet`, from `WFMin` of the library), which
  needs no operator parameter.
* `EtwSettles`: `JoinSettles` speaks of drained feeds only, so its invariant
  `Settling` says of each object what is still on its way. `Lifetimes` (of two
  objects at one address, one is freed before the other is made) and `Queue` (a
  record in the queue is about an object that was there at its time; a create is
  followed by its address) describe the game and what it has logged. `Progress`
  reads off from the records that wait for a library id how far the model has got
  with it: nothing is known, all but the address, or it leads to the ETW object at
  the address; `Entries` says that an ETW object is about one real object, which
  is tracked until its destroy record is handled. These need no premise beyond no
  record lost and a game that still runs (`Whole`). The pipe's half, `Present`
  and `Found`, holds while ETW is behind the pipe and each death is stamped within
  `Slack` of the next construction (`Fair`): the object that its application still
  has is the one at its address, and as soon as its ETW object has an address the
  two are bound. The handlers are dealt with by what they do to the model
  (`Rebinds`, `Regroups`, `Takes`, `Merges`, `Forgets`, proved in
  `EtwJoinProofs`), the steps of the game by what they log (`LogChain`). The
  invariant was checked by TLC on the instance of `etw_join` before it was proved.
* `LaunchProofs`: `StartupInv` says that until `InjectDll` returns OnAttach is all
  that sends, and has at most `startup` events in the pipe or still to send;
  `ReaderInv` says in which places of `wmain` the reader has ended, and that one
  given time has read all that a client which is gone has sent.
  For the sidecar, `MonitorInv` says how far the main sequence has come and what
  holds then of the session and its consumer, `ContentInv` that the file is
  `etw_hello` before all that was given, or, until hello, that the lines wait in
  the order given.
* `LaunchersProofs`: each launcher's labels, session and control events are
  related by invariants about that launcher alone (`Local`: `PlaceInv`,
  `SessionInv`, `CtrlInv`), which a step of another launcher cannot disturb.
  `LifeInv` and `OwnPids` say that pids of what exists are unique and that only
  the living hold handles. On them rest `SweepInv` (what a sweep found
  to be stale is stopped, still to be stopped, or its pid was reused) for `StaleSwept`, `CondemnedInv` (a name about to be stopped is
  that of no live process) for
  `LiveSessionsKept`, and `HandoverInv` (which process the elevated instance
  has opened at each label, and whose token it takes) for `TargetIsUsers`.

Only model-checked is liveness (`CallsReturn`, `LauncherFinishes`), which needs
ENABLED. Every other property that a run checks and finds to hold is proved.

What the proofs changed in the models. `ModuleStreamsAlternate` said that a sink is
told of no unload before the load, which turned out to need an enumeration that
lists all modules: one that it left out may be unloaded later. The property now
leaves out exactly the modules in `missed`. `EventReachesOpenSinks` asked for one
file to be open from the beginning of the emission to its end; the proof needs
only that a log is open at the end, so the property asks for no more. `EtwJoin`
writes its sums with folds, and `ModulesIn` quantifies over positions, because a
recursive operator or a filtered sequence is beyond the provers.

## Not modelled, and why

* The fields of payloads beside ids, pointers and names, the text of a log
  line, callstacks: data that no state change depends on.
* Diagnostics (`Diag.cpp`): events like any other. The clock (`Clock.cpp`): a
  conversion. Time stamps of the sinks are not modelled; reading the code for
  them, `DllMain.cpp:131` logs goodbye with `ts_ns` 0 although `FORMAT.md`
  describes the field as time since attach.
* The renderer: output only. MinHook and the ETW decoding library: third party.
* `WaitForDebuggerIfRequested`: a message box before anything is open.
* In `Model.cpp`: driver sizes, counters, residency operations, the
  statistics of the join, and the time base that comes with hello (ETW records
  and pipe messages are compared on one clock). An exit code of 259, which
  `PollChildLocked` takes for a running game until the process handle is
  signaled, is not distinguished.
* `RemoveAllHooks` leaves vtables patched; it comes only with the unmapping of
  the DLL or the end of the process.
* A log line of which WriteFile writes only a part.
* Argument parsing and process creation flags in `Main.cpp`.
* In `Elevation.cpp`: the text of the handoff (arguments, environment and working
  directory are one value here), the queries of tokens and SIDs, the messages to
  the user. UAC is a yes or a no. `--elevated-by` with the launcher's own pid, a manual
  test of the re-parenting path (`Elevation.h:86`), is left out.
* Narrow windows in the interplay of launchers that no run is about, since the
  premises of the properties of `Launchers` already name them. Between
  `ProcessIsAlive` and the stop of a session found stale, its pid may be given to
  a new launcher, whose session is then stopped, although a comment says that the
  sessions of running instances are left alone. A Ctrl+C between StartTrace and
  `SetConsoleCtrlHandler` leaves the session behind. The pid that the elevated
  instance is given may name another process by the time it opens it.
* A sidecar has no `etw_hello` when hello is never read, because the lines then
  stay in the buffer; `FORMAT.md:409-416` does not mention that case.

## Plan

What is left, in this order:

1. `EtwJoin`: driver sizes, counters and residency operations, which change
   totals that are shown and are not yet a property.
2. An abstract specification of object lifetimes (born, named, dead, per sink)
   that `Tracker` implements.
