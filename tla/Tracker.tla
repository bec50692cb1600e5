------------------------------- MODULE Tracker -------------------------------
(***************************************************************************)
(* The object tracker inside the injected DLL (src/src/dll/Tracker.cpp)    *)
(* together with the hooks that feed it (ObjectHooks.cpp for methods of    *)
(* tracked objects, DeviceHooks.cpp for the Create* methods of the         *)
(* device), run by any number of application threads.                      *)
(*                                                                         *)
(* A thread takes one step per critical section of mu_ and one step per    *)
(* access to state that other threads see outside it: the vtable slots,    *)
(* next_id_, the pipe and the log.  PatchVTableIfNew holds mu_ across      *)
(* several steps, because the slots it writes are read without mu_.  Both  *)
(* sinks are open throughout; what they do while they open, fail and close *)
(* is the subject of module Session.                                       *)
(*                                                                         *)
(* The D3D12 runtime and the application are external.  An object lives at *)
(* an address; refs[a] is the set of threads that hold a reference to it   *)
(* (its COM reference count is the size of that set, and {} is a freed     *)
(* address).  A thread calls a method only through a reference it holds.   *)
(***************************************************************************)
EXTENDS Integers, Sequences

CONSTANTS
  Thread,      \* application threads
  Addr,        \* addresses at which the runtime allocates objects
  VTable,      \* COM vtables of the runtime's classes
  Name,        \* non-empty debug names
  NoThread, NoAddr, NoName,
  Cut,         \* the first kMaxNameChars - 1 characters of a name
  Quirks,      \* which of AllQuirks the application and the system may show
  MaxCalls     \* bound: application calls in a behaviour

\* Things the tracker cannot rule out.  Once one has happened it is in `seen`.
\*   reuse    the allocator hands out an address whose final Release is still
\*            inside Hook_Release, before OnReleaseToZero
\*   shared   Create* returns an object that is already alive (the runtime
\*            returns one root signature for equal blobs)
\*   naming   two threads name one object at the same time
\*   clear    SetPrivateData removes the name of an object
\*   protect  VirtualProtect fails while a vtable slot is patched
AllQuirks == {"reuse", "shared", "naming", "clear", "protect"}

ASSUME ConstantsAssumption ==
  /\ NoThread \notin Thread
  /\ NoAddr \notin Addr
  /\ NoName \notin Name
  /\ Cut \in [Name -> Name]
  /\ Quirks \subseteq AllQuirks
  /\ MaxCalls \in Nat

VARIABLES
  refs,            \* external: threads that hold a reference, per address
  vt,              \* external: vtable of the object at an address
  serial,          \* external: identity of the object last created at an address
  rname,           \* external: the runtime's own debug name of the object
  born,            \* external: objects created so far
  dead,            \* history: objects whose reference count reached zero
  slot,            \* contents of the three patched slots of each vtable
  vtable_patches_, \* captured originals per vtable (Unpatched: no entry)
  cap,             \* the VTablePatch local of PatchVTableIfNew
  mu_,             \* holder of Tracker::mu_ across steps, or NoThread
  next_id_,
  objects_,        \* tracked record per address; id 0 means no entry
  call,            \* per thread: the hook call in progress
  pipe, log,       \* events accepted by GlobalPipe() and GlobalLog()
  calls,           \* application calls so far, at most MaxCalls
  seen             \* history: the quirks that have happened

runtimeVars == <<refs, vt, serial, rname, born, dead>>
patchVars   == <<slot, vtable_patches_, cap, mu_>>
trackVars   == <<next_id_, objects_>>
sinkVars    == <<pipe, log>>
vars == <<runtimeVars, patchVars, trackVars, call, sinkVars, calls, seen>>

-----------------------------------------------------------------------------
(* Data *)

\* kSlot_Release, kSlot_SetPrivateData, kSlot_SetName.
Slot == {"Release", "SetPrivateData", "SetName"}

\* No entry for the vtable in vtable_patches_.
Unpatched == [s \in Slot |-> "absent"]

AnyName == Name \cup {NoName}

\* What RenamedPayload::name holds of a name.
Shown(n) == IF n = NoName THEN NoName ELSE Cut[n]

\* Payloads, reduced to what tells events apart.  ptr is CreatedPayload's
\* object_ptr and ref its parent_heap_id.  Two fields are history and not in
\* the payload: obj, the identity of the COM object that the event's id was
\* issued for, and full, the name of which the payload has the beginning.
Event ==
  {e \in
    [kind : {"None", "Created", "Renamed", "Destroyed", "ResidencyPriority"},
     id : Nat, ptr : Addr \cup {NoAddr}, ref : Nat, name : AnyName,
     obj : Nat, full : AnyName] :
     e.name = Shown(e.full)}

NoEvent == [kind |-> "None", id |-> 0, ptr |-> NoAddr, ref |-> 0,
            name |-> NoName, obj |-> 0, full |-> NoName]

Record == [id : Nat, name : AnyName, obj : Nat]

NoRecord == [id |-> 0, name |-> NoName, obj |-> 0]

\* The call in progress of a thread: where it is, the object it is about
\* (self), the heap argument of CreatePlacedResource, the event being built,
\* the name being set, whether Hook_SetName is the outer frame, and where to
\* go on after an event has been sent.
Idle == [pc |-> "idle", self |-> NoAddr, heap |-> NoAddr, ev |-> NoEvent,
         name |-> NoName, outer |-> FALSE, next |-> "idle"]

PC == {"idle", "heapid", "patch", "Release", "SetPrivateData", "SetName",
       "emplace", "fetch", "insert", "relLookup", "relReal", "erase",
       "nameLookup", "spdCall", "spdLookup", "spdReal", "onSetName",
       "residency", "pipe", "log", "outer"}

Frame == [pc : PC, self : Addr \cup {NoAddr}, heap : Addr \cup {NoAddr},
          ev : Event, name : AnyName, outer : BOOLEAN,
          next : {"idle", "outer"}]

\* A slot of the vtable of the object at a is read when a method is called.
Hooked(a, s) == slot[vt[a]][s] = "hook"

\* What a step of t does to the call of t.
Become(t, frame) == call' = [call EXCEPT ![t] = frame]

Goto(t, label) == Become(t, [call[t] EXCEPT !.pc = label])

Return(t) == Become(t, Idle)

\* Send event e to both sinks, then go on at `next`.
Emit(t, e, next) ==
  Become(t, [call[t] EXCEPT !.pc = "pipe", !.ev = e, !.next = next])

\* A critical section of mu_ can run.
Free == mu_ = NoThread

Observe(q) == seen' = seen \cup q

AppCall == calls < MaxCalls /\ calls' = calls + 1

-----------------------------------------------------------------------------
(* External: allocation and reference counting *)

\* A final Release of the old object at a has returned 0 and Hook_Release has
\* not yet removed its record.
InReleaseWindow(a) ==
  \E t \in Thread : call[t].pc = "erase" /\ call[t].self = a

\* The runtime places a new object of class v at a free address.
Allocate(t, a, v) ==
  /\ refs[a] = {}
  /\ InReleaseWindow(a) => "reuse" \in Quirks
  /\ Observe(IF InReleaseWindow(a) THEN {"reuse"} ELSE {})
  /\ refs' = [refs EXCEPT ![a] = {t}]
  /\ vt' = [vt EXCEPT ![a] = v]
  /\ serial' = [serial EXCEPT ![a] = born + 1]
  /\ rname' = [rname EXCEPT ![a] = NoName]
  /\ born' = born + 1
  /\ UNCHANGED dead

\* The runtime makes an object without a hooked Create* call (swap-chain
\* buffers, interface versions without a hook).
RuntimeCreate(t, a, v) ==
  /\ AppCall
  /\ call[t] = Idle
  /\ Allocate(t, a, v)
  /\ UNCHANGED <<patchVars, trackVars, call, sinkVars>>

\* AddRef is not hooked: t hands a reference to u.
AddRef(t, u, a) ==
  /\ AppCall
  /\ call[t] = Idle
  /\ t \in refs[a] /\ u \notin refs[a]
  /\ refs' = [refs EXCEPT ![a] = @ \cup {u}]
  /\ UNCHANGED <<vt, serial, rname, born, dead, patchVars, trackVars, call,
                 sinkVars, seen>>

\* The runtime's own Release.
RealRelease(t, a) ==
  /\ refs' = [refs EXCEPT ![a] = @ \ {t}]
  /\ dead' = IF refs[a] = {t} THEN dead \cup {serial[a]} ELSE dead
  /\ UNCHANGED <<vt, serial, rname, born>>

-----------------------------------------------------------------------------
(* The Create* hooks (DeviceHooks.cpp) and Tracker::Register *)

\* CreatedPayload before the parent heap and the id are known.
CreatedEvent(a, obj) ==
  [NoEvent EXCEPT !.kind = "Created", !.ptr = a, !.obj = obj]

\* A Create* hook whose real call made an object, up to Track.  Only
\* CreatePlacedResource* has a heap, which the caller keeps alive.
HookCreate(t, a, v, h) ==
  /\ AppCall
  /\ call[t] = Idle
  /\ h # NoAddr => t \in refs[h]
  /\ Allocate(t, a, v)
  /\ Become(t, [Idle EXCEPT !.pc = IF h = NoAddr THEN "patch" ELSE "heapid",
                            !.self = a, !.heap = h,
                            !.ev = CreatedEvent(a, born + 1)])
  /\ UNCHANGED <<patchVars, trackVars, sinkVars>>

\* A Create* hook whose real call returned an object that is already alive.
HookCreateShared(t, a) ==
  /\ "shared" \in Quirks
  /\ AppCall
  /\ call[t] = Idle
  /\ refs[a] # {} /\ t \notin refs[a]
  /\ refs' = [refs EXCEPT ![a] = @ \cup {t}]
  /\ Observe({"shared"})
  /\ Become(t, [Idle EXCEPT !.pc = "patch", !.self = a,
                            !.ev = CreatedEvent(a, serial[a])])
  /\ UNCHANGED <<vt, serial, rname, born, dead, patchVars, trackVars,
                 sinkVars>>

\* LookupHeapId(pHeap).
LookupHeapId(t) ==
  /\ call[t].pc = "heapid"
  /\ Free
  /\ Become(t, [call[t] EXCEPT
       !.pc = "patch", !.ev = [@ EXCEPT !.ref = objects_[call[t].heap].id]])
  /\ UNCHANGED <<runtimeVars, patchVars, trackVars, sinkVars, calls, seen>>

\* PatchVTableIfNew finds the vtable, or keeps mu_ to patch it.
PatchVTableIfNew(t) ==
  /\ call[t].pc = "patch"
  /\ Free
  /\ \/ /\ vtable_patches_[vt[call[t].self]] # Unpatched
        /\ Goto(t, "fetch")
        /\ UNCHANGED <<mu_, cap>>
     \/ /\ vtable_patches_[vt[call[t].self]] = Unpatched
        /\ Goto(t, "Release")
        /\ mu_' = t
        /\ cap' = Unpatched
  /\ UNCHANGED <<runtimeVars, slot, vtable_patches_, trackVars, sinkVars,
                 calls, seen>>

AfterSlot(s) ==
  CASE s = "Release" -> "SetPrivateData"
    [] s = "SetPrivateData" -> "SetName"
    [] s = "SetName" -> "emplace"

\* PatchSlot captures the slot and installs the hook, or VirtualProtect fails
\* and the slot stays as it is.
PatchSlot(t, s) ==
  /\ call[t].pc = s
  /\ Goto(t, AfterSlot(s))
  /\ LET v == vt[call[t].self] IN
     \/ /\ cap' = [cap EXCEPT ![s] = slot[v][s]]
        /\ slot' = [slot EXCEPT ![v][s] = "hook"]
        /\ UNCHANGED seen
     \/ /\ "protect" \in Quirks
        /\ cap' = [cap EXCEPT ![s] = "null"]
        /\ Observe({"protect"})
        /\ UNCHANGED slot
  /\ UNCHANGED <<runtimeVars, vtable_patches_, mu_, trackVars, sinkVars, calls>>

\* The unselfref lambda: never keep our own hook as the original.
Unselfref(captured) == IF captured = "hook" THEN "null" ELSE captured

\* Mutant: mu_ is given up before the entry is in the map.
EmplaceAfterUnlock(t) ==
  /\ call[t].pc = "emplace"
  /\ \/ /\ mu_ = t
        /\ mu_' = NoThread
        /\ UNCHANGED <<vtable_patches_, call>>
     \/ /\ mu_ # t
        /\ vtable_patches_' = [vtable_patches_ EXCEPT
             ![vt[call[t].self]] = [s \in Slot |-> Unselfref(cap[s])]]
        /\ Goto(t, "fetch")
        /\ UNCHANGED mu_
  /\ UNCHANGED <<runtimeVars, slot, cap, trackVars, sinkVars, calls, seen>>

\* vtable_patches_.emplace, then the lock_guard of PatchVTableIfNew ends.
Emplace(t) ==
  /\ call[t].pc = "emplace"
  /\ vtable_patches_' = [vtable_patches_ EXCEPT
       ![vt[call[t].self]] = [s \in Slot |-> Unselfref(cap[s])]]
  /\ mu_' = NoThread
  /\ Goto(t, "fetch")
  /\ UNCHANGED <<runtimeVars, slot, cap, trackVars, sinkVars, calls, seen>>

\* Mutant: fetch_sub for fetch_add.
FetchIdSub(t) ==
  /\ call[t].pc = "fetch"
  /\ Become(t, [call[t] EXCEPT
       !.pc = "insert", !.ev = [@ EXCEPT !.id = next_id_]])
  /\ next_id_' = next_id_ - 1
  /\ UNCHANGED <<runtimeVars, patchVars, objects_, sinkVars, calls, seen>>

\* next_id_.fetch_add.
FetchId(t) ==
  /\ call[t].pc = "fetch"
  /\ Become(t, [call[t] EXCEPT
       !.pc = "insert", !.ev = [@ EXCEPT !.id = next_id_]])
  /\ next_id_' = next_id_ + 1
  /\ UNCHANGED <<runtimeVars, patchVars, objects_, sinkVars, calls, seen>>

\* objects_[obj] = info, whatever was there; EmitCreated is next.
Insert(t) ==
  /\ call[t].pc = "insert"
  /\ Free
  /\ objects_' = [objects_ EXCEPT ![call[t].self] =
       [id |-> call[t].ev.id, name |-> NoName, obj |-> call[t].ev.obj]]
  /\ Goto(t, "pipe")
  /\ UNCHANGED <<runtimeVars, patchVars, next_id_, sinkVars, calls, seen>>

-----------------------------------------------------------------------------
(* Emit*: the pipe first, then the log, each under a lock of its own *)

EmitPipe(t) ==
  /\ call[t].pc = "pipe"
  /\ pipe' = Append(pipe, call[t].ev)
  /\ Goto(t, "log")
  /\ UNCHANGED <<runtimeVars, patchVars, trackVars, log, calls, seen>>

\* After the log the hook returns, or Hook_SetName goes on.
EmitLog(t) ==
  /\ call[t].pc = "log"
  /\ log' = Append(log, call[t].ev)
  /\ IF call[t].next = "idle" THEN Return(t) ELSE Goto(t, call[t].next)
  /\ UNCHANGED <<runtimeVars, patchVars, trackVars, pipe, calls, seen>>

-----------------------------------------------------------------------------
(* Hook_Release and OnReleaseToZero *)

\* Release through a vtable whose slot holds the runtime's function.
ReleaseUnhooked(t, a) ==
  /\ AppCall
  /\ call[t] = Idle
  /\ t \in refs[a] /\ ~Hooked(a, "Release")
  /\ RealRelease(t, a)
  /\ UNCHANGED <<patchVars, trackVars, call, sinkVars, seen>>

HookRelease(t, a) ==
  /\ AppCall
  /\ call[t] = Idle
  /\ t \in refs[a] /\ Hooked(a, "Release")
  /\ Become(t, [Idle EXCEPT !.pc = "relLookup", !.self = a])
  /\ UNCHANGED <<runtimeVars, patchVars, trackVars, sinkVars, seen>>

\* The original that a hook of slot s finds for the object at a.
RealOf(a, s) == vtable_patches_[vt[a]][s]

\* GetRealRelease; without an original the call is not forwarded at all.
ReleaseLookup(t) ==
  /\ call[t].pc = "relLookup"
  /\ Free
  /\ IF RealOf(call[t].self, "Release") = "real"
       THEN Goto(t, "relReal") ELSE Return(t)
  /\ UNCHANGED <<runtimeVars, patchVars, trackVars, sinkVars, calls, seen>>

\* Mutant: every Release is taken for the last one.
ReleaseRealAnyCount(t) ==
  /\ call[t].pc = "relReal"
  /\ RealRelease(t, call[t].self)
  /\ Goto(t, "erase")
  /\ UNCHANGED <<patchVars, trackVars, sinkVars, calls, seen>>

\* Mutant: the count is compared with 1.
ReleaseRealOffByOne(t) ==
  /\ call[t].pc = "relReal"
  /\ RealRelease(t, call[t].self)
  /\ IF \E u \in Thread \ {t} : refs[call[t].self] = {t, u}
       THEN Goto(t, "erase") ELSE Return(t)
  /\ UNCHANGED <<patchVars, trackVars, sinkVars, calls, seen>>

\* The real Release; OnReleaseToZero follows if it returned 0.
ReleaseReal(t) ==
  /\ call[t].pc = "relReal"
  /\ RealRelease(t, call[t].self)
  /\ IF refs[call[t].self] = {t} THEN Goto(t, "erase") ELSE Return(t)
  /\ UNCHANGED <<patchVars, trackVars, sinkVars, calls, seen>>

DestroyedEvent(r) ==
  [NoEvent EXCEPT !.kind = "Destroyed", !.id = r.id, !.obj = r.obj]

\* Mutant: the record stays in the map.
OnReleaseToZeroKeeps(t) ==
  /\ call[t].pc = "erase"
  /\ Free
  /\ IF objects_[call[t].self].id = 0 THEN Return(t)
     ELSE Emit(t, DestroyedEvent(objects_[call[t].self]), "idle")
  /\ UNCHANGED <<runtimeVars, patchVars, trackVars, sinkVars, calls, seen>>

\* OnReleaseToZero's locked part: find, take the id, erase.
OnReleaseToZero(t) ==
  /\ call[t].pc = "erase"
  /\ Free
  /\ LET r == objects_[call[t].self] IN
     IF r.id = 0
     THEN Return(t) /\ UNCHANGED objects_
     ELSE /\ objects_' = [objects_ EXCEPT ![call[t].self] = NoRecord]
          /\ Emit(t, DestroyedEvent(r), "idle")
  /\ UNCHANGED <<runtimeVars, patchVars, next_id_, sinkVars, calls, seen>>

-----------------------------------------------------------------------------
(* Hook_SetName, Hook_SetPrivateData and OnSetName *)

NamingPC == {"nameLookup", "spdCall", "spdLookup", "spdReal", "onSetName", "outer"}

\* u is inside a naming call on the object at a.
InNamingCall(u, a) ==
  /\ call[u].self = a
  /\ \/ call[u].pc \in NamingPC
     \/ call[u].pc \in {"pipe", "log"} /\ call[u].ev.kind = "Renamed"

\* The quirks that a thread starting to name the object at a brings about.
NamingQuirks(t, a) ==
  IF \E u \in Thread \ {t} : InNamingCall(u, a) THEN {"naming"} ELSE {}

\* The application calls SetName.  The runtime's SetName forwards to
\* SetPrivateData through the vtable.
CallSetName(t, a, n) ==
  /\ AppCall
  /\ call[t] = Idle
  /\ t \in refs[a]
  /\ NamingQuirks(t, a) \subseteq Quirks
  /\ Observe(NamingQuirks(t, a))
  /\ Become(t, [Idle EXCEPT
       !.pc = IF Hooked(a, "SetName") THEN "nameLookup" ELSE "spdCall",
       !.self = a, !.name = n, !.outer = Hooked(a, "SetName")])
  /\ UNCHANGED <<runtimeVars, patchVars, trackVars, sinkVars>>

\* The application calls SetPrivateData with a debug-name GUID; NoName stands
\* for a call without data, which removes the name.
CallSetPrivateData(t, a, n) ==
  LET q == NamingQuirks(t, a) \cup (IF n = NoName THEN {"clear"} ELSE {}) IN
  /\ AppCall
  /\ call[t] = Idle
  /\ t \in refs[a]
  /\ q \subseteq Quirks
  /\ Observe(q)
  /\ Become(t, [Idle EXCEPT !.pc = "spdCall", !.self = a, !.name = n])
  /\ UNCHANGED <<runtimeVars, patchVars, trackVars, sinkVars>>

\* GetRealSetName; without an original the call is dropped.
SetNameLookup(t) ==
  /\ call[t].pc = "nameLookup"
  /\ Free
  /\ IF RealOf(call[t].self, "SetName") = "real"
       THEN Goto(t, "spdCall") ELSE Return(t)
  /\ UNCHANGED <<runtimeVars, patchVars, trackVars, sinkVars, calls, seen>>

\* Where a naming call goes on once SetPrivateData has returned to it.
AfterSetPrivateData(t) == IF call[t].outer THEN Goto(t, "outer") ELSE Return(t)

\* The runtime's own SetPrivateData with a debug-name GUID.
RealSetPrivateData(t) ==
  /\ rname' = [rname EXCEPT ![call[t].self] = call[t].name]
  /\ UNCHANGED <<refs, vt, serial, born, dead>>

\* SetPrivateData is called through the vtable; without the hook it succeeds or
\* fails, and a failure is returned to the application through Hook_SetName.
SetPrivateDataDispatch(t) ==
  /\ call[t].pc = "spdCall"
  /\ \/ /\ Hooked(call[t].self, "SetPrivateData")
        /\ Goto(t, "spdLookup")
        /\ UNCHANGED runtimeVars
     \/ /\ ~Hooked(call[t].self, "SetPrivateData")
        /\ RealSetPrivateData(t)
        /\ AfterSetPrivateData(t)
     \/ /\ ~Hooked(call[t].self, "SetPrivateData")
        /\ Return(t)
        /\ UNCHANGED runtimeVars
  /\ UNCHANGED <<patchVars, trackVars, sinkVars, calls, seen>>

\* GetRealSetPrivateData; without an original the hook returns S_OK.
SetPrivateDataLookup(t) ==
  /\ call[t].pc = "spdLookup"
  /\ Free
  /\ IF RealOf(call[t].self, "SetPrivateData") = "real"
       THEN Goto(t, "spdReal") ELSE AfterSetPrivateData(t)
  /\ UNCHANGED <<runtimeVars, patchVars, trackVars, sinkVars, calls, seen>>

\* Mutant: names set with SetPrivateData are not passed on.
HookSetPrivateDataSilent(t) ==
  /\ call[t].pc = "spdReal"
  /\ RealSetPrivateData(t)
  /\ AfterSetPrivateData(t)
  /\ UNCHANGED <<patchVars, trackVars, sinkVars, calls, seen>>

\* The real SetPrivateData succeeds and only a non-empty name is passed on to
\* OnSetName, or it fails and the failure is returned through both frames.
HookSetPrivateData(t) ==
  /\ call[t].pc = "spdReal"
  /\ \/ /\ RealSetPrivateData(t)
        /\ IF call[t].name = NoName
             THEN AfterSetPrivateData(t) ELSE Goto(t, "onSetName")
     \/ Return(t) /\ UNCHANGED runtimeVars
  /\ UNCHANGED <<patchVars, trackVars, sinkVars, calls, seen>>

\* RenamedPayload has room for the beginning of the name only.
RenamedEvent(r, n) ==
  [NoEvent EXCEPT !.kind = "Renamed", !.id = r.id, !.name = Shown(n),
                  !.obj = r.obj, !.full = n]

\* Mutant: the record's name is not updated.
OnSetNameForgets(t, done) ==
  LET r == objects_[call[t].self]
      n == call[t].name IN
  /\ Free
  /\ IF r.id = 0 \/ r.name = n
     THEN IF done = "idle" THEN Return(t) ELSE Goto(t, done)
     ELSE Emit(t, RenamedEvent(r, n), done)
  /\ UNCHANGED <<runtimeVars, patchVars, trackVars, sinkVars, calls, seen>>

\* OnSetName is running for t and goes to `done` when it has nothing to emit;
\* otherwise it emits Renamed first.  It compares names in full.
OnSetName(t, done) ==
  LET r == objects_[call[t].self]
      n == call[t].name IN
  /\ Free
  /\ IF r.id = 0 \/ r.name = n
     THEN /\ IF done = "idle" THEN Return(t) ELSE Goto(t, done)
          /\ UNCHANGED objects_
     ELSE /\ objects_' = [objects_ EXCEPT ![call[t].self].name = n]
          /\ Emit(t, RenamedEvent(r, n), done)
  /\ UNCHANGED <<runtimeVars, patchVars, next_id_, sinkVars, calls, seen>>

\* OnSetName called by Hook_SetPrivateData.
InnerOnSetName(t) ==
  /\ call[t].pc = "onSetName"
  /\ OnSetName(t, IF call[t].outer THEN "outer" ELSE "idle")

\* OnSetName called by Hook_SetName.
OuterOnSetName(t) ==
  /\ call[t].pc = "outer"
  /\ OnSetName(t, "idle")

-----------------------------------------------------------------------------
(* Hook_SetResidencyPriority, for one object of the call *)

CallSetResidencyPriority(t, a) ==
  /\ AppCall
  /\ call[t] = Idle
  /\ t \in refs[a]
  /\ Become(t, [Idle EXCEPT !.pc = "residency", !.self = a])
  /\ UNCHANGED <<runtimeVars, patchVars, trackVars, sinkVars, seen>>

ResidencyEvent(a, r) ==
  [NoEvent EXCEPT !.kind = "ResidencyPriority", !.id = r.id, !.ptr = a,
                  !.obj = r.obj]

\* LookupId(obj); an untracked object is reported with id 0.
ResidencyLookup(t) ==
  /\ call[t].pc = "residency"
  /\ Free
  /\ Emit(t, ResidencyEvent(call[t].self, objects_[call[t].self]), "idle")
  /\ UNCHANGED <<runtimeVars, patchVars, trackVars, sinkVars, calls, seen>>

-----------------------------------------------------------------------------
(* Specification *)

Init ==
  /\ refs = [a \in Addr |-> {}]
  /\ vt \in [Addr -> VTable]
  /\ serial = [a \in Addr |-> 0]
  /\ rname = [a \in Addr |-> NoName]
  /\ born = 0
  /\ dead = {}
  /\ slot = [v \in VTable |-> [s \in Slot |-> "real"]]
  /\ vtable_patches_ = [v \in VTable |-> Unpatched]
  /\ cap = Unpatched
  /\ mu_ = NoThread
  /\ next_id_ = 1
  /\ objects_ = [a \in Addr |-> NoRecord]
  /\ call = [t \in Thread |-> Idle]
  /\ pipe = <<>>
  /\ log = <<>>
  /\ calls = 0
  /\ seen = {}

\* What the application may start on a thread.
AppStep(t) ==
  \/ \E a \in Addr, v \in VTable :
       \/ RuntimeCreate(t, a, v)
       \/ \E h \in Addr \cup {NoAddr} : HookCreate(t, a, v, h)
  \/ \E a \in Addr :
       \/ HookCreateShared(t, a)
       \/ ReleaseUnhooked(t, a)
       \/ HookRelease(t, a)
       \/ CallSetResidencyPriority(t, a)
       \/ \E u \in Thread : AddRef(t, u, a)
       \/ \E n \in AnyName : CallSetName(t, a, n) \/ CallSetPrivateData(t, a, n)

\* The rest of a call that has started.
HookStep(t) ==
  \/ LookupHeapId(t)
  \/ PatchVTableIfNew(t)
  \/ \E s \in Slot : PatchSlot(t, s)
  \/ Emplace(t)
  \/ FetchId(t)
  \/ Insert(t)
  \/ EmitPipe(t)
  \/ EmitLog(t)
  \/ ReleaseLookup(t)
  \/ ReleaseReal(t)
  \/ OnReleaseToZero(t)
  \/ SetNameLookup(t)
  \/ SetPrivateDataDispatch(t)
  \/ SetPrivateDataLookup(t)
  \/ HookSetPrivateData(t)
  \/ InnerOnSetName(t)
  \/ OuterOnSetName(t)
  \/ ResidencyLookup(t)

Next == \E t \in Thread : AppStep(t) \/ HookStep(t)

Spec == Init /\ [][Next]_vars

-----------------------------------------------------------------------------
(* Properties *)

\* Every variable keeps its type.
TypeOK ==
  /\ refs \in [Addr -> SUBSET Thread]
  /\ vt \in [Addr -> VTable]
  /\ serial \in [Addr -> Nat]
  /\ rname \in [Addr -> AnyName]
  /\ born \in Nat /\ dead \subseteq Nat
  /\ slot \in [VTable -> [Slot -> {"real", "hook"}]]
  /\ vtable_patches_ \in [VTable -> [Slot -> {"absent", "real", "null"}]]
  /\ cap \in [Slot -> {"absent", "real", "hook", "null"}]
  /\ mu_ \in Thread \cup {NoThread}
  /\ next_id_ \in Nat
  /\ objects_ \in [Addr -> Record]
  /\ call \in [Thread -> Frame]
  /\ pipe \in Seq(Event) /\ log \in Seq(Event)
  /\ calls \in Nat
  /\ seen \subseteq AllQuirks

\* The slot whose original a thread is about to look up.
LookupSlot ==
  [pc \in {"relLookup", "nameLookup", "spdLookup"} |->
     CASE pc = "relLookup" -> "Release"
       [] pc = "nameLookup" -> "SetName"
       [] pc = "spdLookup" -> "SetPrivateData"]

\* No call of the application is swallowed: a hook that fires, even on an
\* object nobody registered and while another thread is still patching its
\* vtable, finds the runtime's function as soon as it gets mu_ (never no
\* entry, null, or the hook itself).
HookFindsReal ==
  \A t \in Thread :
    call[t].pc \in DOMAIN LookupSlot /\ Free
      => RealOf(call[t].self, LookupSlot[call[t].pc]) = "real"

\* On the pipe and in the log an id is created at most once and destroyed at
\* most once, whatever threads race and whatever the allocator does.
OneBirthOneDeath ==
  \A s \in {pipe, log} : \A i, j \in 1..Len(s) :
    /\ s[i].kind \in {"Created", "Destroyed"}
    /\ s[i].kind = s[j].kind
    /\ s[i].id = s[j].id
    => i = j

Has(s, n, k, d) == \E j \in 1..n : s[j].kind = k /\ s[j].id = d

\* The ids that an event refers to beside the one it creates.
Mentioned(e) == (IF e.kind = "Created" THEN {e.ref} ELSE {e.id}) \ {0}

\* As long as the allocator does not reuse an address inside a Release hook
\* and Create* returns fresh objects, each sink mentions an id (in renamed,
\* destroyed, residency_priority or as parent_heap_id) only after its created
\* and before its destroyed event.
EventsInsideLifetime ==
  seen \cap {"reuse", "shared"} = {} =>
    \A s \in {pipe, log} : \A i \in 1..Len(s) : \A d \in Mentioned(s[i]) :
      /\ Has(s, i - 1, "Created", d)
      /\ ~Has(s, i - 1, "Destroyed", d)

\* A destroyed event names an object whose last reference was released.
DestroyedOnlyWhenDead ==
  \A s \in {pipe, log} : \A i \in 1..Len(s) :
    s[i].kind = "Destroyed" => s[i].obj \in dead

\* That holds unless an address was reused inside a Release hook.
DestroyedIsDeath == "reuse" \notin seen => DestroyedOnlyWhenDead

AllIdle == \A t \in Thread : call[t] = Idle

\* When no hook is running, each sink reports exactly the deaths of the
\* objects it reported: a created object has its destroyed event if and only
\* if it is dead, and is still found by LookupId under its id otherwise.
SettledStreams ==
  AllIdle /\ seen \cap {"reuse", "shared", "protect"} = {} =>
    \A s \in {pipe, log} : \A i \in 1..Len(s) :
      s[i].kind = "Created" =>
        /\ (s[i].obj \in dead) <=> Has(s, Len(s), "Destroyed", s[i].id)
        /\ s[i].obj \notin dead =>
             \E a \in Addr : objects_[a].id = s[i].id /\ serial[a] = s[i].obj

RenamedAt(s, i, d) == s[i].kind = "Renamed" /\ s[i].id = d

\* The name that a reader of s has for id d.
NameIn(s, d) ==
  IF \E i \in 1..Len(s) : RenamedAt(s, i, d)
  THEN s[CHOOSE i \in 1..Len(s) : /\ RenamedAt(s, i, d)
                                  /\ \A j \in (i + 1)..Len(s) : ~RenamedAt(s, j, d)].name
  ELSE NoName

\* The renamed events of both sinks mirror the most recent SetName or
\* SetPrivateData call on each live tracked object once its calls are over,
\* as far as the payload has room for the name.
NamesMirrorLastCall ==
  AllIdle => \A a \in Addr : objects_[a].id # 0 =>
    \A s \in {pipe, log} : NameIn(s, objects_[a].id) = Shown(rname[a])

\* That holds as long as no quirk has happened.
NamesSettle == seen = {} => NamesMirrorLastCall

\* Although SetName runs OnSetName twice, two renamed events of one id in a
\* row never stand for the same name, unless two threads named it at once: a
\* reader who sees one name twice sees the beginnings of two different ones.
NoRenameEcho ==
  "naming" \notin seen =>
    \A s \in {pipe, log} : \A i, j \in 1..Len(s) :
      /\ i < j /\ s[i].kind = "Renamed" /\ RenamedAt(s, j, s[i].id)
      /\ \A k \in (i + 1)..(j - 1) : ~RenamedAt(s, k, s[i].id)
      => s[i].full # s[j].full

\* Register never displaces the record of another object: the id under an
\* address changes only through a destroyed event.
RecordsNeverReplaced ==
  [][seen' \cap {"reuse", "shared", "protect"} = {} =>
       \A a \in Addr : objects_[a].id # 0 /\ objects_'[a].id # 0
         => objects_'[a].id = objects_[a].id]_vars
=============================================================================
