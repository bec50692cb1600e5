---------------------------- MODULE TrackerProofs ----------------------------
(***************************************************************************)
(* Theorems about Tracker, for any number of threads, addresses, vtables   *)
(* and names, any Quirks and any MaxCalls: variables keep their types,     *)
(* hooks find their originals, and objects reported as destroyed are dead. *)
(***************************************************************************)
EXTENDS Tracker, TLAPS

-----------------------------------------------------------------------------
(* Frames and events *)

\* A call in progress is about an object, and LookupHeapId about a heap.
CallOK ==
  \A t \in Thread :
    /\ call[t].pc # "idle" => call[t].self \in Addr
    /\ call[t].pc = "heapid" => call[t].heap \in Addr

\* Idle, NoEvent and NoRecord have their types.
LEMMA ConstantTypes ==
  /\ NoEvent \in Event
  /\ Idle \in Frame
  /\ NoRecord \in Record
  /\ Unpatched \in [Slot -> {"absent"}]
<1>1. NoEvent \in Event
  BY DEF NoEvent, Event, AnyName, Shown
<1>2. QED
  BY <1>1 DEF Idle, Frame, PC, NoRecord, Record, Unpatched, AnyName

\* The events that the hooks build are events.
LEMMA EventTypes ==
  ASSUME NEW r \in Record, NEW n \in AnyName, NEW a \in Addr, NEW o \in Nat,
         NEW d \in Nat, NEW e \in Event
  PROVE  /\ CreatedEvent(a, o) \in Event
         /\ DestroyedEvent(r) \in Event
         /\ RenamedEvent(r, n) \in Event
         /\ ResidencyEvent(a, r) \in Event
         /\ [e EXCEPT !.id = d] \in Event
         /\ [e EXCEPT !.ref = d] \in Event
<1>1. Shown(n) \in AnyName /\ Shown(NoName) = NoName
  BY ConstantsAssumption DEF AnyName, Shown
<1>2. RenamedEvent(r, n) \in Event
  BY <1>1 DEF RenamedEvent, NoEvent, Event, Record
<1>3. CreatedEvent(a, o) \in Event /\ DestroyedEvent(r) \in Event
  BY <1>1 DEF CreatedEvent, DestroyedEvent, NoEvent, Event, Record, AnyName
<1>4. ResidencyEvent(a, r) \in Event
  BY <1>1 DEF ResidencyEvent, NoEvent, Event, Record, AnyName
<1>5. [e EXCEPT !.id = d] \in Event /\ [e EXCEPT !.ref = d] \in Event
  BY DEF Event
<1>6. QED
  BY <1>2, <1>3, <1>4, <1>5

\* A step of t changes the frame of t alone.
LEMMA BecomeStep ==
  ASSUME NEW t \in Thread, NEW f \in Frame,
         call \in [Thread -> Frame], Become(t, f)
  PROVE  /\ call' \in [Thread -> Frame]
         /\ call'[t] = f
         /\ \A u \in Thread \ {t} : call'[u] = call[u]
  BY DEF Become

\* Goto moves pc and nothing else.
LEMMA GotoStep ==
  ASSUME NEW t \in Thread, NEW p \in PC,
         call \in [Thread -> Frame], Goto(t, p)
  PROVE  /\ call' \in [Thread -> Frame]
         /\ call'[t] = [call[t] EXCEPT !.pc = p]
         /\ \A u \in Thread \ {t} : call'[u] = call[u]
<1>1. [call[t] EXCEPT !.pc = p] \in Frame
  BY DEF Frame
<1>2. QED
  BY <1>1, BecomeStep DEF Goto

\* Return leaves t idle.
LEMMA ReturnStep ==
  ASSUME NEW t \in Thread, call \in [Thread -> Frame], Return(t)
  PROVE  /\ call' \in [Thread -> Frame]
         /\ call'[t] = Idle
         /\ \A u \in Thread \ {t} : call'[u] = call[u]
  BY ConstantTypes, BecomeStep DEF Return

-----------------------------------------------------------------------------
(* Type correctness *)

\* The type invariant in the form that is inductive.
TypeInv == TypeOK /\ CallOK

\* A step that leaves only the call of t different, at a frame of the right
\* form, keeps the part of the type invariant that is about calls.
LEMMA CallOKStep ==
  ASSUME NEW t \in Thread, CallOK,
         \A u \in Thread \ {t} : call'[u] = call[u],
         call'[t].pc # "idle" => call'[t].self \in Addr,
         call'[t].pc = "heapid" => call'[t].heap \in Addr
  PROVE  CallOK'
  BY DEF CallOK

\* Frames from which a Create*, Release or naming call starts.
LEMMA StartFrames ==
  ASSUME NEW p \in PC, NEW a \in Addr, NEW h \in Addr \cup {NoAddr},
         NEW e \in Event, NEW n \in AnyName, NEW b \in BOOLEAN
  PROVE  /\ [Idle EXCEPT !.pc = p, !.self = a] \in Frame
         /\ [Idle EXCEPT !.pc = p, !.self = a, !.ev = e] \in Frame
         /\ [Idle EXCEPT !.pc = p, !.self = a, !.heap = h, !.ev = e] \in Frame
         /\ [Idle EXCEPT !.pc = p, !.self = a, !.name = n] \in Frame
         /\ [Idle EXCEPT !.pc = p, !.self = a, !.name = n, !.outer = b] \in Frame
  BY ConstantTypes DEF Idle, Frame

\* The runtime's Release keeps the types of what it changes.
LEMMA RealReleaseTypes ==
  ASSUME TypeOK, NEW t \in Thread, NEW a \in Addr, RealRelease(t, a)
  PROVE  /\ refs' \in [Addr -> SUBSET Thread]
         /\ dead' \subseteq Nat
<1>1. refs[a] \ {t} \in SUBSET Thread
  BY DEF TypeOK
<1>2. refs' = [refs EXCEPT ![a] = refs[a] \ {t}]
  BY DEF RealRelease
<1>3. refs' \in [Addr -> SUBSET Thread]
  BY <1>1, <1>2 DEF TypeOK
<1>4. serial[a] \in Nat /\ dead \subseteq Nat
  BY DEF TypeOK
<1>5. dead' = dead \/ dead' = dead \cup {serial[a]}
  BY DEF RealRelease
<1>6. QED
  BY <1>3, <1>4, <1>5

\* The types survive every step of the application.
LEMMA AppStepTypes ==
  ASSUME TypeInv, NEW t \in Thread, AppStep(t)
  PROVE  TypeInv'
<1> USE ConstantsAssumption DEF TypeInv
<1>1. ASSUME NEW a \in Addr, NEW v \in VTable, RuntimeCreate(t, a, v)
      PROVE  TypeInv'
  BY <1>1 DEF RuntimeCreate, Allocate, AppCall, Observe, AllQuirks, AnyName,
     TypeOK, CallOK, patchVars, trackVars, sinkVars
<1>2. ASSUME NEW a \in Addr, NEW v \in VTable, NEW h \in Addr \cup {NoAddr},
             HookCreate(t, a, v, h)
      PROVE  TypeInv'
  <2> DEFINE p == IF h = NoAddr THEN "patch" ELSE "heapid"
             f == [Idle EXCEPT !.pc = p, !.self = a, !.heap = h,
                               !.ev = CreatedEvent(a, born + 1)]
  <2>1. born + 1 \in Nat
    BY DEF TypeOK
  <2>2. CreatedEvent(a, born + 1) \in Event
    BY <2>1, ConstantTypes, EventTypes DEF AnyName
  <2>3. p \in PC
    BY DEF PC
  <2>4. f \in Frame
    BY <2>2, <2>3, StartFrames DEF AnyName
  <2>5. Become(t, f)
    BY <1>2 DEF HookCreate
  <2>6. /\ call' \in [Thread -> Frame]
        /\ call'[t] = f
        /\ \A u \in Thread \ {t} : call'[u] = call[u]
    BY <2>4, <2>5, BecomeStep DEF TypeOK
  <2>7. CallOK'
    <3>1. f.self \in Addr /\ (f.pc = "heapid" => f.heap \in Addr)
      BY DEF Idle
    <3> HIDE DEF f
    <3>2. QED
      BY <2>6, <3>1, CallOKStep
  <2>8. TypeOK'
    BY <1>2, <2>1, <2>6
    DEF HookCreate, Allocate, AppCall, Observe, AllQuirks, AnyName,
        TypeOK, patchVars, trackVars, sinkVars
  <2>9. QED
    BY <2>7, <2>8
<1>3. ASSUME NEW a \in Addr, HookCreateShared(t, a)
      PROVE  TypeInv'
  <2> DEFINE f == [Idle EXCEPT !.pc = "patch", !.self = a,
                               !.ev = CreatedEvent(a, serial[a])]
  <2>1. CreatedEvent(a, serial[a]) \in Event
    BY ConstantTypes, EventTypes DEF TypeOK, AnyName
  <2>2. f \in Frame
    BY <2>1, StartFrames DEF AnyName, PC
  <2>3. Become(t, f)
    BY <1>3 DEF HookCreateShared
  <2>4. /\ call' \in [Thread -> Frame]
        /\ call'[t] = f
        /\ \A u \in Thread \ {t} : call'[u] = call[u]
    BY <2>2, <2>3, BecomeStep DEF TypeOK
  <2>5. CallOK'
    <3>1. f.self = a /\ f.pc = "patch"
      BY DEF Idle
    <3> HIDE DEF f
    <3>2. QED
      BY <2>4, <3>1, CallOKStep
  <2>6. TypeOK'
    BY <1>3, <2>4 DEF HookCreateShared, AppCall, Observe, AllQuirks,
       TypeOK, patchVars, trackVars, sinkVars
  <2>7. QED
    BY <2>5, <2>6
<1>4. ASSUME NEW a \in Addr, NEW u \in Thread, ReleaseUnhooked(t, a) \/ AddRef(t, u, a)
      PROVE  TypeInv'
  <2>1. /\ refs' \in [Addr -> SUBSET Thread]
        /\ dead' \subseteq Nat
    <3>1. CASE ReleaseUnhooked(t, a)
      BY <3>1, RealReleaseTypes DEF ReleaseUnhooked
    <3>2. CASE AddRef(t, u, a)
      <4>1. refs[a] \cup {u} \in SUBSET Thread
        BY DEF TypeOK
      <4>2. refs' = [refs EXCEPT ![a] = refs[a] \cup {u}] /\ dead' = dead
        BY <3>2 DEF AddRef
      <4>3. QED
        BY <4>1, <4>2 DEF TypeOK
    <3>3. QED
      BY <1>4, <3>1, <3>2
  <2>2. calls' \in Nat
    BY <1>4 DEF ReleaseUnhooked, AddRef, AppCall, TypeOK
  <2>3. UNCHANGED <<vt, serial, rname, born, patchVars, trackVars, call, sinkVars, seen>>
    BY <1>4 DEF ReleaseUnhooked, RealRelease, AddRef
  <2>4. QED
    BY <2>1, <2>2, <2>3 DEF TypeOK, CallOK, patchVars, trackVars, sinkVars
<1>5. ASSUME NEW a \in Addr, HookRelease(t, a) \/ CallSetResidencyPriority(t, a)
      PROVE  TypeInv'
  <2>1. PICK p \in {"relLookup", "residency"} :
          Become(t, [Idle EXCEPT !.pc = p, !.self = a])
    BY <1>5 DEF HookRelease, CallSetResidencyPriority
  <2>2. [Idle EXCEPT !.pc = p, !.self = a] \in Frame
    BY StartFrames, ConstantTypes DEF PC, AnyName
  <2>3. /\ call' \in [Thread -> Frame]
        /\ call'[t] = [Idle EXCEPT !.pc = p, !.self = a]
        /\ \A w \in Thread \ {t} : call'[w] = call[w]
    BY <2>1, <2>2, BecomeStep DEF TypeOK
  <2>4. CallOK'
    <3>1. call'[t].self = a /\ call'[t].pc = p
      BY <2>3 DEF Idle
    <3>2. QED
      BY <2>3, <3>1, CallOKStep
  <2>5. TypeOK'
    BY <1>5, <2>3 DEF HookRelease, CallSetResidencyPriority, AppCall,
       TypeOK, runtimeVars, patchVars, trackVars, sinkVars
  <2>6. QED
    BY <2>4, <2>5
<1>6. ASSUME NEW a \in Addr, NEW n \in AnyName,
             CallSetName(t, a, n) \/ CallSetPrivateData(t, a, n)
      PROVE  TypeInv'
  <2>1. PICK f \in {[Idle EXCEPT !.pc = "nameLookup", !.self = a, !.name = n,
                                 !.outer = Hooked(a, "SetName")],
                    [Idle EXCEPT !.pc = "spdCall", !.self = a, !.name = n,
                                 !.outer = Hooked(a, "SetName")],
                    [Idle EXCEPT !.pc = "spdCall", !.self = a, !.name = n]} :
          Become(t, f)
    BY <1>6 DEF CallSetName, CallSetPrivateData
  <2>2. f \in Frame
    <3>1. Hooked(a, "SetName") \in BOOLEAN
      BY DEF Hooked
    <3>2. "nameLookup" \in PC /\ "spdCall" \in PC
      BY DEF PC
    <3>3. /\ [Idle EXCEPT !.pc = "nameLookup", !.self = a, !.name = n,
                          !.outer = Hooked(a, "SetName")] \in Frame
          /\ [Idle EXCEPT !.pc = "spdCall", !.self = a, !.name = n,
                          !.outer = Hooked(a, "SetName")] \in Frame
          /\ [Idle EXCEPT !.pc = "spdCall", !.self = a, !.name = n] \in Frame
      BY <3>1, <3>2, StartFrames, ConstantTypes
    <3>4. QED
      BY <3>3
  <2>3. /\ call' \in [Thread -> Frame]
        /\ call'[t] = f
        /\ \A w \in Thread \ {t} : call'[w] = call[w]
    BY <2>1, <2>2, BecomeStep DEF TypeOK
  <2>4. CallOK'
    <3>1. f.self = a /\ f.pc \in {"nameLookup", "spdCall"}
      BY DEF Idle
    <3>2. QED
      BY <2>3, <3>1, CallOKStep
  <2>5. TypeOK'
    BY <1>6, <2>3 DEF CallSetName, CallSetPrivateData, NamingQuirks, AppCall,
       Observe, AllQuirks, TypeOK, runtimeVars, patchVars, trackVars, sinkVars
  <2>6. QED
    BY <2>4, <2>5
<1>7. QED
  BY <1>1, <1>2, <1>3, <1>4, <1>5, <1>6 DEF AppStep

\* The types survive every step of a call that is under way.
LEMMA HookStepTypes ==
  ASSUME TypeInv, NEW t \in Thread, HookStep(t)
  PROVE  TypeInv'
<1> USE ConstantsAssumption DEF TypeInv
\* Steps that only move pc, or return, and keep the object they are about.
<1> DEFINE Moves ==
      /\ call' \in [Thread -> Frame]
      /\ \A u \in Thread \ {t} : call'[u] = call[u]
      /\ \/ call'[t] = Idle
         \/ /\ call[t].pc # "idle"
            /\ call'[t].self = call[t].self
            /\ call'[t].pc # "heapid"
<1>a. Moves => CallOK'
  <2> SUFFICES ASSUME Moves PROVE CallOK'
    OBVIOUS
  <2>1. CASE call'[t] = Idle
    <3>1. call'[t].pc = "idle"
      BY <2>1 DEF Idle
    <3>2. QED
      BY <3>1, CallOKStep
  <2>2. CASE call[t].pc # "idle" /\ call'[t].self = call[t].self /\ call'[t].pc # "heapid"
    BY <2>2, CallOKStep DEF CallOK
  <2>3. QED
    BY <2>1, <2>2
<1>b. ASSUME NEW p \in PC \ {"heapid"}, call[t].pc # "idle", Goto(t, p)
      PROVE  Moves
  <2>1. call'[t] = [call[t] EXCEPT !.pc = p]
    BY <1>b, GotoStep DEF TypeOK
  <2>2. call'[t].self = call[t].self /\ call'[t].pc = p
    BY <2>1 DEF TypeOK, Frame
  <2>3. QED
    BY <1>b, <2>2, GotoStep DEF TypeOK
<1>c. ASSUME Return(t) PROVE Moves
  BY <1>c, ReturnStep DEF TypeOK
<1>d. ASSUME NEW e \in Event, NEW n \in {"idle", "outer"}, call[t].pc # "idle",
             Emit(t, e, n)
      PROVE  Moves
  <2>1. call \in [Thread -> Frame]
    BY DEF TypeOK
  <2>2. /\ call' \in [Thread -> Frame]
        /\ call'[t] = [call[t] EXCEPT !.pc = "pipe", !.ev = e, !.next = n]
        /\ \A u \in Thread \ {t} : call'[u] = call[u]
    <3>1. [call[t] EXCEPT !.pc = "pipe", !.ev = e, !.next = n] \in Frame
      BY <2>1 DEF Frame, PC
    <3>2. QED
      BY <1>d, <2>1, <3>1, BecomeStep DEF Emit
  <2>3. call'[t].self = call[t].self /\ call'[t].pc = "pipe"
    BY <2>1, <2>2 DEF Frame
  <2>4. QED
    BY <1>d, <2>2, <2>3
<1>e. /\ call[t] \in Frame
      /\ call[t].pc \in PC /\ call[t].next \in {"idle", "outer"}
      /\ call[t].ev \in Event /\ call[t].name \in AnyName
      /\ call[t].pc # "idle" => call[t].self \in Addr
      /\ call[t].pc = "heapid" => call[t].heap \in Addr
  BY DEF TypeOK, CallOK, Frame
<1> HIDE DEF Moves
<1>1. CASE LookupHeapId(t)
  <2> DEFINE d == objects_[call[t].heap].id
             f == [call[t] EXCEPT !.pc = "patch", !.ev = [@ EXCEPT !.ref = d]]
  <2>1. call[t].heap \in Addr /\ d \in Nat /\ call[t].pc = "heapid"
    BY <1>1, <1>e DEF LookupHeapId, TypeOK, Record
  <2>2. [call[t].ev EXCEPT !.ref = d] \in Event
    BY <1>e, <2>1 DEF Event
  <2>3. f \in Frame
    BY <1>e, <2>2 DEF Frame, PC
  <2>4. Become(t, f)
    BY <1>1 DEF LookupHeapId
  <2>5. f.self = call[t].self /\ f.pc = "patch"
    BY <1>e DEF Frame
  <2> HIDE DEF f
  <2>6. Moves
    BY <2>1, <2>3, <2>4, <2>5, BecomeStep DEF Moves, TypeOK
  <2>7. TypeOK'
    BY <1>1, <2>6 DEF Moves, LookupHeapId, TypeOK, runtimeVars, patchVars, trackVars, sinkVars
  <2>8. QED
    BY <2>6, <2>7, <1>a
<1>2. CASE PatchVTableIfNew(t)
  <2>1. Moves
    BY <1>2, <1>b DEF PatchVTableIfNew, PC
  <2>2. mu_' \in Thread \cup {NoThread} /\ cap' \in [Slot -> {"absent", "real", "hook", "null"}]
    BY <1>2, ConstantTypes DEF PatchVTableIfNew, TypeOK
  <2>3. TypeOK'
    BY <1>2, <2>1, <2>2 DEF Moves, PatchVTableIfNew, TypeOK, runtimeVars, trackVars, sinkVars
  <2>4. QED
    BY <2>1, <2>3, <1>a
<1>3. ASSUME NEW s \in Slot, PatchSlot(t, s) PROVE TypeInv'
  <2>1. AfterSlot(s) \in PC \ {"heapid"} /\ call[t].pc # "idle"
    BY <1>3 DEF AfterSlot, PC, Slot, PatchSlot
  <2>2. Moves
    BY <1>3, <2>1, <1>b DEF PatchSlot
  <2>3. vt[call[t].self] \in VTable
    BY <1>e, <2>1 DEF TypeOK
  <2> DEFINE v == vt[call[t].self]
  <2>4. /\ slot' \in [VTable -> [Slot -> {"real", "hook"}]]
        /\ cap' \in [Slot -> {"absent", "real", "hook", "null"}]
        /\ seen' \subseteq AllQuirks
    <3>1. CASE /\ cap' = [cap EXCEPT ![s] = slot[v][s]]
               /\ slot' = [slot EXCEPT ![v][s] = "hook"]
               /\ UNCHANGED seen
      <4>1. slot[v][s] \in {"real", "hook"}
        BY <2>3 DEF TypeOK
      <4>2. [slot[v] EXCEPT ![s] = "hook"] \in [Slot -> {"real", "hook"}]
        BY <2>3 DEF TypeOK
      <4>3. QED
        BY <2>3, <3>1, <4>1, <4>2 DEF TypeOK
    <3>2. CASE /\ cap' = [cap EXCEPT ![s] = "null"]
               /\ Observe({"protect"})
               /\ UNCHANGED slot
      BY <3>2 DEF Observe, AllQuirks, TypeOK
    <3>3. QED
      BY <1>3, <3>1, <3>2 DEF PatchSlot
  <2>5. TypeOK'
    BY <1>3, <2>2, <2>4 DEF Moves, PatchSlot, TypeOK, runtimeVars, trackVars, sinkVars
  <2>6. QED
    BY <2>2, <2>5, <1>a
<1>4. CASE Emplace(t)
  <2>1. Moves
    BY <1>4, <1>b DEF Emplace, PC
  <2>2. [s \in Slot |-> Unselfref(cap[s])] \in [Slot -> {"absent", "real", "null"}]
    BY DEF Unselfref, TypeOK
  <2>3. vtable_patches_' \in [VTable -> [Slot -> {"absent", "real", "null"}]]
    BY <1>4, <2>2 DEF Emplace, TypeOK
  <2>4. TypeOK'
    BY <1>4, <2>1, <2>3 DEF Moves, Emplace, TypeOK, runtimeVars, trackVars, sinkVars
  <2>5. QED
    BY <2>1, <2>4, <1>a
<1>5. CASE FetchId(t)
  <2> DEFINE f == [call[t] EXCEPT !.pc = "insert", !.ev = [@ EXCEPT !.id = next_id_]]
  <2>1. next_id_ \in Nat /\ call[t].pc = "fetch"
    BY <1>5 DEF FetchId, TypeOK
  <2>2. [call[t].ev EXCEPT !.id = next_id_] \in Event
    BY <1>e, <2>1 DEF Event
  <2>3. f \in Frame
    BY <1>e, <2>2 DEF Frame, PC
  <2>4. Become(t, f)
    BY <1>5 DEF FetchId
  <2>5. f.self = call[t].self /\ f.pc = "insert"
    BY <1>e DEF Frame
  <2> HIDE DEF f
  <2>6. Moves
    BY <2>1, <2>3, <2>4, <2>5, BecomeStep DEF Moves, TypeOK
  <2>7. TypeOK'
    BY <1>5, <2>6 DEF Moves, FetchId, TypeOK, runtimeVars, patchVars, sinkVars
  <2>8. QED
    BY <2>6, <2>7, <1>a
<1>6. CASE Insert(t)
  <2>1. Moves
    BY <1>6, <1>b DEF Insert, PC
  <2>2. [id |-> call[t].ev.id, name |-> NoName, obj |-> call[t].ev.obj] \in Record
    BY <1>e DEF Record, Event, AnyName
  <2>3. objects_' \in [Addr -> Record]
    BY <1>6, <2>2 DEF Insert, TypeOK
  <2>4. TypeOK'
    BY <1>6, <2>1, <2>3 DEF Moves, Insert, TypeOK, runtimeVars, patchVars, sinkVars
  <2>5. QED
    BY <2>1, <2>4, <1>a
<1>7. CASE EmitPipe(t)
  <2>1. Moves
    BY <1>7, <1>b DEF EmitPipe, PC
  <2>2. pipe' \in Seq(Event)
    BY <1>7, <1>e DEF EmitPipe, TypeOK
  <2>3. TypeOK'
    BY <1>7, <2>1, <2>2 DEF Moves, EmitPipe, TypeOK, runtimeVars, patchVars, trackVars
  <2>4. QED
    BY <2>1, <2>3, <1>a
<1>8. CASE EmitLog(t)
  <2>1. Moves
    BY <1>8, <1>b, <1>c, <1>e DEF EmitLog, PC
  <2>2. log' \in Seq(Event)
    BY <1>8, <1>e DEF EmitLog, TypeOK
  <2>3. TypeOK'
    BY <1>8, <2>1, <2>2 DEF Moves, EmitLog, TypeOK, runtimeVars, patchVars, trackVars
  <2>4. QED
    BY <2>1, <2>3, <1>a
<1>9. CASE ReleaseLookup(t) \/ SetNameLookup(t) \/ SetPrivateDataLookup(t)
  <2>1. Moves
    BY <1>9, <1>b, <1>c
    DEF ReleaseLookup, SetNameLookup, SetPrivateDataLookup, AfterSetPrivateData, PC
  <2>2. TypeOK'
    BY <1>9, <2>1 DEF Moves, ReleaseLookup, SetNameLookup, SetPrivateDataLookup,
       TypeOK, runtimeVars, patchVars, trackVars, sinkVars
  <2>3. QED
    BY <2>1, <2>2, <1>a
<1>10. CASE ReleaseReal(t)
  <2>1. Moves
    BY <1>10, <1>b, <1>c DEF ReleaseReal, PC
  <2>2. call[t].self \in Addr
    BY <1>10, <1>e DEF ReleaseReal
  <2>3. refs' \in [Addr -> SUBSET Thread] /\ dead' \subseteq Nat
    BY <1>10, <2>2, RealReleaseTypes DEF ReleaseReal
  <2>4. TypeOK'
    BY <1>10, <2>1, <2>3 DEF Moves, ReleaseReal, RealRelease, TypeOK, patchVars, trackVars, sinkVars
  <2>5. QED
    BY <2>1, <2>4, <1>a
<1>11. CASE OnReleaseToZero(t)
  <2>1. call[t].self \in Addr /\ call[t].pc # "idle"
    BY <1>11, <1>e DEF OnReleaseToZero
  <2>2. DestroyedEvent(objects_[call[t].self]) \in Event
    <3>1. objects_[call[t].self] \in Record
      BY <2>1 DEF TypeOK
    <3>2. NoAddr \in Addr \cup {NoAddr} /\ NoName \in AnyName /\ 0 \in Nat
      BY DEF AnyName
    <3>3. QED
      BY <3>1, <2>1, <3>2, ConstantTypes, EventTypes
  <2>3. Moves
    BY <1>11, <2>1, <2>2, <1>c, <1>d DEF OnReleaseToZero
  <2>4. objects_' \in [Addr -> Record]
    BY <1>11, <2>1, ConstantTypes DEF OnReleaseToZero, TypeOK
  <2>5. TypeOK'
    BY <1>11, <2>3, <2>4 DEF Moves, OnReleaseToZero, TypeOK, runtimeVars, patchVars, sinkVars
  <2>6. QED
    BY <2>3, <2>5, <1>a
<1>12. CASE SetPrivateDataDispatch(t) \/ HookSetPrivateData(t)
  <2>1. Moves
    BY <1>12, <1>b, <1>c
    DEF SetPrivateDataDispatch, HookSetPrivateData, AfterSetPrivateData, PC
  <2>2. rname' \in [Addr -> AnyName]
    BY <1>12, <1>e DEF SetPrivateDataDispatch, HookSetPrivateData,
       RealSetPrivateData, TypeOK, runtimeVars
  <2>3. TypeOK'
    BY <1>12, <2>1, <2>2 DEF Moves, SetPrivateDataDispatch, HookSetPrivateData,
       RealSetPrivateData, TypeOK, runtimeVars, patchVars, trackVars, sinkVars
  <2>4. QED
    BY <2>1, <2>3, <1>a
<1>13. ASSUME NEW done \in {"idle", "outer"}, call[t].pc # "idle", OnSetName(t, done)
       PROVE  TypeInv'
  <2>1. call[t].self \in Addr /\ objects_[call[t].self] \in Record
    BY <1>13, <1>e DEF TypeOK
  <2>2. RenamedEvent(objects_[call[t].self], call[t].name) \in Event
    BY <2>1, <1>e, ConstantTypes, EventTypes
  <2>3. Moves
    BY <1>13, <2>2, <1>b, <1>c, <1>d DEF OnSetName, PC
  <2>4. [objects_[call[t].self] EXCEPT !.name = call[t].name] \in Record
    BY <2>1, <1>e DEF Record
  <2>5. \/ objects_' = objects_
        \/ objects_' = [objects_ EXCEPT ![call[t].self] =
                          [objects_[call[t].self] EXCEPT !.name = call[t].name]]
    BY <1>13 DEF OnSetName
  <2>6. objects_' \in [Addr -> Record]
    BY <2>1, <2>4, <2>5 DEF TypeOK
  <2>7. TypeOK'
    BY <1>13, <2>3, <2>6 DEF Moves, OnSetName, TypeOK, runtimeVars, patchVars, sinkVars
  <2>8. QED
    BY <2>3, <2>7, <1>a
<1>14. CASE InnerOnSetName(t) \/ OuterOnSetName(t)
  BY <1>14, <1>13 DEF InnerOnSetName, OuterOnSetName
<1>15. CASE ResidencyLookup(t)
  <2>1. call[t].self \in Addr /\ objects_[call[t].self] \in Record /\ call[t].pc # "idle"
    BY <1>15, <1>e DEF TypeOK, ResidencyLookup
  <2>2. ResidencyEvent(call[t].self, objects_[call[t].self]) \in Event
    BY <2>1, <1>e, ConstantTypes, EventTypes
  <2>3. Moves
    BY <1>15, <2>1, <2>2, <1>d DEF ResidencyLookup
  <2>4. TypeOK'
    BY <1>15, <2>3 DEF Moves, ResidencyLookup, TypeOK, runtimeVars, patchVars, trackVars, sinkVars
  <2>5. QED
    BY <2>3, <2>4, <1>a
<1>16. QED
  BY <1>1, <1>2, <1>3, <1>4, <1>5, <1>6, <1>7, <1>8, <1>9, <1>10, <1>11, <1>12,
     <1>14, <1>15 DEF HookStep

\* The initial states have their types.
LEMMA InitTypes == Init => TypeInv
  BY ConstantTypes, ConstantsAssumption
  DEF Init, TypeInv, TypeOK, CallOK, Idle, AnyName, Slot, Unpatched, AllQuirks

\* Every variable of Tracker keeps its type.
THEOREM TypeCorrect == Spec => []TypeOK
<1>1. Init => TypeInv
  BY InitTypes
<1>2. TypeInv /\ [Next]_vars => TypeInv'
  <2>1. TypeInv /\ UNCHANGED vars => TypeInv'
    BY DEF TypeInv, TypeOK, CallOK, vars, runtimeVars, patchVars, trackVars, sinkVars
  <2>2. QED
    BY <2>1, AppStepTypes, HookStepTypes DEF Next
<1>3. TypeInv => TypeOK
  BY DEF TypeInv
<1>4. QED
  BY <1>1, <1>2, <1>3, PTL DEF Spec

-----------------------------------------------------------------------------
(* The strengthening for HookFindsReal *)

\* PatchVTableIfNew has mu_ and has not yet emplaced the entry.
PatchPC == {"Release", "SetPrivateData", "SetName", "emplace"}

\* The caller's reference keeps the object of the call alive.
HeldPC == PC \ {"idle", "erase", "pipe", "log", "outer"}

\* Slots that PatchVTableIfNew has dealt with when it is at a label.
Done(pc) ==
  CASE pc = "SetPrivateData" -> {"Release"}
    [] pc = "SetName" -> {"Release", "SetPrivateData"}
    [] pc = "emplace" -> Slot
    [] OTHER -> {}

\* A thread inside PatchVTableIfNew's loop is the one that has mu_.
Mutex ==
  /\ \A t \in Thread : call[t].pc \in PatchPC => mu_ = t
  /\ mu_ # NoThread => call[mu_].pc \in PatchPC

Held == \A t \in Thread : call[t].pc \in HeldPC => t \in refs[call[t].self]

\* The vtable being patched has no entry yet.
PatchesOnce ==
  \A t \in Thread :
    call[t].pc \in PatchPC => vtable_patches_[vt[call[t].self]] = Unpatched

\* A hook in a slot has its original in the map or, while the vtable is being
\* patched, in the local of the thread that has mu_.
HookHasOriginal ==
  \A v \in VTable, s \in Slot :
    slot[v][s] = "hook" =>
      \/ vtable_patches_[v][s] = "real"
      \/ /\ mu_ # NoThread
         /\ vt[call[mu_].self] = v
         /\ s \in Done(call[mu_].pc)
         /\ cap[s] = "real"

\* A hook looks up the original of a slot that leads to it.
LookupIsHooked ==
  \A t \in Thread : call[t].pc \in DOMAIN LookupSlot =>
    slot[vt[call[t].self]][LookupSlot[call[t].pc]] = "hook"

PatchInv == TypeInv /\ Mutex /\ Held /\ PatchesOnce /\ HookHasOriginal /\ LookupIsHooked

-----------------------------------------------------------------------------
(* The strengthening for DestroyedIsDeath *)

\* Register has not yet put the record into the map.
RegisterPC == {"heapid", "patch", "fetch", "insert"} \cup PatchPC

\* An address is free exactly when its last object is dead; 0 is no object.
Lifetimes ==
  \A a \in Addr :
    /\ refs[a] = {} => serial[a] = 0 \/ serial[a] \in dead
    /\ refs[a] # {} => serial[a] # 0

\* Register works for the object that is at the address.
RegistersItsObject ==
  \A t \in Thread : call[t].pc \in RegisterPC =>
    /\ call[t].ev.kind = "Created"
    /\ call[t].ev.obj = serial[call[t].self]
    /\ call[t].ev.obj # 0

\* A record is about the object at its address or about a dead one.
RecordsNotAhead ==
  \A a \in Addr : objects_[a].id # 0 =>
    /\ objects_[a].obj # 0
    /\ objects_[a].obj = serial[a] \/ objects_[a].obj \in dead

\* Unless an address was reused inside a Release hook, OnReleaseToZero runs
\* for an address whose last object is dead.
ErasesDead ==
  "reuse" \notin seen =>
    \A t \in Thread : call[t].pc = "erase" => serial[call[t].self] \in dead

\* ... and sends destroyed for dead objects only.
SendsDead ==
  "reuse" \notin seen =>
    \A t \in Thread :
      call[t].pc \in {"pipe", "log"} /\ call[t].ev.kind = "Destroyed"
        => call[t].ev.obj \in dead

DeathInv ==
  /\ Lifetimes /\ RegistersItsObject /\ RecordsNotAhead /\ ErasesDead
  /\ SendsDead /\ DestroyedIsDeath

-----------------------------------------------------------------------------
(* Frames after a step *)

\* What Goto, Return and Emit do to the fields of a frame.
LEMMA GotoFields ==
  ASSUME NEW t \in Thread, NEW p, call \in [Thread -> Frame], Goto(t, p)
  PROVE  /\ call'[t].pc = p
         /\ call'[t].self = call[t].self
         /\ call'[t].ev = call[t].ev
         /\ \A u \in Thread \ {t} : call'[u] = call[u]
<1>1. call[t] \in Frame
  OBVIOUS
<1>2. [call[t] EXCEPT !.pc = p].pc = p
  BY <1>1 DEF Frame
<1>3. /\ [call[t] EXCEPT !.pc = p].self = call[t].self
      /\ [call[t] EXCEPT !.pc = p].ev = call[t].ev
  BY <1>1 DEF Frame
<1>4. /\ call'[t] = [call[t] EXCEPT !.pc = p]
      /\ \A u \in Thread \ {t} : call'[u] = call[u]
  BY DEF Goto, Become
<1>5. QED
  BY <1>2, <1>3, <1>4

LEMMA ReturnFields ==
  ASSUME NEW t \in Thread, call \in [Thread -> Frame], Return(t)
  PROVE  /\ call'[t].pc = "idle"
         /\ \A u \in Thread \ {t} : call'[u] = call[u]
  BY ReturnStep DEF Idle

LEMMA EmitFields ==
  ASSUME NEW t \in Thread, NEW e, NEW n, call \in [Thread -> Frame], Emit(t, e, n)
  PROVE  /\ call'[t].pc = "pipe"
         /\ call'[t].self = call[t].self
         /\ call'[t].ev = e
         /\ \A u \in Thread \ {t} : call'[u] = call[u]
<1>1. call[t] \in Frame
  OBVIOUS
<1> DEFINE f == [call[t] EXCEPT !.pc = "pipe", !.ev = e, !.next = n]
<1>2. f.pc = "pipe" /\ f.self = call[t].self /\ f.ev = e
  BY <1>1 DEF Frame
<1>3. call'[t] = f /\ \A u \in Thread \ {t} : call'[u] = call[u]
  BY DEF Emit, Become
<1>4. QED
  BY <1>2, <1>3

-----------------------------------------------------------------------------
(* Hooks find their originals *)

\* The parts of PatchInv that are not about types.
PatchParts == Mutex /\ Held /\ PatchesOnce /\ HookHasOriginal /\ LookupIsHooked

\* A step of t outside PatchVTableIfNew, in which other threads keep their
\* references and live objects their vtables.
LEMMA QuietStep ==
  ASSUME PatchInv, NEW t \in Thread, TypeInv',
         \A u \in Thread \ {t} : call'[u] = call[u],
         UNCHANGED <<slot, vtable_patches_, cap, mu_>>,
         \A u \in Thread \ {t}, a \in Addr :
           u \in refs[a] => u \in refs'[a] /\ vt'[a] = vt[a],
         call[t].pc \notin PatchPC, call'[t].pc \notin PatchPC,
         call'[t].pc \in HeldPC => t \in refs'[call'[t].self],
         call'[t].pc \in DOMAIN LookupSlot =>
           slot[vt'[call'[t].self]][LookupSlot[call'[t].pc]] = "hook"
  PROVE  PatchParts'
<1> USE ConstantsAssumption
<1>1. \A u \in Thread : call[u].pc \in HeldPC => call[u].self \in Addr
  BY DEF PatchInv, TypeInv, CallOK, HeldPC
<1>2. PatchPC \subseteq HeldPC /\ DOMAIN LookupSlot \subseteq HeldPC
  BY DEF PatchPC, HeldPC, PC, LookupSlot
<1>3. \A u \in Thread \ {t} : call[u].pc \in HeldPC =>
        /\ u \in refs'[call[u].self]
        /\ vt'[call[u].self] = vt[call[u].self]
  BY <1>1 DEF PatchInv, Held
<1>4. mu_ # NoThread => mu_ \in Thread \ {t} /\ call[mu_].pc \in PatchPC
  BY DEF PatchInv, Mutex, TypeInv, TypeOK
<1>5. Mutex'
  BY <1>4 DEF PatchInv, Mutex
<1>6. Held'
  BY <1>3 DEF Held
<1>7. PatchesOnce'
  BY <1>2, <1>3 DEF PatchInv, PatchesOnce
<1>8. HookHasOriginal'
  BY <1>2, <1>3, <1>4 DEF PatchInv, HookHasOriginal
<1>9. LookupIsHooked'
  BY <1>2, <1>3 DEF PatchInv, LookupIsHooked
<1>10. QED
  BY <1>5, <1>6, <1>7, <1>8, <1>9 DEF PatchParts

\* RealRelease takes away a reference of t and nothing else.
LEMMA ReleaseKeepsOthers ==
  ASSUME TypeOK, NEW t \in Thread, NEW b \in Addr, RealRelease(t, b)
  PROVE  \A u \in Thread \ {t}, a \in Addr :
           u \in refs[a] => u \in refs'[a] /\ vt'[a] = vt[a]
  BY DEF RealRelease, TypeOK

\* Allocate takes a free address.
LEMMA AllocateKeepsOthers ==
  ASSUME TypeOK, NEW t \in Thread, NEW b \in Addr, NEW v \in VTable, Allocate(t, b, v)
  PROVE  /\ \A u \in Thread \ {t}, a \in Addr :
              u \in refs[a] => u \in refs'[a] /\ vt'[a] = vt[a]
         /\ t \in refs'[b]
  BY DEF Allocate, TypeOK

LEMMA AppStepPatch ==
  ASSUME PatchInv, NEW t \in Thread, AppStep(t)
  PROVE  PatchInv'
<1> DEFINE Frames == \A u \in Thread \ {t} : call'[u] = call[u]
           Refs == \A u \in Thread \ {t}, a \in Addr :
                     u \in refs[a] => u \in refs'[a] /\ vt'[a] = vt[a]
<1> USE DEF PatchInv
<1>a. TypeInv'
  BY AppStepTypes
<1>b. call \in [Thread -> Frame] /\ TypeOK
  BY DEF TypeInv, TypeOK
<1>c. Idle.pc = "idle" /\ "idle" \notin PatchPC \cup HeldPC \cup DOMAIN LookupSlot
  BY DEF Idle, PatchPC, HeldPC, LookupSlot
\* Steps after which t is idle again.
<1>d. ASSUME call[t] = Idle, call' = call, Refs,
             UNCHANGED <<slot, vtable_patches_, cap, mu_>>
      PROVE  PatchParts'
  <2>1. call'[t].pc = "idle" /\ call[t].pc = "idle"
    BY <1>c, <1>d
  <2>2. QED
    BY <1>a, <1>c, <1>d, <2>1, QuietStep
\* Steps that start a call at a label that is not a lookup.
<1>e. ASSUME NEW f, NEW p \in HeldPC \ (PatchPC \cup DOMAIN LookupSlot),
             NEW b \in Addr, t \in refs'[b],
             call[t] = Idle, Become(t, f), f.pc = p, f.self = b, Refs,
             UNCHANGED <<slot, vtable_patches_, cap, mu_>>
      PROVE  PatchParts'
  <2>1. call'[t] = f /\ Frames /\ call[t].pc = "idle"
    BY <1>b, <1>c, <1>e DEF Become
  <2>2. QED
    BY <1>a, <1>c, <1>e, <2>1, QuietStep
\* Steps that start a call in a hook that will look up its original.
<1>f. ASSUME NEW f, NEW p \in DOMAIN LookupSlot, NEW b \in Addr, t \in refs[b],
             Hooked(b, LookupSlot[p]),
             call[t] = Idle, Become(t, f), f.pc = p, f.self = b,
             UNCHANGED <<refs, vt, slot, vtable_patches_, cap, mu_>>
      PROVE  PatchParts'
  <2>1. call'[t] = f /\ Frames /\ call[t].pc = "idle"
    BY <1>b, <1>c, <1>f DEF Become
  <2>2. p \notin PatchPC /\ slot[vt'[b]][LookupSlot[p]] = "hook"
    BY <1>f DEF PatchPC, LookupSlot, Hooked
  <2>3. QED
    BY <1>a, <1>c, <1>f, <2>1, <2>2, QuietStep
<1>1. ASSUME NEW a \in Addr, NEW v \in VTable, RuntimeCreate(t, a, v)
      PROVE  PatchParts'
  BY <1>1, <1>b, <1>d, AllocateKeepsOthers DEF RuntimeCreate, patchVars
<1>2. ASSUME NEW a \in Addr, NEW v \in VTable, NEW h \in Addr \cup {NoAddr},
             HookCreate(t, a, v, h)
      PROVE  PatchParts'
  <2> DEFINE p == IF h = NoAddr THEN "patch" ELSE "heapid"
             f == [Idle EXCEPT !.pc = p, !.self = a, !.heap = h,
                               !.ev = CreatedEvent(a, born + 1)]
  <2>1. f.pc = p /\ f.self = a
    BY DEF Idle
  <2>2. p \in HeldPC \ (PatchPC \cup DOMAIN LookupSlot)
    BY DEF HeldPC, PatchPC, PC, LookupSlot
  <2>3. /\ Become(t, f) /\ Allocate(t, a, v) /\ call[t] = Idle
        /\ UNCHANGED <<slot, vtable_patches_, cap, mu_>>
    BY <1>2 DEF HookCreate, patchVars
  <2>4. Refs /\ t \in refs'[a]
    BY <1>b, <2>3, AllocateKeepsOthers
  <2> HIDE DEF f, p
  <2>5. QED
    BY <1>e, <2>1, <2>2, <2>3, <2>4
<1>3. ASSUME NEW a \in Addr, HookCreateShared(t, a)
      PROVE  PatchParts'
  <2> DEFINE f == [Idle EXCEPT !.pc = "patch", !.self = a,
                               !.ev = CreatedEvent(a, serial[a])]
  <2>1. f.pc = "patch" /\ f.self = a
    BY DEF Idle
  <2>2. "patch" \in HeldPC \ (PatchPC \cup DOMAIN LookupSlot)
    BY DEF HeldPC, PatchPC, PC, LookupSlot
  <2>3. /\ Become(t, f) /\ call[t] = Idle
        /\ UNCHANGED <<slot, vtable_patches_, cap, mu_>>
    BY <1>3 DEF HookCreateShared, patchVars
  <2>4. Refs /\ t \in refs'[a]
    BY <1>3, <1>b DEF HookCreateShared, TypeOK
  <2> HIDE DEF f
  <2>5. QED
    BY <1>e, <2>1, <2>2, <2>3, <2>4
<1>4. ASSUME NEW a \in Addr, ReleaseUnhooked(t, a)
      PROVE  PatchParts'
  BY <1>4, <1>b, <1>d, ReleaseKeepsOthers DEF ReleaseUnhooked, patchVars
<1>5. ASSUME NEW a \in Addr, HookRelease(t, a)
      PROVE  PatchParts'
  <2> DEFINE f == [Idle EXCEPT !.pc = "relLookup", !.self = a]
  <2>1. f.pc = "relLookup" /\ f.self = a
    BY DEF Idle
  <2>2. "relLookup" \in DOMAIN LookupSlot /\ LookupSlot["relLookup"] = "Release"
    BY DEF LookupSlot
  <2>3. /\ Become(t, f) /\ call[t] = Idle /\ t \in refs[a] /\ Hooked(a, "Release")
        /\ UNCHANGED <<refs, vt, slot, vtable_patches_, cap, mu_>>
    BY <1>5 DEF HookRelease, runtimeVars, patchVars
  <2> HIDE DEF f
  <2>4. QED
    BY <1>f, <2>1, <2>2, <2>3
<1>6. ASSUME NEW a \in Addr, CallSetResidencyPriority(t, a)
      PROVE  PatchParts'
  <2> DEFINE f == [Idle EXCEPT !.pc = "residency", !.self = a]
  <2>1. f.pc = "residency" /\ f.self = a
    BY DEF Idle
  <2>2. "residency" \in HeldPC \ (PatchPC \cup DOMAIN LookupSlot)
    BY DEF HeldPC, PatchPC, PC, LookupSlot
  <2>3. /\ Become(t, f) /\ call[t] = Idle /\ t \in refs[a]
        /\ UNCHANGED <<refs, vt, slot, vtable_patches_, cap, mu_>>
    BY <1>6 DEF CallSetResidencyPriority, runtimeVars, patchVars
  <2> HIDE DEF f
  <2>4. QED
    BY <1>e, <2>1, <2>2, <2>3
<1>7. ASSUME NEW a \in Addr, NEW u \in Thread, AddRef(t, u, a)
      PROVE  PatchParts'
  <2>1. Refs
    BY <1>7, <1>b DEF AddRef, TypeOK
  <2>2. QED
    BY <1>7, <1>d, <2>1 DEF AddRef, patchVars
<1>8. ASSUME NEW a \in Addr, NEW n \in AnyName, CallSetName(t, a, n)
      PROVE  PatchParts'
  <2> DEFINE p == IF Hooked(a, "SetName") THEN "nameLookup" ELSE "spdCall"
             f == [Idle EXCEPT !.pc = p, !.self = a, !.name = n,
                               !.outer = Hooked(a, "SetName")]
  <2>1. f.pc = p /\ f.self = a
    BY DEF Idle
  <2>2. "spdCall" \in HeldPC \ (PatchPC \cup DOMAIN LookupSlot)
    BY DEF HeldPC, PatchPC, PC, LookupSlot
  <2>3. "nameLookup" \in DOMAIN LookupSlot /\ LookupSlot["nameLookup"] = "SetName"
    BY DEF LookupSlot
  <2>4. /\ Become(t, f) /\ call[t] = Idle /\ t \in refs[a]
        /\ UNCHANGED <<refs, vt, slot, vtable_patches_, cap, mu_>>
    BY <1>8 DEF CallSetName, runtimeVars, patchVars
  <2> HIDE DEF f
  <2>5. CASE Hooked(a, "SetName")
    BY <1>f, <2>1, <2>3, <2>4, <2>5
  <2>6. CASE ~Hooked(a, "SetName")
    BY <1>e, <2>1, <2>2, <2>4, <2>6
  <2>7. QED
    BY <2>5, <2>6
<1>9. ASSUME NEW a \in Addr, NEW n \in AnyName, CallSetPrivateData(t, a, n)
      PROVE  PatchParts'
  <2> DEFINE f == [Idle EXCEPT !.pc = "spdCall", !.self = a, !.name = n]
  <2>1. f.pc = "spdCall" /\ f.self = a
    BY DEF Idle
  <2>2. "spdCall" \in HeldPC \ (PatchPC \cup DOMAIN LookupSlot)
    BY DEF HeldPC, PatchPC, PC, LookupSlot
  <2>3. /\ Become(t, f) /\ call[t] = Idle /\ t \in refs[a]
        /\ UNCHANGED <<refs, vt, slot, vtable_patches_, cap, mu_>>
    BY <1>9 DEF CallSetPrivateData, runtimeVars, patchVars
  <2> HIDE DEF f
  <2>4. QED
    BY <1>e, <2>1, <2>2, <2>3
<1>10. PatchParts'
  BY <1>1, <1>2, <1>3, <1>4, <1>5, <1>6, <1>7, <1>8, <1>9 DEF AppStep
<1>11. QED
  BY <1>a, <1>10 DEF PatchParts

LEMMA HookStepPatch ==
  ASSUME PatchInv, NEW t \in Thread, HookStep(t)
  PROVE  PatchInv'
<1> DEFINE Frames == \A u \in Thread \ {t} : call'[u] = call[u]
           Refs == \A u \in Thread \ {t}, a \in Addr :
                     u \in refs[a] => u \in refs'[a] /\ vt'[a] = vt[a]
<1> USE ConstantsAssumption DEF PatchInv
<1>a. TypeInv'
  BY HookStepTypes
<1> SUFFICES PatchParts'
  BY <1>a DEF PatchParts
<1>b. call \in [Thread -> Frame] /\ TypeOK /\ CallOK
  BY DEF TypeInv, TypeOK
\* Steps that end the call's need for its object.
<1>c. ASSUME Frames, Refs, UNCHANGED <<slot, vtable_patches_, cap, mu_>>,
             call[t].pc \notin PatchPC,
             call'[t].pc \in {"idle", "erase", "pipe", "log", "outer"}
      PROVE  PatchParts'
  <2>1. call'[t].pc \notin PatchPC \cup HeldPC \cup DOMAIN LookupSlot
    BY <1>c DEF PatchPC, HeldPC, LookupSlot
  <2>2. QED
    BY <1>a, <1>c, <2>1, QuietStep
\* Steps that stay with the object and do not go to a lookup.
<1>d. ASSUME Frames, UNCHANGED <<refs, vt, slot, vtable_patches_, cap, mu_>>,
             call[t].pc \in HeldPC \ PatchPC, call'[t].self = call[t].self,
             call'[t].pc \in HeldPC \ (PatchPC \cup DOMAIN LookupSlot)
      PROVE  PatchParts'
  <2>1. t \in refs'[call'[t].self]
    BY <1>d DEF Held
  <2>2. QED
    BY <1>a, <1>d, <2>1, QuietStep
<1>e. "idle" \notin PC \cap HeldPC /\ HeldPC \subseteq PC
  BY DEF HeldPC
<1>1. CASE LookupHeapId(t)
  <2> DEFINE f == [call[t] EXCEPT
                    !.pc = "patch", !.ev = [@ EXCEPT !.ref = objects_[call[t].heap].id]]
  <2>1. f.pc = "patch" /\ f.self = call[t].self
    BY <1>b DEF Frame
  <2>2. Become(t, f)
    BY <1>1 DEF LookupHeapId
  <2> HIDE DEF f
  <2>3. call'[t] = f /\ Frames
    BY <2>2, <1>b DEF Become
  <2>4. call[t].pc \in HeldPC \ PatchPC /\ call'[t].pc \in HeldPC \ (PatchPC \cup DOMAIN LookupSlot)
    BY <1>1, <2>1, <2>3 DEF LookupHeapId, HeldPC, PC, PatchPC, LookupSlot
  <2>5. QED
    BY <1>1, <1>d, <2>1, <2>3, <2>4 DEF LookupHeapId, runtimeVars, patchVars
<1>2. CASE PatchVTableIfNew(t)
  <2>1. /\ call[t].pc = "patch" /\ mu_ = NoThread
        /\ call[t].pc \in HeldPC \ PatchPC
        /\ UNCHANGED <<refs, vt, slot, vtable_patches_>>
    BY <1>2 DEF PatchVTableIfNew, Free, HeldPC, PC, PatchPC, runtimeVars
  <2>2. CASE Goto(t, "fetch") /\ UNCHANGED <<mu_, cap>>
    <3>1. call'[t].pc = "fetch" /\ call'[t].self = call[t].self /\ Frames
      BY <2>2, <1>b, GotoFields
    <3>2. call'[t].pc \in HeldPC \ (PatchPC \cup DOMAIN LookupSlot)
      BY <3>1 DEF HeldPC, PC, PatchPC, LookupSlot
    <3>3. QED
      BY <1>d, <2>1, <2>2, <3>1, <3>2
  <2>3. CASE /\ vtable_patches_[vt[call[t].self]] = Unpatched
             /\ Goto(t, "Release") /\ mu_' = t
    <3>1. call'[t].pc = "Release" /\ call'[t].self = call[t].self /\ Frames
      BY <2>3, <1>b, GotoFields
    <3>2. \A u \in Thread \ {t} : call'[u].pc \notin PatchPC
      BY <2>1, <3>1 DEF Mutex
    <3>3. Mutex'
      BY <2>3, <3>1, <3>2 DEF Mutex, PatchPC
    <3>4. Held'
      BY <2>1, <3>1 DEF Held
    <3>5. PatchesOnce'
      BY <2>1, <2>3, <3>1, <3>2 DEF PatchesOnce
    <3>6. HookHasOriginal'
      BY <2>1 DEF HookHasOriginal
    <3>7. LookupIsHooked'
      BY <2>1, <3>1 DEF LookupIsHooked, LookupSlot
    <3>8. QED
      BY <3>3, <3>4, <3>5, <3>6, <3>7 DEF PatchParts
  <2>4. QED
    BY <1>2, <2>2, <2>3 DEF PatchVTableIfNew
<1>3. ASSUME NEW s \in Slot, PatchSlot(t, s) PROVE PatchParts'
  <2> DEFINE v == vt[call[t].self]
  <2>1. /\ call[t].pc = s /\ s \in PatchPC /\ mu_ = t /\ mu_' = t
        /\ call[t].self \in Addr /\ v \in VTable
        /\ UNCHANGED <<refs, vt, vtable_patches_>>
    BY <1>3, <1>b DEF PatchSlot, Slot, PatchPC, Mutex, runtimeVars, CallOK, TypeOK
  <2>2. vtable_patches_[v] = Unpatched
    BY <2>1 DEF PatchesOnce
  <2>3. s \notin Done(s) /\ Done(AfterSlot(s)) = Done(s) \cup {s}
    BY DEF Done, AfterSlot, Slot
  <2>4. slot[v][s] = "real"
    <3>1. vtable_patches_[v][s] # "real"
      BY <2>2 DEF Unpatched
    <3>2. slot[v][s] # "hook"
      BY <2>1, <2>3, <3>1 DEF HookHasOriginal
    <3>3. QED
      BY <1>b, <2>1, <3>2 DEF TypeOK
  <2>5. /\ call'[t].pc = AfterSlot(s) /\ call'[t].self = call[t].self /\ Frames
        /\ AfterSlot(s) \in PatchPC \ DOMAIN LookupSlot
    BY <1>3, <1>b, GotoFields DEF PatchSlot, AfterSlot, Slot, PatchPC, LookupSlot
  <2>6. /\ \A w \in VTable, r \in Slot :
             slot[w][r] = "hook" => slot'[w][r] = "hook"
        /\ \A w \in VTable, r \in Slot :
             slot'[w][r] = "hook" => slot[w][r] = "hook" \/ (w = v /\ r = s /\ cap'[s] = "real")
        /\ \A r \in Slot \ {s} : cap'[r] = cap[r]
    <3>1. CASE /\ cap' = [cap EXCEPT ![s] = slot[v][s]]
               /\ slot' = [slot EXCEPT ![v][s] = "hook"]
      BY <1>b, <2>1, <2>4, <3>1 DEF TypeOK
    <3>2. CASE /\ cap' = [cap EXCEPT ![s] = "null"]
               /\ UNCHANGED slot
      BY <1>b, <3>2 DEF TypeOK
    <3>3. QED
      BY <1>3, <3>1, <3>2 DEF PatchSlot
  <2>7. Mutex'
    BY <2>1, <2>5 DEF Mutex
  <2>8. Held'
    BY <2>1, <2>5 DEF Held, PatchPC, HeldPC, PC
  <2>9. PatchesOnce'
    BY <2>1, <2>5 DEF PatchesOnce, PatchPC
  <2>10. HookHasOriginal'
    <3> SUFFICES ASSUME NEW w \in VTable, NEW r \in Slot, slot'[w][r] = "hook",
                        vtable_patches_[w][r] # "real"
                 PROVE  w = v /\ r \in Done(AfterSlot(s)) /\ cap'[r] = "real"
      BY <2>1, <2>5 DEF HookHasOriginal
    <3>1. CASE w = v /\ r = s /\ cap'[s] = "real"
      BY <2>3, <3>1
    <3>2. CASE slot[w][r] = "hook"
      <4>1. w = v /\ r \in Done(s) /\ cap[r] = "real"
        BY <2>1, <3>2 DEF HookHasOriginal
      <4>2. QED
        BY <2>3, <2>6, <4>1
    <3>3. QED
      BY <2>6, <3>1, <3>2
  <2>11. LookupIsHooked'
    <3> SUFFICES ASSUME NEW u \in Thread, call'[u].pc \in DOMAIN LookupSlot
                 PROVE  slot'[vt[call'[u].self]][LookupSlot[call'[u].pc]] = "hook"
      BY <2>1 DEF LookupIsHooked
    <3>1. u # t /\ call'[u] = call[u]
      BY <2>5
    <3>2. vt[call[u].self] \in VTable /\ LookupSlot[call[u].pc] \in Slot
      BY <1>b, <3>1 DEF CallOK, TypeOK, LookupSlot, Slot
    <3>3. QED
      BY <2>6, <3>1, <3>2 DEF LookupIsHooked
  <2>12. QED
    BY <2>7, <2>8, <2>9, <2>10, <2>11 DEF PatchParts
<1>4. CASE Emplace(t)
  <2> DEFINE v == vt[call[t].self]
  <2>1. /\ call[t].pc = "emplace" /\ mu_ = t /\ mu_' = NoThread
        /\ call[t].self \in Addr /\ v \in VTable
        /\ vtable_patches_' = [vtable_patches_ EXCEPT ![v] = [s \in Slot |-> Unselfref(cap[s])]]
        /\ UNCHANGED <<refs, vt, slot>>
    BY <1>4, <1>b DEF Emplace, PatchPC, Mutex, runtimeVars, CallOK, TypeOK
  <2>2. call'[t].pc = "fetch" /\ call'[t].self = call[t].self /\ Frames
    BY <1>4, <1>b, GotoFields DEF Emplace
  <2>3. \A u \in Thread : call'[u].pc \notin PatchPC
    BY <2>1, <2>2 DEF Mutex, PatchPC
  <2>4. Mutex' /\ PatchesOnce'
    BY <2>1, <2>3 DEF Mutex, PatchesOnce
  <2>5. Held'
    BY <2>1, <2>2 DEF Held, HeldPC, PC
  <2>6. HookHasOriginal'
    <3> SUFFICES ASSUME NEW w \in VTable, NEW r \in Slot, slot[w][r] = "hook"
                 PROVE  vtable_patches_'[w][r] = "real"
      BY <2>1 DEF HookHasOriginal
    <3>1. vtable_patches_[w][r] = "real" \/ (w = v /\ cap[r] = "real")
      BY <2>1 DEF HookHasOriginal
    <3>2. CASE w = v
      <4>1. vtable_patches_[v] = Unpatched
        BY <2>1 DEF PatchesOnce, PatchPC
      <4>2. cap[r] = "real"
        BY <3>1, <3>2, <4>1 DEF Unpatched
      <4>3. QED
        BY <1>b, <2>1, <3>2, <4>2 DEF TypeOK, Unselfref
    <3>3. CASE w # v
      BY <1>b, <2>1, <3>1, <3>3 DEF TypeOK
    <3>4. QED
      BY <3>2, <3>3
  <2>7. LookupIsHooked'
    BY <2>1, <2>2 DEF LookupIsHooked, LookupSlot
  <2>8. QED
    BY <2>4, <2>5, <2>6, <2>7 DEF PatchParts
<1>5. CASE FetchId(t)
  <2> DEFINE f == [call[t] EXCEPT !.pc = "insert", !.ev = [@ EXCEPT !.id = next_id_]]
  <2>1. f.pc = "insert" /\ f.self = call[t].self
    BY <1>b DEF Frame
  <2>2. Become(t, f)
    BY <1>5 DEF FetchId
  <2> HIDE DEF f
  <2>3. call'[t] = f /\ Frames
    BY <2>2, <1>b DEF Become
  <2>4. call[t].pc \in HeldPC \ PatchPC /\ call'[t].pc \in HeldPC \ (PatchPC \cup DOMAIN LookupSlot)
    BY <1>5, <2>1, <2>3 DEF FetchId, HeldPC, PC, PatchPC, LookupSlot
  <2>5. QED
    BY <1>5, <1>d, <2>1, <2>3, <2>4 DEF FetchId, runtimeVars, patchVars
\* Steps without effect on vtables and references.
<1> DEFINE Still == UNCHANGED <<refs, vt, slot, vtable_patches_, cap, mu_>>
<1>6. CASE Insert(t) \/ EmitPipe(t) \/ EmitLog(t)
  <2>1. Still /\ call[t].pc \notin PatchPC
    BY <1>6 DEF Insert, EmitPipe, EmitLog, PatchPC, runtimeVars, patchVars
  <2>2. call[t].next \in {"idle", "outer"}
    BY <1>b DEF Frame
  <2>3. Frames /\ call'[t].pc \in {"idle", "erase", "pipe", "log", "outer"}
    BY <1>6, <1>b, <2>2, GotoFields, ReturnFields DEF Insert, EmitPipe, EmitLog
  <2>4. QED
    BY <1>c, <2>1, <2>3
<1>7. CASE ReleaseLookup(t) \/ SetNameLookup(t) \/ SetPrivateDataLookup(t)
  <2>1. Still /\ call[t].pc \in HeldPC \ PatchPC
    BY <1>7 DEF ReleaseLookup, SetNameLookup, SetPrivateDataLookup, PatchPC,
       HeldPC, PC, runtimeVars, patchVars
  <2>2. \/ \E p \in {"relReal", "spdCall", "spdReal"} : Goto(t, p)
        \/ Goto(t, "outer") \/ Return(t)
    BY <1>7 DEF ReleaseLookup, SetNameLookup, SetPrivateDataLookup, AfterSetPrivateData
  <2>3. CASE \E p \in {"relReal", "spdCall", "spdReal"} : Goto(t, p)
    <3>1. /\ call'[t].pc \in {"relReal", "spdCall", "spdReal"}
          /\ call'[t].self = call[t].self /\ Frames
      BY <2>3, <1>b, GotoFields
    <3>2. call'[t].pc \in HeldPC \ (PatchPC \cup DOMAIN LookupSlot)
      BY <3>1 DEF HeldPC, PC, PatchPC, LookupSlot
    <3>3. QED
      BY <1>d, <2>1, <3>1, <3>2
  <2>4. CASE Goto(t, "outer") \/ Return(t)
    BY <2>1, <2>4, <1>b, <1>c, GotoFields, ReturnFields
  <2>5. QED
    BY <2>2, <2>3, <2>4
<1>8. CASE ReleaseReal(t)
  <2>1. call[t].self \in Addr /\ RealRelease(t, call[t].self)
    BY <1>8, <1>b DEF ReleaseReal, CallOK
  <2>2. Refs
    BY <1>b, <2>1, ReleaseKeepsOthers
  <2>3. Goto(t, "erase") \/ Return(t)
    BY <1>8 DEF ReleaseReal
  <2>4. Frames /\ call'[t].pc \in {"idle", "erase"}
    BY <2>3, <1>b, GotoFields, ReturnFields
  <2>5. UNCHANGED <<slot, vtable_patches_, cap, mu_>> /\ call[t].pc \notin PatchPC
    BY <1>8 DEF ReleaseReal, patchVars, PatchPC
  <2>6. QED
    BY <1>c, <2>2, <2>4, <2>5
<1>9. CASE OnReleaseToZero(t) \/ InnerOnSetName(t) \/ OuterOnSetName(t) \/ ResidencyLookup(t)
  <2>1. Still /\ call[t].pc \notin PatchPC
    BY <1>9 DEF OnReleaseToZero, InnerOnSetName, OuterOnSetName, OnSetName,
       ResidencyLookup, PatchPC, runtimeVars, patchVars
  <2>2. Return(t) \/ Goto(t, "outer") \/ \E e, n : Emit(t, e, n)
    BY <1>9 DEF OnReleaseToZero, InnerOnSetName, OuterOnSetName, OnSetName, ResidencyLookup
  <2>3. Frames /\ call'[t].pc \in {"idle", "outer", "pipe"}
    BY <2>2, <1>b, GotoFields, ReturnFields, EmitFields
  <2>4. QED
    BY <1>c, <2>1, <2>3
<1>10. CASE SetPrivateDataDispatch(t)
  <2>1. Still /\ call[t].pc = "spdCall" /\ call[t].pc \in HeldPC \ PatchPC
    BY <1>10 DEF SetPrivateDataDispatch, RealSetPrivateData, PatchPC, HeldPC, PC,
       runtimeVars, patchVars
  <2>2. CASE Hooked(call[t].self, "SetPrivateData") /\ Goto(t, "spdLookup")
    <3>1. call'[t].pc = "spdLookup" /\ call'[t].self = call[t].self /\ Frames
      BY <2>2, <1>b, GotoFields
    <3>2. t \in refs'[call'[t].self]
      BY <2>1, <3>1 DEF Held
    <3>3. slot[vt'[call'[t].self]][LookupSlot[call'[t].pc]] = "hook"
      BY <2>1, <2>2, <3>1 DEF Hooked, LookupSlot
    <3>4. call'[t].pc \notin PatchPC
      BY <3>1 DEF PatchPC
    <3>5. QED
      BY <1>a, <2>1, <3>1, <3>2, <3>3, <3>4, QuietStep
  <2>3. CASE Goto(t, "outer") \/ Return(t)
    BY <2>1, <2>3, <1>b, <1>c, GotoFields, ReturnFields
  <2>4. QED
    BY <1>10, <2>2, <2>3 DEF SetPrivateDataDispatch, AfterSetPrivateData
<1>11. CASE HookSetPrivateData(t)
  <2>1. Still /\ call[t].pc \in HeldPC \ PatchPC
    BY <1>11 DEF HookSetPrivateData, RealSetPrivateData, PatchPC, HeldPC, PC,
       runtimeVars, patchVars
  <2>2. Goto(t, "onSetName") \/ Goto(t, "outer") \/ Return(t)
    BY <1>11 DEF HookSetPrivateData, AfterSetPrivateData
  <2>3. CASE Goto(t, "onSetName")
    <3>1. call'[t].pc = "onSetName" /\ call'[t].self = call[t].self /\ Frames
      BY <2>3, <1>b, GotoFields
    <3>2. call'[t].pc \in HeldPC \ (PatchPC \cup DOMAIN LookupSlot)
      BY <3>1 DEF HeldPC, PC, PatchPC, LookupSlot
    <3>3. QED
      BY <1>d, <2>1, <3>1, <3>2
  <2>4. CASE Goto(t, "outer") \/ Return(t)
    BY <2>1, <2>4, <1>b, <1>c, GotoFields, ReturnFields
  <2>5. QED
    BY <2>2, <2>3, <2>4
<1>12. QED
  BY <1>1, <1>2, <1>3, <1>4, <1>5, <1>6, <1>7, <1>8, <1>9, <1>10, <1>11 DEF HookStep

LEMMA InitPatch == Init => PatchInv
<1> SUFFICES ASSUME Init PROVE PatchInv
  OBVIOUS
<1>1. TypeInv
  BY InitTypes
<1>2. \A t \in Thread : call[t].pc = "idle"
  BY DEF Init, Idle
<1>3. mu_ = NoThread /\ \A v \in VTable, s \in Slot : slot[v][s] = "real"
  BY DEF Init
<1>4. "idle" \notin PatchPC \cup HeldPC \cup DOMAIN LookupSlot
  BY DEF PatchPC, HeldPC, LookupSlot
<1>5. QED
  BY <1>1, <1>2, <1>3, <1>4
  DEF PatchInv, Mutex, Held, PatchesOnce, HookHasOriginal, LookupIsHooked

LEMMA PatchStep == PatchInv /\ [Next]_vars => PatchInv'
<1>1. PatchInv /\ UNCHANGED vars => PatchInv'
  BY DEF PatchInv, TypeInv, TypeOK, CallOK, Mutex, Held, PatchesOnce,
     HookHasOriginal, LookupIsHooked, vars, runtimeVars, patchVars, trackVars, sinkVars
<1>2. QED
  BY <1>1, AppStepPatch, HookStepPatch DEF Next

\* Whatever threads create, patch, release and name at once, and whichever
\* slots VirtualProtect refuses, a hook that fires finds the runtime's
\* function (GetRealRelease, GetRealSetName, GetRealSetPrivateData).
THEOREM HooksFindReal == Spec => []HookFindsReal
<1>1. Init => PatchInv
  BY InitPatch
<1>2. PatchInv /\ [Next]_vars => PatchInv'
  BY PatchStep
<1>3. PatchInv => HookFindsReal
  <2> SUFFICES ASSUME PatchInv, NEW t \in Thread,
                      call[t].pc \in DOMAIN LookupSlot, Free
               PROVE  RealOf(call[t].self, LookupSlot[call[t].pc]) = "real"
    BY DEF HookFindsReal
  <2>1. vt[call[t].self] \in VTable /\ LookupSlot[call[t].pc] \in Slot
    BY DEF PatchInv, TypeInv, TypeOK, CallOK, LookupSlot, Slot
  <2>2. slot[vt[call[t].self]][LookupSlot[call[t].pc]] = "hook"
    BY DEF PatchInv, LookupIsHooked
  <2>3. QED
    BY <2>1, <2>2 DEF PatchInv, HookHasOriginal, Free, RealOf
<1>4. QED
  BY <1>1, <1>2, <1>3, PTL DEF Spec

-----------------------------------------------------------------------------
(* Objects reported as destroyed are dead *)

\* What a step of t does to objects: it allocates at a free address, takes a
\* reference away, adds one to a live object, or does nothing.
RuntimeStep(t) ==
  \/ UNCHANGED <<refs, serial, dead, seen>>
  \/ \E a \in Addr, v \in VTable : Allocate(t, a, v)
  \/ /\ \E a \in Addr : RealRelease(t, a) /\ t \in refs[a]
     /\ UNCHANGED seen
  \/ /\ \E a \in Addr, u \in Thread :
          refs[a] # {} /\ refs' = [refs EXCEPT ![a] = @ \cup {u}]
     /\ UNCHANGED <<serial, dead>>
     /\ seen \subseteq seen'

LEMMA RuntimeStepFacts ==
  ASSUME PatchInv, DeathInv, NEW t \in Thread, RuntimeStep(t)
  PROVE  /\ dead \subseteq dead' /\ seen \subseteq seen'
         /\ Lifetimes'
         /\ \A a \in Addr : serial'[a] # serial[a] =>
              /\ refs[a] = {}
              /\ InReleaseWindow(a) => "reuse" \in seen'
<1>a. /\ refs \in [Addr -> SUBSET Thread] /\ serial \in [Addr -> Nat]
      /\ born \in Nat /\ Lifetimes
  BY DEF PatchInv, TypeInv, TypeOK, DeathInv
<1>1. CASE UNCHANGED <<refs, serial, dead, seen>>
  BY <1>1, <1>a DEF Lifetimes
<1>2. ASSUME NEW b \in Addr, NEW v \in VTable, Allocate(t, b, v)
      PROVE  /\ dead \subseteq dead' /\ seen \subseteq seen'
             /\ Lifetimes'
             /\ \A a \in Addr : serial'[a] # serial[a] =>
                  /\ refs[a] = {}
                  /\ InReleaseWindow(a) => "reuse" \in seen'
  <2>1. /\ refs[b] = {} /\ refs' = [refs EXCEPT ![b] = {t}]
        /\ serial' = [serial EXCEPT ![b] = born + 1] /\ dead' = dead
        /\ seen \subseteq seen' /\ (InReleaseWindow(b) => "reuse" \in seen')
    BY <1>2 DEF Allocate, Observe
  <2>2. \A a \in Addr \ {b} : refs'[a] = refs[a] /\ serial'[a] = serial[a]
    BY <2>1, <1>a
  <2>3. refs'[b] # {} /\ serial'[b] # 0
    BY <2>1, <1>a
  <2>4. Lifetimes'
    BY <1>a, <2>1, <2>2, <2>3 DEF Lifetimes
  <2>5. QED
    BY <2>1, <2>2, <2>4
<1>3. ASSUME NEW b \in Addr, RealRelease(t, b), t \in refs[b]
      PROVE  dead \subseteq dead' /\ serial' = serial /\ Lifetimes'
  <2>1. /\ refs' = [refs EXCEPT ![b] = @ \ {t}] /\ serial' = serial
        /\ dead' = IF refs[b] = {t} THEN dead \cup {serial[b]} ELSE dead
    BY <1>3 DEF RealRelease
  <2>2. \A a \in Addr \ {b} : refs'[a] = refs[a]
    BY <2>1, <1>a
  <2>3. refs'[b] = {} => serial[b] \in dead'
    BY <2>1, <1>3, <1>a
  <2>4. serial[b] # 0
    BY <1>3, <1>a DEF Lifetimes
  <2>5. Lifetimes'
    BY <1>a, <2>1, <2>2, <2>3, <2>4 DEF Lifetimes
  <2>6. QED
    BY <2>1, <2>5
<1>4. ASSUME NEW b \in Addr, NEW u \in Thread,
             refs[b] # {}, refs' = [refs EXCEPT ![b] = @ \cup {u}],
             UNCHANGED <<serial, dead>>
      PROVE  Lifetimes'
  <2>1. \A a \in Addr : refs'[a] # {} <=> refs[a] # {}
    BY <1>4, <1>a
  <2>2. QED
    BY <2>1, <1>4, <1>a DEF Lifetimes
<1>5. QED
  BY <1>1, <1>2, <1>3, <1>4 DEF RuntimeStep

\* A step of t, from what it does to t's own frame, to the records and to the
\* sinks.
LEMMA DeathStep ==
  ASSUME PatchInv, DeathInv, NEW t \in Thread, RuntimeStep(t), TypeInv',
         \A u \in Thread \ {t} : call'[u] = call[u],
         call'[t].pc \in RegisterPC =>
           /\ call'[t].ev.kind = "Created"
           /\ call'[t].ev.obj = serial'[call'[t].self]
           /\ call'[t].ev.obj # 0,
         "reuse" \notin seen' /\ call'[t].pc = "erase"
           => serial'[call'[t].self] \in dead',
         "reuse" \notin seen' /\ call'[t].pc \in {"pipe", "log"}
           /\ call'[t].ev.kind = "Destroyed"
           => call'[t].ev.obj \in dead',
         \A a \in Addr : objects_'[a].id # 0 =>
           \/ objects_[a].id # 0 /\ objects_'[a].obj = objects_[a].obj
           \/ objects_'[a].obj = serial'[a] /\ objects_'[a].obj # 0,
         pipe' = pipe \/ (call[t].pc = "pipe" /\ pipe' = Append(pipe, call[t].ev)),
         log' = log \/ (call[t].pc = "log" /\ log' = Append(log, call[t].ev))
  PROVE  DeathInv'
<1> USE DEF PatchInv, DeathInv
<1>1. /\ dead \subseteq dead' /\ seen \subseteq seen' /\ Lifetimes'
      /\ \A a \in Addr : serial'[a] # serial[a] =>
           refs[a] = {} /\ (InReleaseWindow(a) => "reuse" \in seen')
  BY RuntimeStepFacts
<1>2. \A u \in Thread : call[u].pc # "idle" => call[u].self \in Addr
  BY DEF TypeInv, CallOK
<1>3. RegistersItsObject'
  <2>1. RegisterPC \subseteq HeldPC /\ "idle" \notin RegisterPC
    BY DEF RegisterPC, PatchPC, HeldPC, PC
  <2>2. ASSUME NEW u \in Thread \ {t}, call[u].pc \in RegisterPC
        PROVE  serial'[call[u].self] = serial[call[u].self]
    BY <1>1, <1>2, <2>1, <2>2 DEF Held
  <2>3. QED
    BY <2>2 DEF RegistersItsObject
<1>4. RecordsNotAhead'
  <2> SUFFICES ASSUME NEW a \in Addr, objects_'[a].id # 0
               PROVE  /\ objects_'[a].obj # 0
                      /\ objects_'[a].obj = serial'[a] \/ objects_'[a].obj \in dead'
    BY DEF RecordsNotAhead
  <2>1. CASE objects_[a].id # 0 /\ objects_'[a].obj = objects_[a].obj
    <3>1. objects_[a].obj # 0 /\ (objects_[a].obj = serial[a] \/ objects_[a].obj \in dead)
      BY <2>1 DEF RecordsNotAhead
    <3>2. serial'[a] # serial[a] => serial[a] = 0 \/ serial[a] \in dead
      BY <1>1 DEF Lifetimes
    <3>3. QED
      BY <1>1, <2>1, <3>1, <3>2
  <2>2. QED
    BY <2>1
<1>5. ErasesDead'
  <2> SUFFICES ASSUME "reuse" \notin seen', NEW u \in Thread \ {t}, call[u].pc = "erase"
               PROVE  serial'[call[u].self] \in dead'
    BY DEF ErasesDead
  <2>1. serial[call[u].self] \in dead
    BY <1>1 DEF ErasesDead
  <2>2. call[u].self \in Addr /\ InReleaseWindow(call[u].self)
    BY <1>2 DEF InReleaseWindow
  <2>3. QED
    BY <1>1, <2>1, <2>2
<1>6. SendsDead'
  BY <1>1 DEF SendsDead
<1>7. DestroyedIsDeath'
  <2>1. CASE "reuse" \in seen'
    BY <2>1 DEF DestroyedIsDeath
  <2>2. CASE "reuse" \notin seen'
    <3>1. "reuse" \notin seen /\ DestroyedOnlyWhenDead
      BY <1>1, <2>2 DEF DestroyedIsDeath
    <3>2. pipe \in Seq(Event) /\ log \in Seq(Event)
      BY DEF TypeInv, TypeOK
    <3>3. call[t].pc \in {"pipe", "log"} /\ call[t].ev.kind = "Destroyed"
            => call[t].ev.obj \in dead
      BY <3>1 DEF SendsDead
    <3>4. \A i \in 1..Len(pipe') : pipe'[i].kind = "Destroyed" => pipe'[i].obj \in dead'
      BY <1>1, <3>1, <3>2, <3>3 DEF DestroyedOnlyWhenDead
    <3>5. \A i \in 1..Len(log') : log'[i].kind = "Destroyed" => log'[i].obj \in dead'
      BY <1>1, <3>1, <3>2, <3>3 DEF DestroyedOnlyWhenDead
    <3>6. QED
      BY <3>4, <3>5 DEF DestroyedIsDeath, DestroyedOnlyWhenDead
  <2>3. QED
    BY <2>1, <2>2
<1>8. QED
  BY <1>1, <1>3, <1>4, <1>5, <1>6, <1>7

LEMMA AppStepDeath ==
  ASSUME PatchInv, DeathInv, NEW t \in Thread, AppStep(t)
  PROVE  DeathInv'
<1> DEFINE Frames == \A u \in Thread \ {t} : call'[u] = call[u]
           Quiet == UNCHANGED <<objects_, pipe, log>>
<1> USE DEF PatchInv
<1>a. TypeInv'
  BY AppStepTypes
<1>b. call \in [Thread -> Frame] /\ TypeOK
  BY DEF TypeInv, TypeOK
<1>c. /\ Idle.pc = "idle"
      /\ RegisterPC \cap {"idle", "relLookup", "residency", "nameLookup", "spdCall"} = {}
      /\ RegisterPC \cap {"erase", "pipe", "log"} = {}
  BY DEF Idle, RegisterPC, PatchPC
\* Steps after which t is at a label where it has nothing to register or send.
<1>d. ASSUME Quiet, RuntimeStep(t), Frames,
             call'[t].pc \in {"idle", "relLookup", "residency", "nameLookup", "spdCall"}
      PROVE  DeathInv'
  BY <1>a, <1>c, <1>d, DeathStep
\* Steps that start to register the object at b.
<1>e. ASSUME NEW b \in Addr, NEW f, Quiet, RuntimeStep(t), Become(t, f),
             f.pc \in {"patch", "heapid"}, f.self = b, f.ev.kind = "Created",
             f.ev.obj = serial'[b], serial'[b] # 0
      PROVE  DeathInv'
  <2>1. call'[t] = f /\ Frames
    BY <1>b, <1>e DEF Become
  <2>2. QED
    BY <1>a, <1>c, <1>e, <2>1, DeathStep
<1>f. \A a \in Addr : /\ CreatedEvent(a, born + 1).kind = "Created"
                      /\ CreatedEvent(a, born + 1).obj = born + 1
                      /\ CreatedEvent(a, serial[a]).kind = "Created"
                      /\ CreatedEvent(a, serial[a]).obj = serial[a]
  BY DEF CreatedEvent, NoEvent
<1>1. ASSUME NEW a \in Addr, NEW v \in VTable, RuntimeCreate(t, a, v)
      PROVE  DeathInv'
  <2>1. Quiet /\ RuntimeStep(t) /\ call' = call /\ call[t] = Idle
    BY <1>1 DEF RuntimeCreate, RuntimeStep, trackVars, sinkVars
  <2>2. QED
    BY <1>c, <1>d, <2>1
<1>2. ASSUME NEW a \in Addr, NEW v \in VTable, NEW h \in Addr \cup {NoAddr},
             HookCreate(t, a, v, h)
      PROVE  DeathInv'
  <2> DEFINE p == IF h = NoAddr THEN "patch" ELSE "heapid"
             f == [Idle EXCEPT !.pc = p, !.self = a, !.heap = h,
                               !.ev = CreatedEvent(a, born + 1)]
  <2>1. f.pc = p /\ f.self = a /\ f.ev = CreatedEvent(a, born + 1)
    BY DEF Idle
  <2>2. Quiet /\ RuntimeStep(t) /\ Become(t, f) /\ Allocate(t, a, v)
    BY <1>2 DEF HookCreate, RuntimeStep, trackVars, sinkVars
  <2>3. serial'[a] = born + 1 /\ born + 1 # 0
    BY <1>b, <2>2 DEF Allocate, TypeOK
  <2> HIDE DEF f
  <2>4. QED
    BY <1>e, <1>f, <2>1, <2>2, <2>3
<1>3. ASSUME NEW a \in Addr, HookCreateShared(t, a)
      PROVE  DeathInv'
  <2> DEFINE f == [Idle EXCEPT !.pc = "patch", !.self = a,
                               !.ev = CreatedEvent(a, serial[a])]
  <2>1. f.pc = "patch" /\ f.self = a /\ f.ev = CreatedEvent(a, serial[a])
    BY DEF Idle
  <2>2. Quiet /\ RuntimeStep(t) /\ Become(t, f) /\ refs[a] # {} /\ serial' = serial
    BY <1>3 DEF HookCreateShared, RuntimeStep, Observe, trackVars, sinkVars
  <2>3. serial[a] # 0
    BY <2>2 DEF DeathInv, Lifetimes
  <2> HIDE DEF f
  <2>4. QED
    BY <1>e, <1>f, <2>1, <2>2, <2>3
<1>4. ASSUME NEW a \in Addr, NEW u \in Thread, ReleaseUnhooked(t, a) \/ AddRef(t, u, a)
      PROVE  DeathInv'
  <2>1. Quiet /\ RuntimeStep(t) /\ call' = call /\ call[t] = Idle
    BY <1>4 DEF ReleaseUnhooked, AddRef, RuntimeStep, trackVars, sinkVars
  <2>2. QED
    BY <1>c, <1>d, <2>1
<1>5. ASSUME NEW a \in Addr, NEW n \in AnyName,
             \/ HookRelease(t, a) \/ CallSetResidencyPriority(t, a)
             \/ CallSetName(t, a, n) \/ CallSetPrivateData(t, a, n)
      PROVE  DeathInv'
  <2>1. Quiet /\ RuntimeStep(t)
    <3>1. CASE HookRelease(t, a) \/ CallSetResidencyPriority(t, a)
      BY <3>1 DEF HookRelease, CallSetResidencyPriority, RuntimeStep,
         runtimeVars, trackVars, sinkVars
    <3>2. CASE CallSetName(t, a, n) \/ CallSetPrivateData(t, a, n)
      <4>1. /\ UNCHANGED <<refs, serial, dead, objects_, pipe, log>>
            /\ seen \subseteq seen' /\ t \in refs[a]
        BY <3>2 DEF CallSetName, CallSetPrivateData, Observe, runtimeVars,
           trackVars, sinkVars
      <4>2. refs[a] # {} /\ refs' = [refs EXCEPT ![a] = @ \cup {t}]
        BY <1>b, <4>1 DEF TypeOK
      <4>3. QED
        BY <4>1, <4>2 DEF RuntimeStep
    <3>3. QED
      BY <1>5, <3>1, <3>2
  <2>2. PICK f : /\ Become(t, f)
                 /\ f.pc \in {"relLookup", "residency", "nameLookup", "spdCall"}
    <3>1. CASE HookRelease(t, a)
      <4>1. [Idle EXCEPT !.pc = "relLookup", !.self = a].pc = "relLookup"
        BY DEF Idle
      <4>2. QED
        BY <3>1, <4>1 DEF HookRelease
    <3>2. CASE CallSetResidencyPriority(t, a)
      <4>1. [Idle EXCEPT !.pc = "residency", !.self = a].pc = "residency"
        BY DEF Idle
      <4>2. QED
        BY <3>2, <4>1 DEF CallSetResidencyPriority
    <3>3. CASE CallSetName(t, a, n)
      <4> DEFINE p == IF Hooked(a, "SetName") THEN "nameLookup" ELSE "spdCall"
                 f == [Idle EXCEPT !.pc = p, !.self = a, !.name = n,
                                   !.outer = Hooked(a, "SetName")]
      <4>1. f.pc = p
        BY DEF Idle
      <4>2. Become(t, f)
        BY <3>3 DEF CallSetName
      <4> HIDE DEF f
      <4>3. QED
        BY <4>1, <4>2
    <3>4. CASE CallSetPrivateData(t, a, n)
      <4>1. [Idle EXCEPT !.pc = "spdCall", !.self = a, !.name = n].pc = "spdCall"
        BY DEF Idle
      <4>2. QED
        BY <3>4, <4>1 DEF CallSetPrivateData
    <3>5. QED
      BY <1>5, <3>1, <3>2, <3>3, <3>4
  <2>3. call'[t] = f /\ Frames
    BY <1>b, <2>2 DEF Become
  <2>4. QED
    BY <1>d, <2>1, <2>2, <2>3
<1>6. NoName \in AnyName
  BY DEF AnyName
<1>7. QED
  BY <1>1, <1>2, <1>3, <1>4, <1>5, <1>6 DEF AppStep

LEMMA HookStepDeath ==
  ASSUME PatchInv, DeathInv, NEW t \in Thread, HookStep(t)
  PROVE  DeathInv'
<1> DEFINE Frames == \A u \in Thread \ {t} : call'[u] = call[u]
           Sinks == UNCHANGED <<pipe, log>>
           Still == UNCHANGED <<refs, serial, dead, seen>>
           Calm == {"idle", "relReal", "spdCall", "spdLookup", "spdReal", "onSetName", "outer"}
<1> USE DEF PatchInv
<1>a. TypeInv'
  BY HookStepTypes
<1>b. call \in [Thread -> Frame] /\ TypeOK /\ CallOK
  BY DEF TypeInv, TypeOK
<1>c. /\ RegisterPC \cap {"erase", "pipe", "log"} = {}
      /\ Calm \cap (RegisterPC \cup {"erase", "pipe", "log"}) = {}
  BY DEF RegisterPC, PatchPC
<1>d. Still => RuntimeStep(t)
  BY DEF RuntimeStep
\* Steps after which t has nothing to register or send.
<1>e. ASSUME Still, Frames, Sinks, call'[t].pc \in Calm,
             \A a \in Addr : objects_'[a].id = objects_[a].id /\ objects_'[a].obj = objects_[a].obj
      PROVE  DeathInv'
  BY <1>a, <1>c, <1>d, <1>e, DeathStep
\* Steps of Register before the record is in the map.
<1>f. ASSUME RuntimeStep(t), UNCHANGED <<serial, objects_>>, Frames, Sinks,
             call[t].pc \in RegisterPC, call'[t].pc \in RegisterPC,
             call'[t].self = call[t].self, call'[t].ev.kind = call[t].ev.kind,
             call'[t].ev.obj = call[t].ev.obj
      PROVE  DeathInv'
  <2>1. /\ call'[t].ev.kind = "Created"
        /\ call'[t].ev.obj = serial[call'[t].self] /\ call'[t].ev.obj # 0
    BY <1>f DEF DeathInv, RegistersItsObject
  <2>2. QED
    BY <1>a, <1>c, <1>f, <2>1, DeathStep
\* Steps that begin to send an event that is no destroyed event.
<1>g. ASSUME Still, Frames, Sinks, call'[t].pc = "pipe", call'[t].ev.kind # "Destroyed",
             \A a \in Addr : objects_'[a].id # 0 =>
               \/ objects_[a].id # 0 /\ objects_'[a].obj = objects_[a].obj
               \/ objects_'[a].obj = serial[a] /\ objects_'[a].obj # 0
      PROVE  DeathInv'
  BY <1>a, <1>c, <1>d, <1>g, DeathStep
<1>1. CASE LookupHeapId(t)
  <2> DEFINE e == [call[t].ev EXCEPT !.ref = objects_[call[t].heap].id]
             f == [call[t] EXCEPT !.pc = "patch", !.ev = e]
  <2>1. e.kind = call[t].ev.kind /\ e.obj = call[t].ev.obj
    BY <1>b DEF Frame, Event
  <2>2. f.pc = "patch" /\ f.self = call[t].self /\ f.ev = e
    BY <1>b DEF Frame
  <2>3. Become(t, f) /\ call[t].pc = "heapid"
    BY <1>1 DEF LookupHeapId
  <2> HIDE DEF f, e
  <2>4. call'[t] = f /\ Frames
    BY <2>3, <1>b DEF Become
  <2>5. call[t].pc \in RegisterPC /\ call'[t].pc \in RegisterPC
    BY <2>2, <2>3, <2>4 DEF RegisterPC
  <2>6. QED
    BY <1>1, <1>d, <1>f, <2>1, <2>2, <2>4, <2>5
    DEF LookupHeapId, runtimeVars, trackVars, sinkVars
<1>2. CASE PatchVTableIfNew(t) \/ (\E s \in Slot : PatchSlot(t, s)) \/ Emplace(t)
  <2>1. PICK p \in {"fetch", "Release", "SetPrivateData", "SetName", "emplace"} : Goto(t, p)
    BY <1>2 DEF PatchVTableIfNew, PatchSlot, AfterSlot, Emplace, Slot
  <2>2. UNCHANGED <<refs, serial, dead, objects_>> /\ Sinks /\ seen \subseteq seen'
    BY <1>2 DEF PatchVTableIfNew, PatchSlot, Emplace, Observe, runtimeVars, trackVars, sinkVars
  <2>3. call[t].pc \in RegisterPC /\ p \in RegisterPC
    BY <1>2, <2>1 DEF PatchVTableIfNew, PatchSlot, Emplace, Slot, RegisterPC, PatchPC
  <2>4. /\ call'[t].pc = p /\ call'[t].self = call[t].self /\ call'[t].ev = call[t].ev
        /\ Frames
    BY <1>b, <2>1, GotoFields
  <2>5. RuntimeStep(t)
    <3>1. call[t].self \in Addr /\ t \in refs[call[t].self]
      BY <1>b, <2>3 DEF CallOK, Held, HeldPC, PC, RegisterPC, PatchPC
    <3>2. refs' = [refs EXCEPT ![call[t].self] = @ \cup {t}]
      BY <1>b, <2>2, <3>1 DEF TypeOK
    <3>3. QED
      BY <2>2, <3>1, <3>2 DEF RuntimeStep
  <2>6. QED
    BY <1>f, <2>2, <2>3, <2>4, <2>5
<1>3. CASE FetchId(t)
  <2> DEFINE e == [call[t].ev EXCEPT !.id = next_id_]
             f == [call[t] EXCEPT !.pc = "insert", !.ev = e]
  <2>1. e.kind = call[t].ev.kind /\ e.obj = call[t].ev.obj
    BY <1>b DEF Frame, Event
  <2>2. f.pc = "insert" /\ f.self = call[t].self /\ f.ev = e
    BY <1>b DEF Frame
  <2>3. Become(t, f) /\ call[t].pc = "fetch"
    BY <1>3 DEF FetchId
  <2> HIDE DEF f, e
  <2>4. call'[t] = f /\ Frames
    BY <2>3, <1>b DEF Become
  <2>5. call[t].pc \in RegisterPC /\ call'[t].pc \in RegisterPC
    BY <2>2, <2>3, <2>4 DEF RegisterPC
  <2>6. QED
    BY <1>3, <1>d, <1>f, <2>1, <2>2, <2>4, <2>5 DEF FetchId, runtimeVars, sinkVars
<1>4. CASE Insert(t)
  <2>1. call[t].pc \in RegisterPC /\ call[t].self \in Addr /\ Goto(t, "pipe")
    BY <1>4, <1>b DEF Insert, RegisterPC, CallOK
  <2>2. /\ call[t].ev.kind = "Created" /\ call[t].ev.obj = serial[call[t].self]
        /\ call[t].ev.obj # 0
    BY <2>1 DEF DeathInv, RegistersItsObject
  <2>3. call'[t].pc = "pipe" /\ call'[t].ev = call[t].ev /\ Frames
    BY <1>b, <2>1, GotoFields
  <2> DEFINE r == [id |-> call[t].ev.id, name |-> NoName, obj |-> call[t].ev.obj]
  <2>4. objects_' = [objects_ EXCEPT ![call[t].self] = r] /\ Still /\ Sinks
    BY <1>4 DEF Insert, runtimeVars, sinkVars
  <2>5. r.obj = serial[call[t].self] /\ r.obj # 0
    BY <2>2
  <2> HIDE DEF r
  <2>6. \A a \in Addr : objects_'[a] = IF a = call[t].self THEN r ELSE objects_[a]
    BY <1>b, <2>4 DEF TypeOK
  <2>7. QED
    BY <1>g, <2>2, <2>3, <2>4, <2>5, <2>6
<1>5. CASE EmitPipe(t)
  <2>1. call'[t].pc = "log" /\ call'[t].ev = call[t].ev /\ Frames
    BY <1>5, <1>b, GotoFields DEF EmitPipe
  <2>2. /\ call[t].pc = "pipe" /\ pipe' = Append(pipe, call[t].ev) /\ log' = log
        /\ Still /\ objects_' = objects_
    BY <1>5 DEF EmitPipe, runtimeVars, trackVars
  <2>3. "reuse" \notin seen' /\ call'[t].ev.kind = "Destroyed" => call'[t].ev.obj \in dead'
    BY <2>1, <2>2 DEF DeathInv, SendsDead
  <2>4. QED
    BY <1>a, <1>c, <1>d, <2>1, <2>2, <2>3, DeathStep
<1>6. CASE EmitLog(t)
  <2>1. call[t].next \in {"idle", "outer"}
    BY <1>b DEF Frame
  <2>2. call'[t].pc \in {"idle", "outer"} /\ Frames
    BY <1>6, <1>b, <2>1, GotoFields, ReturnFields DEF EmitLog
  <2>3. /\ call[t].pc = "log" /\ log' = Append(log, call[t].ev) /\ pipe' = pipe
        /\ Still /\ objects_' = objects_
    BY <1>6 DEF EmitLog, runtimeVars, trackVars
  <2>4. QED
    BY <1>a, <1>c, <1>d, <2>2, <2>3, DeathStep
<1>7. CASE \/ ReleaseLookup(t) \/ SetNameLookup(t) \/ SetPrivateDataLookup(t)
           \/ SetPrivateDataDispatch(t) \/ HookSetPrivateData(t)
  <2>1. Still /\ Sinks /\ objects_' = objects_
    BY <1>7 DEF ReleaseLookup, SetNameLookup, SetPrivateDataLookup, SetPrivateDataDispatch,
       HookSetPrivateData, RealSetPrivateData, runtimeVars, trackVars, sinkVars
  <2>2. Return(t) \/ \E p \in Calm : Goto(t, p)
    BY <1>7 DEF ReleaseLookup, SetNameLookup, SetPrivateDataLookup, SetPrivateDataDispatch,
       HookSetPrivateData, AfterSetPrivateData
  <2>3. call'[t].pc \in Calm /\ Frames
    BY <1>b, <2>2, GotoFields, ReturnFields
  <2>4. QED
    BY <1>e, <2>1, <2>3
<1>8. CASE ReleaseReal(t)
  <2>1. call[t].self \in Addr /\ t \in refs[call[t].self] /\ RealRelease(t, call[t].self)
    BY <1>8, <1>b DEF ReleaseReal, CallOK, Held, HeldPC, PC
  <2>2. Sinks /\ objects_' = objects_ /\ RuntimeStep(t)
    BY <1>8, <2>1 DEF ReleaseReal, RuntimeStep, trackVars, sinkVars
  <2>3. CASE refs[call[t].self] = {t} /\ Goto(t, "erase")
    <3>1. call'[t].pc = "erase" /\ call'[t].self = call[t].self /\ Frames
      BY <1>b, <2>3, GotoFields
    <3>2. serial'[call'[t].self] \in dead'
      BY <2>1, <2>3, <3>1 DEF RealRelease
    <3>3. QED
      BY <1>a, <1>c, <2>2, <3>1, <3>2, DeathStep
  <2>4. CASE Return(t)
    <3>1. call'[t].pc = "idle" /\ Frames
      BY <1>b, <2>4, ReturnFields
    <3>2. QED
      BY <1>a, <1>c, <2>2, <3>1, DeathStep
  <2>5. QED
    BY <1>8, <2>3, <2>4 DEF ReleaseReal
<1>9. CASE OnReleaseToZero(t)
  <2> DEFINE a == call[t].self
             r == objects_[a]
  <2>1. call[t].pc = "erase" /\ a \in Addr /\ Still /\ Sinks
    BY <1>9, <1>b DEF OnReleaseToZero, CallOK, runtimeVars, sinkVars
  <2>2. CASE Return(t) /\ UNCHANGED objects_
    BY <1>b, <1>e, <2>1, <2>2, ReturnFields
  <2>3. CASE /\ r.id # 0
             /\ objects_' = [objects_ EXCEPT ![a] = NoRecord]
             /\ Emit(t, DestroyedEvent(r), "idle")
    <3>1. DestroyedEvent(r).obj = r.obj
      BY DEF DestroyedEvent, NoEvent
    <3>2. call'[t].pc = "pipe" /\ call'[t].ev = DestroyedEvent(r) /\ Frames
      BY <1>b, <2>3, EmitFields
    <3>3. "reuse" \notin seen => r.obj \in dead
      BY <2>1, <2>3 DEF DeathInv, ErasesDead, RecordsNotAhead
    <3>4. \A b \in Addr : objects_'[b].id # 0 => objects_'[b] = objects_[b]
      BY <1>b, <2>1, <2>3 DEF TypeOK, NoRecord
    <3> HIDE DEF a, r
    <3>5. QED
      BY <1>a, <1>c, <1>d, <2>1, <3>1, <3>2, <3>3, <3>4, DeathStep
  <2>4. QED
    BY <1>9, <2>2, <2>3 DEF OnReleaseToZero
<1>10. CASE InnerOnSetName(t) \/ OuterOnSetName(t)
  <2>1. PICK done \in {"idle", "outer"} : OnSetName(t, done)
    BY <1>10 DEF InnerOnSetName, OuterOnSetName
  <2>2. Still /\ Sinks
    BY <2>1 DEF OnSetName, runtimeVars, sinkVars
  <2>3. call[t].self \in Addr
    BY <1>10, <1>b DEF InnerOnSetName, OuterOnSetName, CallOK
  <2>4. CASE (Return(t) \/ Goto(t, done)) /\ UNCHANGED objects_
    <3>1. call'[t].pc \in Calm /\ Frames
      BY <1>b, <2>4, GotoFields, ReturnFields
    <3>2. QED
      BY <1>e, <2>2, <2>4, <3>1
  <2>5. CASE /\ objects_' = [objects_ EXCEPT ![call[t].self].name = call[t].name]
             /\ Emit(t, RenamedEvent(objects_[call[t].self], call[t].name), done)
    <3>1. RenamedEvent(objects_[call[t].self], call[t].name).kind = "Renamed"
      BY DEF RenamedEvent, NoEvent
    <3>2. /\ call'[t].pc = "pipe" /\ Frames
          /\ call'[t].ev = RenamedEvent(objects_[call[t].self], call[t].name)
      BY <1>b, <2>5, EmitFields
    <3>3. \A a \in Addr : objects_'[a].id = objects_[a].id /\ objects_'[a].obj = objects_[a].obj
      BY <1>b, <2>3, <2>5 DEF TypeOK, Record
    <3>4. QED
      BY <1>g, <2>2, <3>1, <3>2, <3>3
  <2>6. QED
    BY <2>1, <2>4, <2>5 DEF OnSetName
<1>11. CASE ResidencyLookup(t)
  <2> DEFINE e == ResidencyEvent(call[t].self, objects_[call[t].self])
  <2>1. e.kind # "Destroyed"
    BY DEF ResidencyEvent, NoEvent
  <2>2. Still /\ Sinks /\ objects_' = objects_ /\ Emit(t, e, "idle")
    BY <1>11 DEF ResidencyLookup, runtimeVars, trackVars, sinkVars
  <2> HIDE DEF e
  <2>3. call'[t].pc = "pipe" /\ call'[t].ev = e /\ Frames
    BY <1>b, <2>2, EmitFields
  <2>4. QED
    BY <1>g, <2>1, <2>2, <2>3
<1>12. QED
  BY <1>1, <1>2, <1>3, <1>4, <1>5, <1>6, <1>7, <1>8, <1>9, <1>10, <1>11 DEF HookStep

LEMMA InitDeath == Init => DeathInv
<1> SUFFICES ASSUME Init PROVE DeathInv
  OBVIOUS
<1>1. \A t \in Thread : call[t].pc = "idle"
  BY DEF Init, Idle
<1>2. "idle" \notin RegisterPC \cup {"erase", "pipe", "log"}
  BY DEF RegisterPC, PatchPC
<1>3. \A a \in Addr : refs[a] = {} /\ serial[a] = 0 /\ objects_[a].id = 0
  BY DEF Init, NoRecord
<1>4. Len(pipe) = 0 /\ Len(log) = 0
  BY DEF Init
<1>5. DestroyedIsDeath
  BY <1>4 DEF DestroyedIsDeath, DestroyedOnlyWhenDead
<1>6. QED
  BY <1>1, <1>2, <1>3, <1>5
  DEF DeathInv, Lifetimes, RegistersItsObject, RecordsNotAhead, ErasesDead, SendsDead

LEMMA DeathInvStep == PatchInv /\ DeathInv /\ [Next]_vars => DeathInv'
<1>1. DeathInv /\ UNCHANGED vars => DeathInv'
  BY DEF DeathInv, Lifetimes, RegistersItsObject, RecordsNotAhead, ErasesDead,
     SendsDead, DestroyedIsDeath, DestroyedOnlyWhenDead,
     vars, runtimeVars, trackVars, sinkVars
<1>2. QED
  BY <1>1, AppStepDeath, HookStepDeath DEF Next

\* Unless the allocator reused an address inside Hook_Release, every destroyed
\* event on the pipe and in the log is about an object whose last reference
\* was released (OnReleaseToZero, EmitDestroyed).
THEOREM DestroyedAreDead == Spec => []DestroyedIsDeath
<1>1. Init => PatchInv /\ DeathInv
  BY InitPatch, InitDeath
<1>2. PatchInv /\ DeathInv /\ [Next]_vars => (PatchInv /\ DeathInv)'
  BY PatchStep, DeathInvStep
<1>3. DeathInv => DestroyedIsDeath
  BY DEF DeathInv
<1>4. QED
  BY <1>1, <1>2, <1>3, PTL DEF Spec
=============================================================================
