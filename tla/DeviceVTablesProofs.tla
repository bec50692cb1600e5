------------------------ MODULE DeviceVTablesProofs ------------------------
(***************************************************************************)
(* Theorems about DeviceVTables, for any threads and vtables, any classes  *)
(* and versions, and a list of any length.                                 *)
(***************************************************************************)
EXTENDS DeviceVTables, FiniteSetTheorems, TLAPS

Steps(t) == call[t].todo
Patching(t) == call[t].pc \in {"patch", "write"}
Distinct(q) == \A i, j \in DOMAIN q : q[i] = q[j] => i = j

\* What is patched has been seen; whoever is past the real call has an object
\* that has been seen; and who captured a slot is still to overwrite it.
SeenInv ==
  /\ IsFiniteSet(seen)
  /\ patched \subseteq seen
  /\ \A t \in Thread :
       /\ call[t].pc \in {"got", "patch", "write"} => call[t].vt \in seen
       /\ call[t].pc = "hook" => call[t].vt \in VTable /\ call[t].s \in Method
       /\ call[t].pc = "write" => Steps(t) # <<>>

TypeInv == TypeOK /\ SeenInv

-----------------------------------------------------------------------------
(* The slots of a vtable *)

\* PatchDeviceVTable and the factory hooks go through different methods, each
\* once, and two vtables that have a method in common are of one class.
LEMMA SlotsOf ==
  ASSUME NEW v \in VTable
  PROVE  /\ Slots(v) \in Seq(Method)
         /\ Distinct(Slots(v))
         /\ \A w \in VTable, s \in Method :
              s \in ToSet(Slots(v)) /\ s \in ToSet(Slots(w)) => Class[v] = Class[w]
<1> DEFINE one == <<"CreateCommandQueue">>
           two == <<"CreateCommandQueue", "CreateCommittedResource1">>
<1>1. ASSUME NEW w \in VTable
      PROVE  \/ Class[w] = "config" /\ Slots(w) = <<"CreateDeviceFactory">>
             \/ Class[w] = "factory" /\ Slots(w) = <<"CreateDevice">>
             \/ Class[w] = "device" /\ Slots(w) \in {<<>>, one, two}
  BY VTableConstants DEF Slots
<1>2. /\ <<"CreateDeviceFactory">> \in Seq(Method) /\ <<"CreateDevice">> \in Seq(Method)
      /\ <<>> \in Seq(Method) /\ one \in Seq(Method) /\ two \in Seq(Method)
  BY DEF Method
<1>3. /\ Distinct(<<"CreateDeviceFactory">>) /\ Distinct(<<"CreateDevice">>)
      /\ Distinct(<<>>) /\ Distinct(one) /\ Distinct(two)
  BY DEF Distinct
<1>4. /\ ToSet(<<"CreateDeviceFactory">>) = {"CreateDeviceFactory"}
      /\ ToSet(<<"CreateDevice">>) = {"CreateDevice"}
      /\ ToSet(<<>>) = {} /\ ToSet(one) = {"CreateCommandQueue"}
      /\ ToSet(two) = {"CreateCommandQueue", "CreateCommittedResource1"}
  BY DEF ToSet
<1>5. Slots(v) \in Seq(Method) /\ Distinct(Slots(v))
  BY <1>1, <1>2, <1>3
<1>6. ASSUME NEW w \in VTable, NEW s \in Method,
             s \in ToSet(Slots(v)), s \in ToSet(Slots(w))
      PROVE  Class[v] = Class[w]
  <2>1. ASSUME NEW x \in VTable, s \in ToSet(Slots(x))
        PROVE  \/ Class[x] = "config" /\ s = "CreateDeviceFactory"
               \/ Class[x] = "factory" /\ s = "CreateDevice"
               \/ /\ Class[x] = "device"
                  /\ s \in {"CreateCommandQueue", "CreateCommittedResource1"}
    BY <1>1, <1>4, <2>1
  <2>2. QED
    BY <1>6, <2>1
<1>7. QED
  BY <1>5, <1>6

-----------------------------------------------------------------------------
(* Type correctness *)

\* Adding a vtable to the list respects its length, and remembers it whenever
\* there has been room for all that were seen.
LEMMA AddRespectsLimit ==
  ASSUME TypeInv, NEW v \in seen, v \notin patched
  PROVE  /\ Add(v) \subseteq seen
         /\ Cardinality(Add(v)) <= Limit
         /\ patched \subseteq Add(v)
         /\ Cardinality(seen) <= Limit => v \in Add(v)
<1>1. /\ IsFiniteSet(seen) /\ patched \in SUBSET seen
      /\ Cardinality(patched) <= Limit /\ Limit \in Nat
  BY VTableConstants DEF TypeInv, TypeOK, SeenInv
<1>2. /\ IsFiniteSet(patched) /\ Cardinality(patched) <= Cardinality(seen)
      /\ Cardinality(patched) # Cardinality(seen)
  BY <1>1, FS_Subset
<1>3. Cardinality(patched) \in Nat /\ Cardinality(seen) \in Nat
  BY <1>1, <1>2, FS_CardinalityType
<1>4. Cardinality(patched \union {v}) = Cardinality(patched) + 1
  BY <1>2, FS_AddElement
<1>5. QED
  BY <1>1, <1>2, <1>3, <1>4 DEF Add

\* Seeing one more vtable leaves the set finite and no smaller.
LEMMA SeenGrows ==
  ASSUME TypeInv, NEW w, seen' = seen \union {w}
  PROVE  /\ IsFiniteSet(seen')
         /\ Cardinality(seen') <= Limit => Cardinality(seen) <= Limit
<1>1. IsFiniteSet(seen) /\ Limit \in Nat
  BY VTableConstants DEF TypeInv, SeenInv
<1>2. IsFiniteSet(seen') /\ Cardinality(seen) <= Cardinality(seen')
  BY <1>1, FS_AddElement, FS_Subset
<1>3. Cardinality(seen) \in Nat /\ Cardinality(seen') \in Nat
  BY <1>1, <1>2, FS_CardinalityType
<1>4. QED
  BY <1>1, <1>2, <1>3

\* What methods and exports return are vtables.
LEMMA ProductType == ASSUME NEW e PROVE Product(e) \subseteq VTable
  BY DEF Product, Of

LEMMA AnswerType == ASSUME NEW e, NEW riid PROVE Answer(e, riid) \subseteq VTable
  BY DEF Answer, Of

\* The frames of a thread that is idle, in a hook, or back from the real call.
InHook(v, s) == [Idle EXCEPT !.pc = "hook", !.vt = v, !.s = s]
Got(w) == [Idle EXCEPT !.pc = "got", !.vt = w]
LEMMA FrameTypes ==
  /\ Idle \in Frame /\ Idle.pc = "idle"
  /\ \A v \in VTable, s \in Method :
       /\ InHook(v, s) \in Frame /\ InHook(v, s).pc = "hook"
       /\ InHook(v, s).vt = v /\ InHook(v, s).s = s
  /\ \A w \in VTable : Got(w) \in Frame /\ Got(w).pc = "got" /\ Got(w).vt = w
<1>1. <<>> \in Seq(Method)
  OBVIOUS
<1>2. Idle \in Frame /\ Idle.pc = "idle"
  BY <1>1 DEF Idle, Frame
<1>3. ASSUME NEW v \in VTable, NEW s \in Method
      PROVE  /\ InHook(v, s) \in Frame /\ InHook(v, s).pc = "hook"
             /\ InHook(v, s).vt = v /\ InHook(v, s).s = s
  BY <1>1 DEF Idle, Frame, InHook
<1>4. ASSUME NEW w \in VTable
      PROVE  Got(w) \in Frame /\ Got(w).pc = "got" /\ Got(w).vt = w
  BY <1>1 DEF Idle, Frame, Got
<1>5. QED
  BY <1>2, <1>3, <1>4

\* A step that changes the frame of one thread.
LEMMA FrameStep ==
  ASSUME TypeInv, NEW t \in Thread, NEW f \in Frame, call' = [call EXCEPT ![t] = f]
  PROVE  /\ call' \in [Thread -> Frame]
         /\ call'[t] = f
         /\ \A u \in Thread \ {t} : call'[u] = call[u]
  BY DEF TypeInv, TypeOK

LEMMA InitTypes == Init => TypeInv
<1> SUFFICES ASSUME Init PROVE TypeInv
  OBVIOUS
<1>1. Idle \in Frame
  BY DEF Idle, Frame
<1>2. IsFiniteSet(seen) /\ Cardinality(patched) = 0
  BY FS_EmptySet DEF Init
<1>3. TypeOK
  BY <1>1, <1>2, VTableConstants DEF Init, TypeOK, Exports
<1>4. SeenInv
  BY <1>2 DEF Init, SeenInv, Idle
<1>5. QED
  BY <1>3, <1>4 DEF TypeInv

LEMMA ReturnedTypes ==
  ASSUME TypeInv, NEW t \in Thread, NEW w \in VTable, Returned(t, w)
  PROVE  TypeInv'
<1>1. /\ call' \in [Thread -> Frame]
      /\ call'[t].pc = "got" /\ call'[t].vt = w
      /\ \A u \in Thread \ {t} : call'[u] = call[u]
  BY FrameTypes, FrameStep DEF Returned, Got
<1>2. IsFiniteSet(seen')
  BY SeenGrows DEF Returned
<1>3. TypeOK'
  BY <1>1 DEF Returned, TypeInv, TypeOK
<1>4. SeenInv'
  BY <1>1, <1>2 DEF Returned, TypeInv, SeenInv, Steps
<1>5. QED
  BY <1>3, <1>4 DEF TypeInv

LEMMA UnseenTypes ==
  ASSUME TypeInv, NEW w \in VTable, Unseen(w)
  PROVE  TypeInv'
  BY DEF Unseen, TypeInv, TypeOK, SeenInv, Steps

LEMMA StepTypes == TypeInv /\ [Next]_vars => TypeInv'
<1> SUFFICES ASSUME TypeInv, [Next]_vars PROVE TypeInv'
  OBVIOUS
<1> USE DEF Steps
<1>1. ASSUME NEW t \in Thread, NEW e \in Exports, CallExport(t, e) PROVE TypeInv'
  BY <1>1, AnswerType, ReturnedTypes, UnseenTypes DEF CallExport
<1>2. ASSUME NEW t \in Thread, NEW v \in VTable, NEW s \in Method, CallMethod(t, v, s)
      PROVE  TypeInv'
  <2>1. CASE slot[v][s] = Hook
    <3>1. /\ call' \in [Thread -> Frame]
          /\ call'[t].pc = "hook" /\ call'[t].vt = v /\ call'[t].s = s
          /\ \A u \in Thread \ {t} : call'[u] = call[u]
      <4>1. call' = [call EXCEPT ![t] = InHook(v, s)]
        BY <1>2, <2>1 DEF CallMethod, InHook
      <4>2. /\ InHook(v, s) \in Frame /\ InHook(v, s).pc = "hook"
            /\ InHook(v, s).vt = v /\ InHook(v, s).s = s
        BY FrameTypes
      <4>3. QED
        BY <4>1, <4>2, FrameStep
    <3>2. QED
      BY <1>2, <2>1, <3>1 DEF CallMethod, TypeInv, TypeOK, SeenInv
  <2>2. CASE slot[v][s] # Hook
    BY <1>2, <2>2, ProductType, UnseenTypes DEF CallMethod
  <2>3. QED
    BY <2>1, <2>2
<1>3. ASSUME NEW t \in Thread, Forward(t) PROVE TypeInv'
  <2>1. CASE call' = [call EXCEPT ![t] = Idle] /\ UNCHANGED <<exports, slot, orig, patched, held, seen, refused>>
    <3>1. /\ call' \in [Thread -> Frame] /\ call'[t].pc = "idle"
          /\ \A u \in Thread \ {t} : call'[u] = call[u]
      BY <1>3, <2>1, FrameTypes, FrameStep DEF Forward
    <3>2. QED
      BY <1>3, <2>1, <3>1 DEF Forward, TypeInv, TypeOK, SeenInv
  <2>2. CASE \E w \in Product(call[t].s) : Returned(t, w)
    BY <2>2, ProductType, ReturnedTypes
  <2>3. QED
    BY <1>3, <2>1, <2>2 DEF Forward
<1>4. ASSUME NEW t \in Thread, AlreadyPatched(t) PROVE TypeInv'
  <2>1. call[t].vt \in seen /\ call[t].vt \in VTable /\ call[t] \in Frame
    BY <1>4 DEF AlreadyPatched, TypeInv, TypeOK, SeenInv
  <2>2. CASE call[t].vt \in patched
    <3>1. /\ call' \in [Thread -> Frame] /\ call'[t].pc = "idle"
          /\ \A u \in Thread \ {t} : call'[u] = call[u]
      BY <1>4, <2>2, FrameTypes, FrameStep DEF AlreadyPatched, IsPatched
    <3>2. QED
      BY <1>4, <2>1, <2>2, <3>1 DEF AlreadyPatched, IsPatched, TypeInv, TypeOK, SeenInv
  <2>3. CASE call[t].vt \notin patched
    <3>1. call' = [call EXCEPT ![t] = [call[t] EXCEPT !.pc = "patch",
                                                     !.todo = Slots(call[t].vt)]]
      BY <1>4, <2>3 DEF AlreadyPatched, IsPatched, TypeInv, TypeOK, Frame
    <3>2. Slots(call[t].vt) \in Seq(Method)
      BY <2>1, SlotsOf
    <3>3. /\ call' \in [Thread -> Frame]
          /\ call'[t].pc = "patch" /\ call'[t].vt = call[t].vt
          /\ \A u \in Thread \ {t} : call'[u] = call[u]
      BY <2>1, <3>1, <3>2 DEF TypeInv, TypeOK, Frame
    <3>4. patched' \subseteq seen /\ Cardinality(patched') <= Limit
      BY <1>4, <2>1, <2>3, AddRespectsLimit DEF AlreadyPatched, IsPatched
    <3>5. QED
      BY <1>4, <2>1, <2>3, <3>3, <3>4
      DEF AlreadyPatched, IsPatched, TypeInv, TypeOK, SeenInv
  <2>4. QED
    BY <2>2, <2>3
<1>5. ASSUME NEW t \in Thread, Capture(t) PROVE TypeInv'
  <2>1. /\ call' \in [Thread -> Frame]
        /\ call'[t].pc = "write" /\ call'[t].vt = call[t].vt /\ Steps(t)' = Steps(t)
        /\ \A u \in Thread \ {t} : call'[u] = call[u]
    BY <1>5 DEF Capture, TypeInv, TypeOK, Frame
  <2>2. Head(Steps(t)) \in Method /\ call[t].vt \in VTable
    BY <1>5 DEF Capture, TypeInv, TypeOK, SeenInv, Frame
  <2>3. orig' \in [Method -> VTable \union {Hook, Null}]
    BY <1>5, <2>2 DEF Capture, TypeInv, TypeOK
  <2>4. QED
    BY <1>5, <2>1, <2>3 DEF Capture, TypeInv, TypeOK, SeenInv
<1>6. ASSUME NEW t \in Thread, Overwrite(t) PROVE TypeInv'
  <2>1. Head(Steps(t)) \in Method /\ call[t].vt \in VTable /\ Tail(Steps(t)) \in Seq(Method)
    BY <1>6 DEF Overwrite, TypeInv, TypeOK, SeenInv, Frame
  <2>2. /\ call' \in [Thread -> Frame]
        /\ call'[t].pc = "patch" /\ call'[t].vt = call[t].vt
        /\ \A u \in Thread \ {t} : call'[u] = call[u]
    BY <1>6, <2>1 DEF Overwrite, TypeInv, TypeOK, Frame
  <2>3. slot' \in [VTable -> [Method -> VTable \union {Hook}]]
    BY <1>6, <2>1 DEF Overwrite, TypeInv, TypeOK
  <2>4. QED
    BY <1>6, <2>2, <2>3 DEF Overwrite, TypeInv, TypeOK, SeenInv
<1>7. ASSUME NEW t \in Thread, ProtectFails(t) PROVE TypeInv'
  <2>1. Head(Steps(t)) \in Method /\ call[t].vt \in VTable /\ Tail(Steps(t)) \in Seq(Method)
    BY <1>7 DEF ProtectFails, TypeInv, TypeOK, SeenInv, Frame
  <2>2. /\ call' \in [Thread -> Frame]
        /\ call'[t].pc = "patch" /\ call'[t].vt = call[t].vt
        /\ \A u \in Thread \ {t} : call'[u] = call[u]
    BY <1>7, <2>1 DEF ProtectFails, TypeInv, TypeOK, Frame
  <2>3. QED
    BY <1>7, <2>1, <2>2 DEF ProtectFails, TypeInv, TypeOK, SeenInv
<1>8. ASSUME NEW t \in Thread, PatchReturns(t) PROVE TypeInv'
  <2>1. /\ call' \in [Thread -> Frame] /\ call'[t].pc = "idle"
        /\ \A u \in Thread \ {t} : call'[u] = call[u]
    BY <1>8, FrameTypes, FrameStep DEF PatchReturns
  <2>2. call[t].vt \in VTable
    BY <1>8 DEF PatchReturns, TypeInv, TypeOK, SeenInv
  <2>3. QED
    BY <1>8, <2>1, <2>2 DEF PatchReturns, TypeInv, TypeOK, SeenInv
<1>9. CASE UNCHANGED vars
  BY <1>9 DEF vars, TypeInv, TypeOK, SeenInv
<1>10. QED
  BY <1>1, <1>2, <1>3, <1>4, <1>5, <1>6, <1>7, <1>8, <1>9 DEF Next

\* Every variable keeps its type, and the list of patched vtables its length.
THEOREM TypeCorrect == Spec => []TypeOK
<1>1. TypeInv => TypeOK
  BY DEF TypeInv
<1>2. QED
  BY <1>1, InitTypes, StepTypes, PTL DEF Spec

-----------------------------------------------------------------------------
(* Originals *)

Room == Cardinality(seen) <= Limit

\* A slot holds the runtime's function or a hook; a hook only where it belongs,
\* in a vtable that has been seen; and whoever patches goes through those slots.
SlotInv ==
  /\ \A v \in VTable, s \in Method :
       /\ slot[v][s] \in {v, Hook}
       /\ slot[v][s] = Hook => v \in seen /\ s \in ToSet(Slots(v))
  /\ \A t \in Thread :
       /\ Patching(t) => \A i \in DOMAIN Steps(t) : Steps(t)[i] \in ToSet(Slots(call[t].vt))
       /\ call[t].pc = "hook" => slot[call[t].vt][call[t].s] = Hook

\* While there is room in the list: only a vtable in it is being patched or
\* has hooks, by one thread, which meets each slot once and unhooked.
PatchInv ==
  Room =>
    /\ \A t \in Thread : Patching(t) =>
         /\ call[t].vt \in patched
         /\ Distinct(Steps(t))
         /\ \A i \in DOMAIN Steps(t) : slot[call[t].vt][Steps(t)[i]] = call[t].vt
         /\ \A u \in Thread : Patching(u) /\ call[u].vt = call[t].vt => u = t
    /\ \A v \in VTable \ patched, s \in Method : slot[v][s] = v
    /\ \A s \in Method : orig[s] # Hook

\* With one vtable per class, what was captured for a hooked slot is its own.
OwnInv ==
  OneVTablePerClass =>
    /\ \A v \in VTable, s \in Method : slot[v][s] = Hook => orig[s] = v
    /\ \A t \in Thread : call[t].pc = "write" => orig[Head(Steps(t))] = call[t].vt

Inv == TypeInv /\ SlotInv /\ PatchInv /\ OwnInv

LEMMA InitInv == Init => Inv
<1> SUFFICES ASSUME Init PROVE Inv
  OBVIOUS
<1>1. TypeInv
  BY InitTypes
<1>2. \A v \in VTable : v # Hook /\ v # Null
  BY VTableConstants
<1>3. \A v \in VTable, s \in Method : slot[v][s] = v
  BY DEF Init
<1>4. \A t \in Thread : call[t].pc = "idle"
  BY DEF Init, Idle
<1>5. \A s \in Method : orig[s] # Hook
  BY VTableConstants DEF Init
<1>6. SlotInv /\ PatchInv /\ OwnInv
  BY <1>2, <1>3, <1>4, <1>5 DEF SlotInv, PatchInv, OwnInv, Patching
<1>7. QED
  BY <1>1, <1>6 DEF Inv

\* A step that patches nothing: the slots, the originals and the list stay, no
\* thread starts to patch, at most more has been seen, and a thread that
\* enters a hook came through a slot that leads to it.
LEMMA QuietStep ==
  ASSUME Inv, NEW t \in Thread,
         UNCHANGED <<slot, orig, patched>>,
         seen' = seen \/ \E w : seen' = seen \union {w},
         \A u \in Thread \ {t} : call'[u] = call[u],
         ~ Patching(t)',
         call'[t].pc = "hook" => slot[call'[t].vt][call'[t].s] = Hook
  PROVE  SlotInv' /\ PatchInv' /\ OwnInv'
<1>1. seen \subseteq seen' /\ (Room' => Room)
  BY SeenGrows DEF Room, Inv
<1>2. OneVTablePerClass' => OneVTablePerClass
  BY <1>1 DEF OneVTablePerClass, Room
<1>3. \A u \in Thread : Patching(u)' => u # t /\ Patching(u)
  BY DEF Patching
<1>4. \A u \in Thread : Patching(u)' => call'[u] = call[u] /\ Steps(u)' = Steps(u)
  BY <1>3 DEF Steps
<1>5. SlotInv'
  BY <1>1, <1>3, <1>4 DEF Inv, SlotInv
<1>6. PatchInv'
  BY <1>1, <1>3, <1>4 DEF Inv, PatchInv
<1>7. OwnInv'
  BY <1>2, <1>3, <1>4 DEF Inv, OwnInv, Patching
<1>8. QED
  BY <1>5, <1>6, <1>7

\* AlreadyPatched has room, so the vtable is in the list from now on; nobody
\* else is at it, since it was not in the list before.
LEMMA AlreadyPatchedStep ==
  ASSUME Inv, NEW t \in Thread, AlreadyPatched(t), call[t].vt \notin patched
  PROVE  SlotInv' /\ PatchInv' /\ OwnInv'
<1> DEFINE x == call[t].vt
<1>1. /\ x \in seen /\ x \in VTable /\ call[t] \in Frame
      /\ UNCHANGED <<slot, orig, seen>> /\ patched' = Add(x)
  BY DEF AlreadyPatched, IsPatched, Inv, TypeInv, TypeOK, SeenInv
<1>2. call' = [call EXCEPT ![t] = [call[t] EXCEPT !.pc = "patch", !.todo = Slots(x)]]
  BY DEF AlreadyPatched, IsPatched, Inv, TypeInv, TypeOK, Frame
<1>3. /\ call'[t].pc = "patch" /\ call'[t].vt = x /\ Steps(t)' = Slots(x)
      /\ \A u \in Thread \ {t} : call'[u] = call[u]
  BY <1>1, <1>2 DEF Inv, TypeInv, TypeOK, Frame, Steps
<1>4. \A u \in Thread \ {t} : (Patching(u)' <=> Patching(u)) /\ Steps(u)' = Steps(u)
  BY <1>3 DEF Patching, Steps
<1>5. patched \subseteq patched' /\ (Room => x \in patched')
  BY <1>1, AddRespectsLimit DEF Inv, Room
<1>6. Slots(x) \in Seq(Method) /\ Distinct(Slots(x))
  BY <1>1, SlotsOf
<1>7. \A i \in DOMAIN Slots(x) : Slots(x)[i] \in ToSet(Slots(x)) /\ Slots(x)[i] \in Method
  BY <1>6 DEF ToSet
<1>8. SlotInv'
  BY <1>1, <1>3, <1>4, <1>7 DEF Inv, SlotInv, Patching
<1>9. PatchInv'
  <2> SUFFICES ASSUME Room' PROVE
        /\ \A u \in Thread : Patching(u)' =>
             /\ call'[u].vt \in patched'
             /\ Distinct(Steps(u)')
             /\ \A i \in DOMAIN Steps(u)' : slot'[call'[u].vt][Steps(u)'[i]] = call'[u].vt
             /\ \A w \in Thread : Patching(w)' /\ call'[w].vt = call'[u].vt => w = u
        /\ \A v \in VTable \ patched', s \in Method : slot'[v][s] = v
        /\ \A s \in Method : orig'[s] # Hook
    BY DEF PatchInv, Distinct
  <2>1. Room
    BY <1>1 DEF Room
  <2>2. \A u \in Thread \ {t} : Patching(u) => call[u].vt # x
    BY <2>1 DEF Inv, PatchInv
  <2>3. \A i \in DOMAIN Slots(x) : slot[x][Slots(x)[i]] = x
    BY <1>1, <1>7, <2>1 DEF Inv, PatchInv
  <2>4. QED
    BY <1>1, <1>3, <1>4, <1>5, <1>6, <2>1, <2>2, <2>3 DEF Inv, PatchInv
<1>10. OwnInv'
  BY <1>1, <1>3, <1>4 DEF Inv, OwnInv, OneVTablePerClass
<1>11. QED
  BY <1>8, <1>9, <1>10

\* Facts about the sequence that a patching thread goes through.
LEMMA TodoFacts ==
  ASSUME Inv, NEW t \in Thread, Patching(t), Steps(t) # <<>>
  PROVE  /\ Steps(t) \in Seq(Method)
         /\ call[t].vt \in VTable /\ call[t].vt \in seen
         /\ Head(Steps(t)) \in Method
         /\ Head(Steps(t)) \in ToSet(Slots(call[t].vt))
         /\ Head(Steps(t)) = Steps(t)[1] /\ 1 \in DOMAIN Steps(t)
         /\ \A i \in DOMAIN Tail(Steps(t)) :
              /\ i + 1 \in DOMAIN Steps(t)
              /\ i \in Nat
              /\ Tail(Steps(t))[i] = Steps(t)[i + 1]
<1>1. Steps(t) \in Seq(Method) /\ call[t].vt \in VTable /\ call[t].vt \in seen
  BY DEF Inv, TypeInv, TypeOK, SeenInv, Patching, Frame, Steps
<1>2. Head(Steps(t)) = Steps(t)[1] /\ 1 \in DOMAIN Steps(t) /\ Head(Steps(t)) \in Method
  BY <1>1
<1>3. Head(Steps(t)) \in ToSet(Slots(call[t].vt))
  BY <1>2 DEF Inv, SlotInv
<1>4. \A i \in DOMAIN Tail(Steps(t)) :
        i + 1 \in DOMAIN Steps(t) /\ i \in Nat /\ Tail(Steps(t))[i] = Steps(t)[i + 1]
  BY <1>1
<1>5. QED
  BY <1>1, <1>2, <1>3, <1>4

\* The slot is not a hook yet, so what is captured is the vtable's own.
LEMMA CaptureStep ==
  ASSUME Inv, NEW t \in Thread, Capture(t)
  PROVE  SlotInv' /\ PatchInv' /\ OwnInv'
<1> DEFINE x == call[t].vt
           s == Head(Steps(t))
<1>1. /\ Patching(t) /\ Steps(t) # <<>> /\ UNCHANGED <<slot, patched, seen>>
      /\ orig' = [orig EXCEPT ![s] = slot[x][s]]
      /\ call' = [call EXCEPT ![t].pc = "write"]
  BY DEF Capture, Patching, Steps
<1>2. /\ call'[t].pc = "write" /\ call'[t].vt = x /\ Steps(t)' = Steps(t)
      /\ \A u \in Thread \ {t} : call'[u] = call[u]
  BY <1>1 DEF Inv, TypeInv, TypeOK, Frame, Steps
<1>3. \A u \in Thread : (Patching(u)' <=> Patching(u)) /\ Steps(u)' = Steps(u)
                        /\ call'[u].vt = call[u].vt
  BY <1>1, <1>2 DEF Patching, Steps
<1>4. /\ x \in VTable /\ x \in seen /\ s \in Method
      /\ s \in ToSet(Slots(x)) /\ s = Steps(t)[1] /\ 1 \in DOMAIN Steps(t)
  BY <1>1, TodoFacts
<1>5. Room => slot[x][s] = x /\ x # Hook
  BY <1>1, <1>4, VTableConstants DEF Inv, PatchInv
<1>6. /\ orig'[s] = slot[x][s]
      /\ \A r \in Method \ {s} : orig'[r] = orig[r]
  BY <1>1, <1>4 DEF Inv, TypeInv, TypeOK
<1>7. \A u \in Thread : call'[u].pc = "hook" => u # t /\ call'[u] = call[u]
  BY <1>2
<1>8. SlotInv'
  BY <1>1, <1>3, <1>7 DEF Inv, SlotInv
<1>9. PatchInv'
  BY <1>1, <1>3, <1>5, <1>6 DEF Inv, PatchInv, Room
<1>10. ASSUME OneVTablePerClass'
       PROVE  /\ \A v \in VTable, r \in Method : slot'[v][r] = Hook => orig'[r] = v
              /\ \A u \in Thread : call'[u].pc = "write" =>
                   orig'[Head(Steps(u)')] = call'[u].vt
  <2>1. OneVTablePerClass /\ Room
    BY <1>1, <1>10 DEF OneVTablePerClass, Room
  <2>2. orig'[s] = x
    BY <1>5, <1>6, <2>1
  <2>3. ASSUME NEW v \in VTable, v \in seen, s \in ToSet(Slots(v)) PROVE v = x
    BY <1>4, <2>1, <2>3, SlotsOf DEF OneVTablePerClass
  <2>4. ASSUME NEW v \in VTable, NEW r \in Method, slot'[v][r] = Hook
        PROVE  orig'[r] = v
    <3>1. v \in seen /\ r \in ToSet(Slots(v)) /\ orig[r] = v
      BY <1>1, <2>1, <2>4 DEF Inv, SlotInv, OwnInv
    <3>2. QED
      BY <1>6, <2>2, <2>3, <3>1
  <2>5. ASSUME NEW u \in Thread, call'[u].pc = "write"
        PROVE  orig'[Head(Steps(u)')] = call'[u].vt
    <3>1. CASE u = t
      BY <1>2, <2>2, <3>1
    <3>2. CASE u # t
      <4>1. call[u].pc = "write" /\ call'[u] = call[u] /\ Patching(u) /\ Steps(u) # <<>>
        BY <1>2, <2>5, <3>2 DEF Patching, Inv, TypeInv, SeenInv
      <4>2. /\ call[u].vt \in VTable /\ call[u].vt \in seen
            /\ Head(Steps(u)) \in Method /\ Head(Steps(u)) \in ToSet(Slots(call[u].vt))
        BY <4>1, TodoFacts
      <4>3. orig[Head(Steps(u))] = call[u].vt
        BY <2>1, <4>1 DEF Inv, OwnInv
      <4>4. QED
        BY <1>3, <1>6, <2>2, <2>3, <4>1, <4>2, <4>3
    <3>3. QED
      BY <3>1, <3>2
  <2>6. QED
    BY <2>4, <2>5
<1>11. QED
  BY <1>8, <1>9, <1>10 DEF OwnInv

\* The slots that are still to come differ from the one just done.
LEMMA TailDistinct ==
  ASSUME Inv, NEW t \in Thread, Patching(t), Steps(t) # <<>>, Distinct(Steps(t))
  PROVE  /\ Distinct(Tail(Steps(t)))
         /\ \A i \in DOMAIN Tail(Steps(t)) :
              Tail(Steps(t))[i] # Head(Steps(t)) /\ Tail(Steps(t))[i] \in Method
<1>1. \A i \in DOMAIN Tail(Steps(t)) :
        i \in Nat /\ i + 1 \in DOMAIN Steps(t) /\ Tail(Steps(t))[i] = Steps(t)[i + 1]
  BY TodoFacts
<1>2. Head(Steps(t)) = Steps(t)[1] /\ 1 \in DOMAIN Steps(t) /\ Steps(t) \in Seq(Method)
  BY TodoFacts
<1>3. ASSUME NEW i \in DOMAIN Tail(Steps(t)), NEW j \in DOMAIN Tail(Steps(t)),
             Tail(Steps(t))[i] = Tail(Steps(t))[j]
      PROVE  i = j
  <2>1. i + 1 = j + 1
    BY <1>1, <1>3 DEF Distinct
  <2>2. QED
    BY <1>1, <2>1
<1>4. ASSUME NEW i \in DOMAIN Tail(Steps(t))
      PROVE  Tail(Steps(t))[i] # Head(Steps(t)) /\ Tail(Steps(t))[i] \in Method
  <2>1. i \in Nat /\ i # 0 /\ i + 1 \in DOMAIN Steps(t) /\ Tail(Steps(t))[i] = Steps(t)[i + 1]
    BY <1>1, <1>2
  <2>2. i + 1 # 1
    BY <2>1
  <2>3. Steps(t)[i + 1] # Steps(t)[1]
    BY <1>2, <2>1, <2>2 DEF Distinct
  <2>4. QED
    BY <1>2, <2>1, <2>3
<1>5. QED
  BY <1>3, <1>4 DEF Distinct

\* A step after which t goes on with the rest of its slots, its first one
\* hooked or left alone.
LEMMA NextSlotStep ==
  ASSUME Inv, NEW t \in Thread, Patching(t), Steps(t) # <<>>,
         UNCHANGED <<orig, patched, seen>>,
         call'[t].pc = "patch", call'[t].vt = call[t].vt, Steps(t)' = Tail(Steps(t)),
         \A u \in Thread \ {t} : call'[u] = call[u],
         \A v \in VTable, s \in Method :
           \/ slot'[v][s] = slot[v][s]
           \/ /\ v = call[t].vt /\ s = Head(Steps(t)) /\ slot'[v][s] = Hook
              /\ call[t].pc = "write"
  PROVE  SlotInv' /\ PatchInv' /\ OwnInv'
<1> DEFINE x == call[t].vt
           h == Head(Steps(t))
<1>1. /\ x \in VTable /\ x \in seen /\ h \in Method /\ h \in ToSet(Slots(x))
      /\ \A i \in DOMAIN Tail(Steps(t)) :
           i + 1 \in DOMAIN Steps(t) /\ Tail(Steps(t))[i] = Steps(t)[i + 1]
  BY TodoFacts
<1>2. \A u \in Thread \ {t} : (Patching(u)' <=> Patching(u)) /\ Steps(u)' = Steps(u)
  BY DEF Patching, Steps
<1>3. SlotInv'
  <2>1. \A v \in VTable, s \in Method :
          /\ slot'[v][s] \in {v, Hook}
          /\ slot'[v][s] = Hook => v \in seen' /\ s \in ToSet(Slots(v))
    BY <1>1 DEF Inv, SlotInv
  <2>2. ASSUME NEW u \in Thread, Patching(u)', NEW i \in DOMAIN Steps(u)'
        PROVE  Steps(u)'[i] \in ToSet(Slots(call'[u].vt))
    BY <1>1, <1>2, <2>2 DEF Inv, SlotInv
  <2>3. ASSUME NEW u \in Thread, call'[u].pc = "hook"
        PROVE  slot'[call'[u].vt][call'[u].s] = Hook
    <3>1. call'[u] = call[u] /\ call[u].pc = "hook"
      BY <2>3
    <3>2. call[u].vt \in VTable /\ call[u].s \in Method
      BY <3>1 DEF Inv, TypeInv, SeenInv
    <3>3. QED
      BY <3>1, <3>2 DEF Inv, SlotInv
  <2>4. QED
    BY <2>1, <2>2, <2>3 DEF SlotInv
<1>4. ASSUME Room'
      PROVE  /\ \A u \in Thread : Patching(u)' =>
                  /\ call'[u].vt \in patched'
                  /\ Distinct(Steps(u)')
                  /\ \A i \in DOMAIN Steps(u)' :
                       slot'[call'[u].vt][Steps(u)'[i]] = call'[u].vt
                  /\ \A w \in Thread : Patching(w)' /\ call'[w].vt = call'[u].vt => w = u
             /\ \A v \in VTable \ patched', s \in Method : slot'[v][s] = v
             /\ \A s \in Method : orig'[s] # Hook
  <2>1. Room
    BY <1>4 DEF Room
  <2>2. /\ x \in patched /\ Distinct(Steps(t))
        /\ \A u \in Thread : Patching(u) /\ call[u].vt = x => u = t
        /\ \A i \in DOMAIN Steps(t) : slot[x][Steps(t)[i]] = x
    BY <2>1 DEF Inv, PatchInv
  <2>3. ASSUME NEW u \in Thread, Patching(u)'
        PROVE  /\ Patching(u) /\ call'[u].vt = call[u].vt /\ call'[u].vt \in patched'
               /\ Distinct(Steps(u)')
               /\ \A w \in Thread : Patching(w)' /\ call'[w].vt = call'[u].vt => w = u
    <3>1. \A w \in Thread : Patching(w)' => Patching(w) /\ call'[w].vt = call[w].vt
      BY <1>2
    <3>2. Distinct(Steps(u)')
      <4>1. CASE u = t
        <5>1. Distinct(Tail(Steps(t)))
          BY <2>2, TailDistinct
        <5>2. Steps(u)' = Tail(Steps(t))
          BY <4>1
        <5>3. QED
          BY <5>1, <5>2
      <4>2. CASE u # t
        <5>1. Distinct(Steps(u)) /\ Steps(u)' = Steps(u)
          BY <1>2, <2>1, <2>3, <3>1, <4>2 DEF Inv, PatchInv
        <5>2. QED
          BY <5>1
      <4>3. QED
        BY <4>1, <4>2
    <3>3. QED
      BY <2>1, <2>3, <3>1, <3>2 DEF Inv, PatchInv
  <2>4. ASSUME NEW u \in Thread, Patching(u)', NEW i \in DOMAIN Steps(u)'
        PROVE  slot'[call'[u].vt][Steps(u)'[i]] = call'[u].vt
    <3>1. CASE u = t
      <4>1. Tail(Steps(t))[i] # h /\ Tail(Steps(t))[i] \in Method
        BY <2>2, <2>4, <3>1, TailDistinct
      <4>2. slot[x][Tail(Steps(t))[i]] = x
        BY <1>1, <2>2, <2>4, <3>1
      <4>3. QED
        BY <1>1, <3>1, <4>1, <4>2
    <3>2. CASE u # t
      <4>1. call'[u] = call[u] /\ Patching(u) /\ Steps(u)' = Steps(u) /\ call[u].vt # x
        BY <1>2, <2>2, <2>4, <3>2
      <4>2. call[u].vt \in VTable /\ Steps(u)[i] \in Method
        BY <2>4, <4>1, TodoFacts
      <4>3. slot[call[u].vt][Steps(u)[i]] = call[u].vt
        BY <2>1, <2>4, <4>1 DEF Inv, PatchInv
      <4>4. QED
        BY <4>1, <4>2, <4>3
    <3>3. QED
      BY <3>1, <3>2
  <2>5. \A v \in VTable \ patched', s \in Method : slot'[v][s] = v
    BY <2>1, <2>2 DEF Inv, PatchInv
  <2>6. \A s \in Method : orig'[s] # Hook
    BY <2>1 DEF Inv, PatchInv
  <2>7. QED
    BY <2>3, <2>4, <2>5, <2>6
<1>5. ASSUME OneVTablePerClass'
      PROVE  /\ \A v \in VTable, s \in Method : slot'[v][s] = Hook => orig'[s] = v
             /\ \A u \in Thread : call'[u].pc = "write" =>
                  orig'[Head(Steps(u)')] = call'[u].vt
  <2>1. OneVTablePerClass
    BY <1>5 DEF OneVTablePerClass
  <2>2. \A u \in Thread : call'[u].pc = "write" => u # t /\ call'[u] = call[u]
    OBVIOUS
  <2>3. QED
    BY <1>2, <2>1, <2>2 DEF Inv, OwnInv
<1>6. QED
  BY <1>3, <1>4, <1>5 DEF PatchInv, OwnInv, Distinct

LEMMA StepInv == Inv /\ [Next]_vars => Inv'
<1> SUFFICES ASSUME Inv, [Next]_vars PROVE SlotInv' /\ PatchInv' /\ OwnInv'
  BY StepTypes DEF Inv
<1>1. ASSUME NEW t \in Thread, NEW w \in VTable, Returned(t, w)
      PROVE  SlotInv' /\ PatchInv' /\ OwnInv'
  <2>1. call'[t] = Got(w) /\ \A u \in Thread \ {t} : call'[u] = call[u]
    BY <1>1 DEF Returned, Got, Inv, TypeInv, TypeOK
  <2>2. ~ Patching(t)' /\ call'[t].pc # "hook"
    BY <2>1, FrameTypes DEF Patching
  <2>3. QED
    BY <1>1, <2>1, <2>2, QuietStep DEF Returned
<1>2. ASSUME NEW w, Unseen(w) PROVE SlotInv' /\ PatchInv' /\ OwnInv'
  BY <1>2 DEF Unseen, Inv, SlotInv, PatchInv, OwnInv, Room, OneVTablePerClass,
              Patching, Steps
<1>3. ASSUME NEW t \in Thread, call' = [call EXCEPT ![t] = Idle],
             UNCHANGED <<slot, orig, patched, seen>>
      PROVE  SlotInv' /\ PatchInv' /\ OwnInv'
  <2>1. call'[t] = Idle /\ \A u \in Thread \ {t} : call'[u] = call[u]
    BY <1>3, FrameTypes, FrameStep DEF Inv
  <2>2. ~ Patching(t)' /\ call'[t].pc # "hook"
    BY <2>1, FrameTypes DEF Patching
  <2>3. QED
    BY <1>3, <2>1, <2>2, QuietStep
<1>4. ASSUME NEW t \in Thread, NEW e \in Exports, CallExport(t, e)
      PROVE  SlotInv' /\ PatchInv' /\ OwnInv'
  BY <1>1, <1>2, <1>4, AnswerType DEF CallExport
<1>5. ASSUME NEW t \in Thread, NEW v \in VTable, NEW s \in Method, CallMethod(t, v, s)
      PROVE  SlotInv' /\ PatchInv' /\ OwnInv'
  <2>1. CASE slot[v][s] = Hook
    <3>1. /\ call' = [call EXCEPT ![t] = InHook(v, s)]
          /\ UNCHANGED <<slot, orig, patched, seen>>
      BY <1>5, <2>1 DEF CallMethod, InHook
    <3>2. /\ InHook(v, s) \in Frame /\ InHook(v, s).pc = "hook"
          /\ InHook(v, s).vt = v /\ InHook(v, s).s = s
      BY FrameTypes
    <3>3. call'[t] = InHook(v, s) /\ \A u \in Thread \ {t} : call'[u] = call[u]
      BY <3>1, <3>2, FrameStep DEF Inv
    <3>4. ~ Patching(t)'
      BY <3>2, <3>3 DEF Patching
    <3>5. QED
      BY <2>1, <3>1, <3>2, <3>3, <3>4, QuietStep
  <2>2. CASE slot[v][s] # Hook
    BY <1>2, <1>5, <2>2 DEF CallMethod
  <2>3. QED
    BY <2>1, <2>2
<1>6. ASSUME NEW t \in Thread, Forward(t) PROVE SlotInv' /\ PatchInv' /\ OwnInv'
  BY <1>1, <1>3, <1>6, ProductType DEF Forward
<1>7. ASSUME NEW t \in Thread, AlreadyPatched(t) PROVE SlotInv' /\ PatchInv' /\ OwnInv'
  BY <1>3, <1>7, AlreadyPatchedStep DEF AlreadyPatched, IsPatched
<1>8. ASSUME NEW t \in Thread, Overwrite(t) PROVE SlotInv' /\ PatchInv' /\ OwnInv'
  <2>1. /\ Patching(t) /\ Steps(t) # <<>> /\ call[t].pc = "write"
        /\ UNCHANGED <<orig, patched, seen>>
    BY <1>8 DEF Overwrite, Patching, Inv, TypeInv, SeenInv
  <2>2. /\ call'[t].pc = "patch" /\ call'[t].vt = call[t].vt /\ Steps(t)' = Tail(Steps(t))
        /\ \A u \in Thread \ {t} : call'[u] = call[u]
    BY <1>8 DEF Overwrite, Inv, TypeInv, TypeOK, Frame, Steps
  <2>3. slot' = [slot EXCEPT ![call[t].vt][Head(Steps(t))] = Hook]
    BY <1>8 DEF Overwrite, Steps
  <2>4. call[t].vt \in VTable /\ Head(Steps(t)) \in Method
    BY <2>1, TodoFacts
  <2>5. \A v \in VTable, s \in Method :
          \/ slot'[v][s] = slot[v][s]
          \/ v = call[t].vt /\ s = Head(Steps(t)) /\ slot'[v][s] = Hook
    BY <2>3, <2>4 DEF Inv, TypeInv, TypeOK
  <2>6. QED
    BY <2>1, <2>2, <2>5, NextSlotStep
<1>9. ASSUME NEW t \in Thread, ProtectFails(t) PROVE SlotInv' /\ PatchInv' /\ OwnInv'
  <2>1. Patching(t) /\ Steps(t) # <<>> /\ UNCHANGED <<slot, orig, patched, seen>>
    BY <1>9 DEF ProtectFails, Patching, Steps
  <2>2. /\ call'[t].pc = "patch" /\ call'[t].vt = call[t].vt /\ Steps(t)' = Tail(Steps(t))
        /\ \A u \in Thread \ {t} : call'[u] = call[u]
    BY <1>9 DEF ProtectFails, Inv, TypeInv, TypeOK, Frame, Steps
  <2>3. QED
    BY <2>1, <2>2, NextSlotStep
<1>10. ASSUME NEW t \in Thread, PatchReturns(t) PROVE SlotInv' /\ PatchInv' /\ OwnInv'
  BY <1>3, <1>10 DEF PatchReturns
<1>11. CASE UNCHANGED vars
  BY <1>11 DEF vars, Inv, SlotInv, PatchInv, OwnInv, Room, OneVTablePerClass,
               Patching, Steps
<1>12. QED
  BY <1>4, <1>5, <1>6, <1>7, <1>8, <1>9, <1>10, <1>11, CaptureStep DEF Next

-----------------------------------------------------------------------------
(* Theorems *)

\* A hook never captures a hook as its original while the list of patched
\* vtables has room for all that came out of hooked calls: no create method
\* of a device can end up calling itself.
THEOREM NoHookIsItsOriginal == Spec => []OriginalsAreReal
<1>1. Inv => OriginalsAreReal
  BY DEF Inv, PatchInv, Room, OriginalsAreReal
<1>2. QED
  BY <1>1, InitInv, StepInv, PTL DEF Spec

\* With one vtable per class, a thread that is in a hook finds the method its
\* object's vtable had, whatever other threads are creating or patching.
THEOREM HooksForwardToOwn == Spec => []CallsReachOwnMethod
<1>1. ASSUME Inv PROVE CallsReachOwnMethod
  <2>1. SUFFICES ASSUME OneVTablePerClass, NEW t \in Thread, call[t].pc = "hook"
                 PROVE  orig[call[t].s] = call[t].vt
    BY DEF CallsReachOwnMethod
  <2>2. call[t].vt \in VTable /\ call[t].s \in Method /\ slot[call[t].vt][call[t].s] = Hook
    BY <1>1, <2>1 DEF Inv, TypeInv, SeenInv, SlotInv
  <2>3. QED
    BY <1>1, <2>1, <2>2 DEF Inv, OwnInv
<1>2. QED
  BY <1>1, InitInv, StepInv, PTL DEF Spec

-----------------------------------------------------------------------------
(* Nothing that was seen is forgotten *)

\* The slot is hooked, or VirtualProtect refused to open it.
Done(v, s) == slot[v][s] = Hook \/ <<v, s>> \in refused

\* Thread t is going to do it: it has not looked into the list yet, and will
\* not find the vtable there, or the slot is still before it.
WillDo(t, v, s) ==
  /\ call[t].vt = v
  /\ \/ call[t].pc = "got" /\ v \notin patched
     \/ Patching(t) /\ s \in ToSet(Steps(t))

DoneInv ==
  \A v \in seen : \A s \in ToSet(Slots(v)) : Done(v, s) \/ \E t \in Thread : WillDo(t, v, s)

\* A slot that is done stays done.
LEMMA DoneStays ==
  ASSUME TypeInv, [Next]_vars, NEW v \in VTable, NEW s \in Method, Done(v, s)
  PROVE  Done(v, s)'
<1>1. ASSUME NEW t \in Thread, Overwrite(t)
      PROVE  slot[v][s] = Hook => slot'[v][s] = Hook
  BY <1>1 DEF Overwrite, TypeInv, TypeOK
<1>2. refused \subseteq refused' /\ (slot' = slot \/ \E t \in Thread : Overwrite(t))
  BY DEF Next, vars, CallExport, CallMethod, Returned, Unseen, Forward, AlreadyPatched, Capture,
     Overwrite, ProtectFails, PatchReturns
<1>3. QED
  BY <1>1, <1>2 DEF Done

\* Elements of a sequence: the first and those of the tail.
LEMMA InTail ==
  ASSUME NEW q \in Seq(Method), q # <<>>, NEW s \in ToSet(q), s # Head(q)
  PROVE  s \in ToSet(Tail(q))
<1>1. PICK i \in DOMAIN q : q[i] = s
  BY DEF ToSet
<1>2. i \in 1..Len(q) /\ i # 1
  BY <1>1
<1>3. i - 1 \in DOMAIN Tail(q) /\ Tail(q)[i - 1] = q[i]
  BY <1>2
<1>4. QED
  BY <1>1, <1>3 DEF ToSet

\* A thread that was going to hook a slot has done so, or still is going to.
LEMMA WillDoStep ==
  ASSUME TypeInv, [Next]_vars, NEW u \in Thread, NEW v \in seen, NEW s \in ToSet(Slots(v)),
         WillDo(u, v, s)
  PROVE  Done(v, s)' \/ \E t \in Thread : WillDo(t, v, s)'
<1> USE DEF TypeInv, TypeOK
<1>1. v \in VTable /\ Slots(v) \in Seq(Method) /\ s \in Method
  <2>1. v \in VTable /\ Slots(v) \in Seq(Method)
    BY SlotsOf
  <2>2. QED
    BY <2>1 DEF ToSet
<1>2. call[u] \in Frame /\ Steps(u) \in Seq(Method) /\ call[u].pc \in {"got", "patch", "write"}
  BY DEF WillDo, Patching, Steps, Frame
<1>3. CASE call'[u] = call[u] /\ (patched' = patched \/ Patching(u))
  BY <1>3 DEF WillDo, Patching, Steps
<1>4. ASSUME NEW t \in Thread,
             \/ \E e \in Exports : CallExport(t, e)
             \/ \E w \in VTable, m \in Method : CallMethod(t, w, m)
             \/ Forward(t)
      PROVE  call'[u] = call[u] /\ patched' = patched
  <2>1. call[t].pc \in {"idle", "hook"}
    <3>1. call[t] = Idle \/ call[t].pc = "hook"
      BY <1>4 DEF CallExport, CallMethod, Forward
    <3>2. QED
      BY <3>1 DEF Idle
  <2>2. u # t
    BY <1>2, <2>1
  <2>3. patched' = patched /\ (call' = call \/ \E f : call' = [call EXCEPT ![t] = f])
    BY <1>4, Zenon DEF CallExport, CallMethod, Forward, Returned, Unseen
  <2>4. QED
    BY <2>2, <2>3
<1>5. ASSUME NEW t \in Thread, AlreadyPatched(t)
      PROVE  \E r \in Thread : WillDo(r, v, s)'
  <2>1. CASE call[t].vt \in patched
    <3>1. patched' = patched /\ call' = [call EXCEPT ![t] = Idle] /\ call[t].pc = "got"
      BY <1>5, <2>1 DEF AlreadyPatched, IsPatched
    <3>2. u # t
      BY <2>1, <3>1 DEF WillDo, Patching
    <3>3. call'[u] = call[u]
      BY <3>1, <3>2
    <3>4. QED
      BY <3>1, <3>3 DEF WillDo, Patching, Steps
  <2>2. CASE call[t].vt \notin patched
    <3>1. /\ call[t].pc = "got" /\ call[t] \in Frame
          /\ call' = [call EXCEPT ![t] = [call[t] EXCEPT !.pc = "patch", !.todo = Slots(call[t].vt)]]
          /\ patched' = Add(call[t].vt)
      BY <1>5, <2>2 DEF AlreadyPatched, IsPatched, Frame
    <3>2. CASE call[t].vt = v
      <4>1. call'[t].pc = "patch" /\ call'[t].vt = v /\ call'[t].todo = Slots(v)
        BY <3>1, <3>2 DEF Frame
      <4>2. QED
        BY <4>1 DEF WillDo, Patching, Steps
    <3>3. CASE call[t].vt # v
      <4>1. call'[u] = call[u]
        BY <3>1, <3>3 DEF WillDo
      <4>2. v \in patched' => v \in patched
        BY <3>1, <3>3 DEF Add
      <4>3. QED
        BY <4>1, <4>2 DEF WillDo, Patching, Steps
    <3>4. QED
      BY <3>2, <3>3
  <2>3. QED
    BY <2>1, <2>2
<1>6. ASSUME NEW t \in Thread, Capture(t)
      PROVE  WillDo(u, v, s)'
  <2>1. CASE u # t
    <3>1. call'[u] = call[u] /\ patched' = patched
      BY <1>6, <2>1 DEF Capture
    <3>2. QED
      BY <3>1 DEF WillDo, Patching, Steps
  <2>2. CASE u = t
    <3>1. /\ call[u].pc = "patch" /\ call'[u].pc = "write" /\ call'[u].vt = call[u].vt
          /\ call'[u].todo = call[u].todo
      BY <1>2, <1>6, <2>2 DEF Capture, Frame
    <3>2. QED
      BY <3>1 DEF WillDo, Patching, Steps
  <2>3. QED
    BY <2>1, <2>2
<1>7. ASSUME NEW t \in Thread, Overwrite(t) \/ ProtectFails(t)
      PROVE  Done(v, s)' \/ WillDo(u, v, s)'
  <2>1. CASE u # t
    <3>1. call'[u] = call[u] /\ patched' = patched
      BY <1>7, <2>1 DEF Overwrite, ProtectFails
    <3>2. QED
      BY <3>1 DEF WillDo, Patching, Steps
  <2>2. CASE u = t
    <3>1. /\ Patching(u) /\ call[u].vt = v /\ s \in ToSet(Steps(u)) /\ Steps(u) # <<>>
          /\ call'[u].pc = "patch" /\ call'[u].vt = v /\ call'[u].todo = Tail(Steps(u))
      BY <1>2, <1>7, <2>2 DEF Overwrite, ProtectFails, WillDo, Patching, Steps, Frame, SeenInv
    <3>2. CASE s = Head(Steps(u))
      <4>1. CASE Overwrite(t)
        BY <1>1, <2>2, <3>1, <3>2, <4>1 DEF Overwrite, Steps, Done
      <4>2. CASE ProtectFails(t)
        BY <2>2, <3>1, <3>2, <4>2 DEF ProtectFails, Steps, Done
      <4>3. QED
        BY <1>7, <4>1, <4>2
    <3>3. CASE s # Head(Steps(u))
      <4>1. s \in ToSet(Tail(Steps(u)))
        BY <1>2, <3>1, <3>3, InTail
      <4>2. QED
        BY <3>1, <4>1 DEF WillDo, Patching, Steps
    <3>4. QED
      BY <3>2, <3>3
  <2>3. QED
    BY <2>1, <2>2
<1>8. ASSUME NEW t \in Thread, PatchReturns(t)
      PROVE  call'[u] = call[u] /\ patched' = patched
  <2>1. u # t
    <3>1. ToSet(<<>>) = {}
      BY DEF ToSet
    <3>2. QED
      BY <1>8, <3>1 DEF PatchReturns, WillDo, Steps
  <2>2. QED
    BY <1>8, <2>1 DEF PatchReturns
<1>9. CASE UNCHANGED vars
  BY <1>3, <1>9 DEF vars
<1>10. QED
  BY <1>3, <1>4, <1>5, <1>6, <1>7, <1>8, <1>9 DEF Next

LEMMA DoneStep == TypeInv /\ DoneInv /\ [Next]_vars => DoneInv'
<1> SUFFICES ASSUME TypeInv, DoneInv, [Next]_vars, NEW v \in seen', NEW s \in ToSet(Slots(v))
             PROVE  Done(v, s)' \/ \E t \in Thread : WillDo(t, v, s)'
  BY DEF DoneInv, Done, WillDo, Patching, Steps
<1>1. CASE v \in seen
  <2>1. v \in VTable /\ s \in Method
    <3>1. v \in VTable /\ Slots(v) \in Seq(Method)
      BY <1>1, SlotsOf DEF TypeInv, TypeOK
    <3>2. QED
      BY <3>1 DEF ToSet
  <2>2. QED
    BY <1>1, <2>1, DoneStays, WillDoStep DEF DoneInv
<1>2. CASE v \notin seen
  <2>1. PICK t \in Thread : Returned(t, v)
    BY <1>2 DEF Next, vars, CallExport, CallMethod, Returned, Unseen, Forward, AlreadyPatched,
       Capture, Overwrite, ProtectFails, PatchReturns
  <2>2. v \notin patched'
    BY <1>2, <2>1 DEF Returned, TypeInv, SeenInv
  <2>3. call'[t].pc = "got" /\ call'[t].vt = v
    BY <2>1 DEF Returned, Idle, TypeInv, TypeOK
  <2>4. QED
    BY <2>2, <2>3 DEF WillDo
<1>3. QED
  BY <1>1, <1>2

\* Whatever a hook has looked at ends with every slot hooked that its
\* version has and VirtualProtect opened, beyond the limit of the list too: a
\* thread that relies on a vtable being in the list has somebody at work on it.
THEOREM SeenGetHooked == Spec => []SeenAreHooked
<1>1. Init => DoneInv
  BY DEF Init, DoneInv
<1>2. TypeInv /\ DoneInv => SeenAreHooked
  <2> SUFFICES ASSUME TypeInv, DoneInv, NEW v \in seen, ~Working(v), NEW s \in ToSet(Slots(v))
               PROVE  Done(v, s)
    BY DEF SeenAreHooked, Done
  <2>1. \A t \in Thread : ~WillDo(t, v, s)
    BY DEF Working, WillDo, Patching
  <2>2. QED
    BY <2>1 DEF DoneInv
<1>3. QED
  BY <1>1, <1>2, InitTypes, StepTypes, DoneStep, PTL DEF Spec
=============================================================================
