--------------------------- MODULE DeviceVTables ---------------------------
(***************************************************************************)
(* How the DLL gets between the application and its devices (Hooks.cpp).   *)
(* Two exports of d3d12.dll are hooked at attach; what comes out of them   *)
(* has its vtable patched: an SDK configuration's CreateDeviceFactory, a   *)
(* factory's CreateDevice, a device's Create* methods.  There is one       *)
(* original per method, for all objects of the class, and one list of the  *)
(* vtables already patched, of limited length, for all classes.            *)
(*                                                                         *)
(* A vtable slot holds the function of a vtable of the runtime, named by   *)
(* that vtable, or our hook.  What a device method goes on to do is        *)
(* module Tracker.                                                         *)
(***************************************************************************)
EXTENDS Integers, Sequences, FiniteSets, SequencesExt

CONSTANTS
  Thread,   \* threads of the application
  VTable,   \* vtables of the runtime
  Class,    \* the class of each: "config", "factory" or "device"
  Version,  \* the highest ID3D12DeviceN that a device answers to, -1 for none
  Limit,    \* capacity of VTableSet
  Hook,     \* one of our functions in a slot
  Null      \* nothing captured, or no vtable

Exports == {"D3D12CreateDevice", "D3D12GetInterface"}
\* Two device methods stand for all: one that every device has, one that needs
\* ID3D12Device4.
Method == {"CreateDeviceFactory", "CreateDevice",
           "CreateCommandQueue", "CreateCommittedResource1"}

ASSUME VTableConstants ==
  /\ Class \in [VTable -> {"config", "factory", "device"}]
  /\ Version \in [VTable -> {-1} \union Nat]
  /\ Limit \in Nat
  /\ Hook # Null /\ VTable \intersect {Hook, Null} = {}

VARIABLES
  exports,  \* exports with a trampoline
  slot,     \* slot[v][s]: what is in slot s of vtable v
  orig,     \* g_dev_originals, g_real_CreateDeviceFactory, g_real_FactoryCreateDevice
  patched,  \* g_patched_vtables
  held,     \* vtables of the objects that the application has
  call,     \* the hook that each thread is in
  seen,     \* history: vtables that a hook has looked at
  refused   \* history: slots that VirtualProtect refused to open

vars == <<exports, slot, orig, patched, held, call, seen, refused>>

Idle == [pc |-> "idle", vt |-> Null, s |-> "none", todo |-> <<>>]

\* The slots that PatchDeviceVTable or a factory hook goes through.
Slots(v) ==
  CASE Class[v] = "config"  -> <<"CreateDeviceFactory">>
    [] Class[v] = "factory" -> <<"CreateDevice">>
    [] Class[v] = "device"  ->
         IF Version[v] < 0 THEN <<>>
         ELSE IF Version[v] < 4 THEN <<"CreateCommandQueue">>
         ELSE <<"CreateCommandQueue", "CreateCommittedResource1">>

Of(classes) == {v \in VTable : Class[v] \in classes}

\* What a method returns; a device method's object is Tracker's.
Product(s) ==
  CASE s = "CreateDeviceFactory" -> Of({"factory"})
    [] s = "CreateDevice"        -> Of({"device"})
    [] OTHER                     -> {}

\* What an export returns.  D3D12GetInterface gives out configurations and
\* factories, under the interface that the caller asks for; the code knows one.
Interface == {"ID3D12SDKConfiguration1", "other"}

Answer(e, riid) ==
  IF e = "D3D12CreateDevice" THEN Of({"device"})
  ELSE IF riid = "ID3D12SDKConfiguration1" THEN Of({"config"})
  ELSE Of({"config", "factory"})

\* InstallExportHooks has run before any thread of the application; it may
\* have failed, or found a d3d12.dll without D3D12GetInterface.
Init ==
  /\ exports \in {{}, {"D3D12CreateDevice"}, Exports}
  /\ slot = [v \in VTable |-> [s \in Method |-> v]]
  /\ orig = [s \in Method |-> Null]
  /\ patched = {} /\ held = {} /\ seen = {} /\ refused = {}
  /\ call = [t \in Thread |-> Idle]

-----------------------------------------------------------------------------
\* The real function has returned an object to a hook.
Returned(t, w) ==
  /\ call' = [call EXCEPT ![t] = [Idle EXCEPT !.pc = "got", !.vt = w]]
  /\ seen' = seen \union {w}
  /\ UNCHANGED <<exports, slot, orig, patched, held, refused>>

\* The application gets an object that no hook has looked at.
Unseen(w) ==
  /\ held' = held \union {w}
  /\ UNCHANGED <<exports, slot, orig, patched, call, seen, refused>>

\* A hooked export looks at what the real one has returned: at any device, and
\* at a configuration asked for as ID3D12SDKConfiguration1.
Examined(e, riid) ==
  e \in exports /\ (e = "D3D12GetInterface" => riid = "ID3D12SDKConfiguration1")

CallExport(t, e) ==
  /\ call[t] = Idle
  /\ \E riid \in Interface : \E w \in Answer(e, riid) :
       IF Examined(e, riid) THEN Returned(t, w) ELSE Unseen(w)

\* The application calls a method of an object it has, through its vtable.
CallMethod(t, v, s) ==
  /\ call[t] = Idle
  /\ v \in held /\ s \in ToSet(Slots(v))
  /\ IF slot[v][s] = Hook
     THEN /\ call' = [call EXCEPT ![t] = [Idle EXCEPT !.pc = "hook", !.vt = v, !.s = s]]
          /\ UNCHANGED <<exports, slot, orig, patched, held, seen, refused>>
     ELSE \E w \in Product(s) : Unseen(w)

\* The hook calls what it finds under its method; that may fail.
Forward(t) ==
  /\ call[t].pc = "hook"
  /\ orig[call[t].s] \in VTable
  /\ \/ /\ call' = [call EXCEPT ![t] = Idle]
        /\ UNCHANGED <<exports, slot, orig, patched, held, seen, refused>>
     \/ \E w \in Product(call[t].s) : Returned(t, w)

\* Mutant: a full list is taken for one that has the vtable.
FullIsPatched(v) == v \in patched \/ Cardinality(patched) >= Limit

\* Mutant: the last place of the array is not used.
AddOneShort(v) == IF Cardinality(patched) < Limit - 1 THEN patched \union {v} ELSE patched

\* Mutant: the array has no end.
AddUnchecked(v) == patched \union {v}

IsPatched(v) == v \in patched

Add(v) == IF Cardinality(patched) < Limit THEN patched \union {v} ELSE patched

AlreadyPatched(t) ==
  /\ call[t].pc = "got"
  /\ LET v == call[t].vt
     IN  IF IsPatched(v)
         THEN /\ call' = [call EXCEPT ![t] = Idle]
              /\ held' = held \union {v}
              /\ UNCHANGED patched
         ELSE /\ call' = [call EXCEPT ![t].pc = "patch", ![t].todo = Slots(v)]
              /\ patched' = Add(v)
              /\ UNCHANGED held
  /\ UNCHANGED <<exports, slot, orig, seen, refused>>

\* Mutant: the slot is read after it is written.
CaptureLate(t) ==
  LET v == call[t].vt
      s == Head(call[t].todo)
  IN  /\ call[t].pc = "patch" /\ call[t].todo # <<>>
      /\ slot' = [slot EXCEPT ![v][s] = Hook]
      /\ orig' = [orig EXCEPT ![s] = slot'[v][s]]
      /\ call' = [call EXCEPT ![t].pc = "write"]
      /\ UNCHANGED <<exports, patched, held, seen, refused>>

\* PatchSlot: first what is there is captured ...
Capture(t) ==
  LET v == call[t].vt
      s == Head(call[t].todo)
  IN  /\ call[t].pc = "patch" /\ call[t].todo # <<>>
      /\ orig' = [orig EXCEPT ![s] = slot[v][s]]
      /\ call' = [call EXCEPT ![t].pc = "write"]
      /\ UNCHANGED <<exports, slot, patched, held, seen, refused>>

\* ... and then the slot is overwritten; from here on the hook is called.
Overwrite(t) ==
  LET v == call[t].vt
      s == Head(call[t].todo)
  IN  /\ call[t].pc = "write"
      /\ slot' = [slot EXCEPT ![v][s] = Hook]
      /\ call' = [call EXCEPT ![t].pc = "patch", ![t].todo = Tail(@)]
      /\ UNCHANGED <<exports, orig, patched, held, seen, refused>>

ProtectFails(t) ==
  LET v == call[t].vt
      s == Head(call[t].todo)
  IN  /\ call[t].pc = "patch" /\ call[t].todo # <<>>
      /\ call' = [call EXCEPT ![t].todo = Tail(@)]
      /\ refused' = refused \union {<<v, s>>}
      /\ UNCHANGED <<exports, slot, orig, patched, held, seen>>

PatchReturns(t) ==
  /\ call[t].pc = "patch" /\ call[t].todo = <<>>
  /\ call' = [call EXCEPT ![t] = Idle]
  /\ held' = held \union {call[t].vt}
  /\ UNCHANGED <<exports, slot, orig, patched, seen, refused>>

Next == \E t \in Thread :
  \/ \E e \in Exports : CallExport(t, e)
  \/ \E v \in VTable, s \in Method : CallMethod(t, v, s)
  \/ Forward(t)
  \/ AlreadyPatched(t)
  \/ Capture(t)
  \/ Overwrite(t)
  \/ ProtectFails(t)
  \/ PatchReturns(t)

Spec == Init /\ [][Next]_vars

-----------------------------------------------------------------------------
(* Properties.                                                             *)

Frame == [pc : {"idle", "hook", "got", "patch", "write"}, vt : VTable \union {Null},
          s : Method \union {"none"}, todo : Seq(Method)]

TypeOK ==
  /\ exports \subseteq Exports
  /\ slot \in [VTable -> [Method -> VTable \union {Hook}]]
  /\ orig \in [Method -> VTable \union {Hook, Null}]
  /\ patched \subseteq VTable /\ Cardinality(patched) <= Limit
  /\ held \subseteq VTable /\ seen \subseteq VTable
  /\ refused \subseteq VTable \X Method
  /\ call \in [Thread -> Frame]

\* No hook is ever captured as an original, whichever threads get and patch
\* whatever vtables at once, as long as the list has room for all of them: a
\* hook that found itself there would call itself for ever.
OriginalsAreReal == Cardinality(seen) <= Limit => \A s \in Method : orig[s] # Hook

\* A vtable is shared by all objects of its class (README.md:329-330).  Then a
\* thread in a hook finds the method that the vtable had, from the moment the
\* slot leads to the hook, also while another thread is still patching.
OneVTablePerClass ==
  Cardinality(seen) <= Limit /\ \A v, w \in seen : Class[v] = Class[w] => v = w
CallsReachOwnMethod ==
  OneVTablePerClass => \A t \in Thread : call[t].pc = "hook" => orig[call[t].s] = call[t].vt

\* What a hook has looked at ends with every slot hooked that its version has
\* and VirtualProtect opened, also beyond the limit of the list: whoever finds
\* it already patched relies on somebody who is at it.
Working(v) == \E t \in Thread : call[t].vt = v /\ call[t].pc \in {"got", "patch", "write"}
SeenAreHooked ==
  \A v \in seen : Working(v) \/
    \A s \in ToSet(Slots(v)) : slot[v][s] = Hook \/ <<v, s>> \in refused

=============================================================================
