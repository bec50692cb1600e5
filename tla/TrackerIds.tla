------------------------------ MODULE TrackerIds ------------------------------
(***************************************************************************)
(* Theorems about Tracker: on each sink an id is created at most once,     *)
(* destroyed at most once, and mentioned only in between; when no hook is  *)
(* running each sink has reported the deaths of the objects it reported,   *)
(* and their names; and no sink is told one name twice in a row.           *)
(*                                                                         *)
(* The first argument follows an id from fetch_add on.  The right to send  *)
(* its created event belongs to the thread that fetched it.  The right to  *)
(* send its destroyed event passes from that thread to the record under an *)
(* address, when Register inserts it, and from there to the thread that    *)
(* erases the record, in critical sections of mu_; it is never in two      *)
(* places.                                                                 *)
(*                                                                         *)
(* The second follows references.  A thread mentions the id of an object   *)
(* to which it has a reference, which nobody can be erasing then; and      *)
(* nobody else has a reference to an object while its created event is     *)
(* being sent.                                                             *)
(*                                                                         *)
(* The third follows objects.  Release of an object with a record is       *)
(* hooked, so that the record is found by whoever takes the last reference *)
(* away; from then on the destroyed event is due until it was sent.        *)
(*                                                                         *)
(* The fourth follows a name to the sinks.  The name in a record is the    *)
(* one that the readers of a sink have for its id, or a thread is about to *)
(* send it, and then it is new to them; only one thread names an object,   *)
(* so that a sink learns the names of an id in the order in which they     *)
(* went into the record.                                                   *)
(*                                                                         *)
(* The fifth follows it from the runtime to the record.  All three slots   *)
(* of a remembered vtable are hooked, so that a name set on an object with *)
(* a record comes to OnSetName, which puts it there.                       *)
(***************************************************************************)
EXTENDS TrackerProofs

-----------------------------------------------------------------------------
(* The inductive invariant *)

\* t has fetched an id, and has not sent its event to both sinks.
Carrying(t) == call[t].pc \in {"insert", "pipe", "log"}

Creating(t)   == Carrying(t) /\ call[t].ev.kind = "Created"
Destroying(t) == call[t].pc \in {"pipe", "log"} /\ call[t].ev.kind = "Destroyed"
Inserting(t)  == call[t].pc = "insert"

\* Sink s has an event of kind k about id d.
Sent(s, k, d) == Has(s, Len(s), k, d)

\* Every id comes from next_id_.
IdsIssued ==
  /\ next_id_ > 0
  /\ \A a \in Addr : objects_[a].id < next_id_
  /\ \A t \in Thread : Carrying(t) => call[t].ev.id < next_id_
  /\ \A t \in Thread : Inserting(t) \/ Destroying(t) => call[t].ev.id # 0
  /\ \A k, d : Sent(pipe, k, d) \/ Sent(log, k, d) => d < next_id_

\* The right to send created has one owner, and ends with its use.
OneCreator ==
  /\ \A t, u \in Thread :
       Creating(t) /\ Creating(u) /\ call[t].ev.id = call[u].ev.id => t = u
  /\ \A t \in Thread : Creating(t) =>
       /\ call[t].pc # "log" => ~Sent(pipe, "Created", call[t].ev.id)
       /\ ~Sent(log, "Created", call[t].ev.id)

\* The right to send destroyed has one owner: a record, a thread about to
\* insert the record, or a thread that has erased it.
OneDestroyer ==
  /\ \A a, b \in Addr :
       objects_[a].id # 0 /\ objects_[a].id = objects_[b].id => a = b
  /\ \A t \in Thread, a \in Addr :
       Inserting(t) \/ Destroying(t) => objects_[a].id # call[t].ev.id
  /\ \A t, u \in Thread :
       /\ Destroying(t) /\ (Destroying(u) \/ Inserting(u))
       /\ call[t].ev.id = call[u].ev.id
       => t = u

\* It ends with its use, too.
DestroyedNoMore ==
  /\ \A a \in Addr : objects_[a].id # 0 =>
       ~Sent(pipe, "Destroyed", objects_[a].id) /\ ~Sent(log, "Destroyed", objects_[a].id)
  /\ \A t \in Thread : Inserting(t) \/ Destroying(t) =>
       /\ call[t].pc # "log" => ~Sent(pipe, "Destroyed", call[t].ev.id)
       /\ ~Sent(log, "Destroyed", call[t].ev.id)

\* s has at most one created and one destroyed event of each id.
OneEach(s) ==
  \A i, j \in 1..Len(s) :
    /\ s[i].kind \in {"Created", "Destroyed"}
    /\ s[i].kind = s[j].kind
    /\ s[i].id = s[j].id
    => i = j

IdInv ==
  /\ IdsIssued /\ OneCreator /\ OneDestroyer /\ DestroyedNoMore
  /\ OneEach(pipe) /\ OneEach(log)

-----------------------------------------------------------------------------
(* Sinks *)

LEMMA AppendSent ==
  ASSUME NEW s \in Seq(Event), NEW e \in Event
  PROVE  \A k, d : Sent(Append(s, e), k, d) <=> Sent(s, k, d) \/ (e.kind = k /\ e.id = d)
<1> SUFFICES ASSUME NEW k, NEW d
             PROVE  Sent(Append(s, e), k, d) <=> Sent(s, k, d) \/ (e.kind = k /\ e.id = d)
  OBVIOUS
<1>1. /\ Len(Append(s, e)) = Len(s) + 1 /\ Len(s) \in Nat
      /\ Append(s, e)[Len(s) + 1] = e
      /\ \A i \in 1..Len(s) : Append(s, e)[i] = s[i]
  OBVIOUS
<1>2. Sent(s, k, d) => Sent(Append(s, e), k, d)
  BY <1>1 DEF Sent, Has
<1>3. e.kind = k /\ e.id = d => Sent(Append(s, e), k, d)
  BY <1>1 DEF Sent, Has
<1>4. Sent(Append(s, e), k, d) => Sent(s, k, d) \/ (e.kind = k /\ e.id = d)
  BY <1>1 DEF Sent, Has
<1>5. QED
  BY <1>2, <1>3, <1>4

LEMMA AppendOneEach ==
  ASSUME NEW s \in Seq(Event), NEW e \in Event, OneEach(s),
         e.kind \in {"Created", "Destroyed"} => ~Sent(s, e.kind, e.id)
  PROVE  OneEach(Append(s, e))
<1>1. /\ Len(Append(s, e)) = Len(s) + 1 /\ Len(s) \in Nat
      /\ Append(s, e)[Len(s) + 1] = e
      /\ \A i \in 1..Len(s) : Append(s, e)[i] = s[i]
  OBVIOUS
<1>2. QED
  BY <1>1 DEF OneEach, Sent, Has

-----------------------------------------------------------------------------
(* Steps *)

\* A step that issues no id, moves none into or out of the map and sends
\* nothing, after which t carries no created and no destroyed event.
LEMMA IdleIdStep ==
  ASSUME IdInv, NEW t \in Thread,
         \A u \in Thread \ {t} : call'[u] = call[u],
         \A a \in Addr : objects_'[a].id = objects_[a].id,
         UNCHANGED <<next_id_, pipe, log>>,
         ~Inserting(t)',
         Carrying(t)' => /\ call'[t].ev.kind \notin {"Created", "Destroyed"}
                         /\ call'[t].ev.id < next_id_
  PROVE  IdInv'
<1> USE DEF IdInv
<1>1. ~Creating(t)' /\ ~Destroying(t)' /\ ~Inserting(t)'
  BY DEF Creating, Destroying, Carrying
<1>2. \A u \in Thread \ {t} : /\ Carrying(u)' = Carrying(u) /\ Creating(u)' = Creating(u)
                              /\ Destroying(u)' = Destroying(u)
                              /\ Inserting(u)' = Inserting(u)
  BY DEF Carrying, Creating, Destroying, Inserting
<1>3. IdsIssued'
  BY <1>1, <1>2 DEF IdsIssued
<1>4. OneCreator'
  BY <1>1, <1>2 DEF OneCreator
<1>5. OneDestroyer'
  BY <1>1, <1>2 DEF OneDestroyer
<1>6. DestroyedNoMore'
  BY <1>1, <1>2 DEF DestroyedNoMore
<1>7. QED
  BY <1>3, <1>4, <1>5, <1>6

LEMMA AppStepIds ==
  ASSUME PatchInv, IdInv, NEW t \in Thread, AppStep(t)
  PROVE  IdInv'
<1>1. call \in [Thread -> Frame]
  BY DEF PatchInv, TypeInv, TypeOK
<1>2. UNCHANGED <<objects_, next_id_, pipe, log>>
  BY DEF AppStep, RuntimeCreate, HookCreate, HookCreateShared, ReleaseUnhooked,
     HookRelease, CallSetResidencyPriority, AddRef, CallSetName,
     CallSetPrivateData, trackVars, sinkVars
<1> DEFINE Starts == {"idle", "patch", "heapid", "relLookup", "residency", "nameLookup", "spdCall"}
<1>3. PICK f : Become(t, f) /\ f.pc \in Starts
  <2>1. ASSUME call[t] = Idle, call' = call
        PROVE  Become(t, Idle) /\ Idle.pc \in Starts
    BY <1>1, <2>1 DEF Become, Idle
  <2>2. ASSUME NEW a \in Addr, NEW v \in VTable, RuntimeCreate(t, a, v)
        PROVE  \E f : Become(t, f) /\ f.pc \in Starts
    BY <2>1, <2>2 DEF RuntimeCreate
  <2>3. ASSUME NEW a \in Addr, NEW v \in VTable, NEW h \in Addr \cup {NoAddr},
               HookCreate(t, a, v, h)
        PROVE  \E f : Become(t, f) /\ f.pc \in Starts
    <3> DEFINE p == IF h = NoAddr THEN "patch" ELSE "heapid"
               f == [Idle EXCEPT !.pc = p, !.self = a, !.heap = h,
                                 !.ev = CreatedEvent(a, born + 1)]
    <3>1. f.pc = p
      BY DEF Idle
    <3>2. Become(t, f)
      BY <2>3 DEF HookCreate
    <3> HIDE DEF f
    <3>3. QED
      BY <3>1, <3>2
  <2>4. ASSUME NEW a \in Addr, HookCreateShared(t, a)
        PROVE  \E f : Become(t, f) /\ f.pc \in Starts
    <3>1. [Idle EXCEPT !.pc = "patch", !.self = a, !.ev = CreatedEvent(a, serial[a])].pc = "patch"
      BY DEF Idle
    <3>2. QED
      BY <2>4, <3>1 DEF HookCreateShared
  <2>5. ASSUME NEW a \in Addr, NEW u \in Thread, ReleaseUnhooked(t, a) \/ AddRef(t, u, a)
        PROVE  \E f : Become(t, f) /\ f.pc \in Starts
    BY <2>1, <2>5 DEF ReleaseUnhooked, AddRef
  <2>6. ASSUME NEW a \in Addr, HookRelease(t, a) \/ CallSetResidencyPriority(t, a)
        PROVE  \E f : Become(t, f) /\ f.pc \in Starts
    <3>1. /\ [Idle EXCEPT !.pc = "relLookup", !.self = a].pc = "relLookup"
          /\ [Idle EXCEPT !.pc = "residency", !.self = a].pc = "residency"
      BY DEF Idle
    <3>2. QED
      BY <2>6, <3>1 DEF HookRelease, CallSetResidencyPriority
  <2>7. ASSUME NEW a \in Addr, NEW n \in AnyName, CallSetName(t, a, n)
        PROVE  \E f : Become(t, f) /\ f.pc \in Starts
    <3> DEFINE p == IF Hooked(a, "SetName") THEN "nameLookup" ELSE "spdCall"
               f == [Idle EXCEPT !.pc = p, !.self = a, !.name = n,
                                 !.outer = Hooked(a, "SetName")]
    <3>1. f.pc = p
      BY DEF Idle
    <3>2. Become(t, f)
      BY <2>7 DEF CallSetName
    <3> HIDE DEF f
    <3>3. QED
      BY <3>1, <3>2
  <2>8. ASSUME NEW a \in Addr, NEW n \in AnyName, CallSetPrivateData(t, a, n)
        PROVE  \E f : Become(t, f) /\ f.pc \in Starts
    <3>1. [Idle EXCEPT !.pc = "spdCall", !.self = a, !.name = n].pc = "spdCall"
      BY DEF Idle
    <3>2. QED
      BY <2>8, <3>1 DEF CallSetPrivateData
  <2>9. QED
    BY <2>2, <2>3, <2>4, <2>5, <2>6, <2>7, <2>8 DEF AppStep
<1>4. call'[t] = f /\ \A u \in Thread \ {t} : call'[u] = call[u]
  BY <1>1, <1>3 DEF Become
<1>5. ~Inserting(t)' /\ ~Carrying(t)'
  BY <1>3, <1>4 DEF Inserting, Carrying
<1>6. QED
  BY <1>2, <1>4, <1>5, IdleIdStep

LEMMA HookStepIds ==
  ASSUME PatchInv, DeathInv, IdInv, NEW t \in Thread, HookStep(t)
  PROVE  IdInv'
<1> DEFINE Frames == \A u \in Thread \ {t} : call'[u] = call[u]
           Ids == UNCHANGED <<next_id_, pipe, log>>
           id == call[t].ev.id
           kind == call[t].ev.kind
<1>a. /\ call \in [Thread -> Frame] /\ objects_ \in [Addr -> Record] /\ next_id_ \in Nat
      /\ pipe \in Seq(Event) /\ log \in Seq(Event)
      /\ \A u \in Thread : call[u].pc # "idle" => call[u].self \in Addr
  BY DEF PatchInv, TypeInv, TypeOK, CallOK
<1>b. call[t].ev \in Event /\ id \in Nat
  BY <1>a DEF Frame, Event
<1>c. Frames => \A u \in Thread \ {t} :
        /\ call'[u].pc = call[u].pc /\ call'[u].ev = call[u].ev
        /\ (Carrying(u)' <=> Carrying(u)) /\ (Creating(u)' <=> Creating(u))
        /\ (Destroying(u)' <=> Destroying(u)) /\ (Inserting(u)' <=> Inserting(u))
  BY DEF Carrying, Creating, Destroying, Inserting
\* Steps after which t carries nothing.
<1>d. ASSUME Ids, Frames, UNCHANGED objects_, call'[t].pc \notin {"insert", "pipe", "log"}
      PROVE  IdInv'
  BY <1>d, IdleIdStep DEF Inserting, Carrying
<1>1. CASE LookupHeapId(t)
  <2> DEFINE f == [call[t] EXCEPT
                    !.pc = "patch", !.ev = [@ EXCEPT !.ref = objects_[call[t].heap].id]]
  <2>1. f.pc = "patch"
    BY <1>a DEF Frame
  <2>2. Become(t, f)
    BY <1>1 DEF LookupHeapId
  <2> HIDE DEF f
  <2>3. call'[t] = f /\ Frames
    BY <2>2, <1>a DEF Become
  <2>4. QED
    BY <1>1, <1>d, <2>1, <2>3 DEF LookupHeapId, trackVars, sinkVars
<1>2. CASE \/ PatchVTableIfNew(t) \/ (\E s \in Slot : PatchSlot(t, s)) \/ Emplace(t)
           \/ ReleaseLookup(t) \/ ReleaseReal(t) \/ SetNameLookup(t)
           \/ SetPrivateDataDispatch(t) \/ SetPrivateDataLookup(t) \/ HookSetPrivateData(t)
  <2>1. Ids /\ UNCHANGED objects_
    BY <1>2 DEF PatchVTableIfNew, PatchSlot, Emplace, ReleaseLookup, ReleaseReal,
       SetNameLookup, SetPrivateDataDispatch, SetPrivateDataLookup,
       HookSetPrivateData, trackVars, sinkVars
  <2>2. Return(t) \/ \E p \in PC \ {"insert", "pipe", "log"} : Goto(t, p)
    BY <1>2 DEF PatchVTableIfNew, PatchSlot, AfterSlot, Slot, Emplace, ReleaseLookup, ReleaseReal,
       SetNameLookup, SetPrivateDataDispatch, SetPrivateDataLookup,
       HookSetPrivateData, AfterSetPrivateData, PC
  <2>3. Frames /\ call'[t].pc \notin {"insert", "pipe", "log"}
    BY <1>a, <2>2, GotoFields, ReturnFields
  <2>4. QED
    BY <1>d, <2>1, <2>3
<1>3. CASE FetchId(t)
  <2> DEFINE e == [call[t].ev EXCEPT !.id = next_id_]
             f == [call[t] EXCEPT !.pc = "insert", !.ev = e]
  <2>1. e.id = next_id_ /\ e.kind = kind
    BY <1>b DEF Event
  <2>2. f.pc = "insert" /\ f.ev = e
    BY <1>a DEF Frame
  <2>3. Become(t, f) /\ next_id_' = next_id_ + 1 /\ UNCHANGED <<objects_, pipe, log>>
    BY <1>3 DEF FetchId, sinkVars
  <2>4. kind = "Created"
    BY <1>3 DEF FetchId, RegisterPC, DeathInv, RegistersItsObject
  <2> HIDE DEF f, e
  <2>5. call'[t] = f /\ Frames
    BY <1>a, <2>3 DEF Become
  <2>6. /\ call'[t].ev.id = next_id_
        /\ Carrying(t)' /\ Creating(t)' /\ Inserting(t)' /\ ~Destroying(t)'
    BY <2>1, <2>2, <2>4, <2>5 DEF Carrying, Creating, Inserting, Destroying
  <2>7. \A u \in Thread \ {t} : Carrying(u) => call[u].ev.id # next_id_
    BY <1>a, <1>c DEF IdInv, IdsIssued
  <2>8. \A k : ~Sent(pipe, k, next_id_) /\ ~Sent(log, k, next_id_)
    BY <1>a DEF IdInv, IdsIssued
  <2>9. \A a \in Addr : objects_[a].id # next_id_
    BY <1>a DEF IdInv, IdsIssued
  <2>10. \A n \in Int : n < next_id_ => n < next_id_'
    BY <1>a, <2>3
  <2>11. /\ \A a \in Addr : objects_[a].id \in Int
         /\ \A u \in Thread : call[u].ev.id \in Int
    BY <1>a DEF Record, Frame, Event
  <2>12. IdsIssued'
    <3>1. ASSUME NEW s \in Seq(Event), NEW k, NEW d, Sent(s, k, d)
          PROVE  d \in Int
      <4>1. PICK j \in 1..Len(s) : s[j].id = d
        BY <3>1 DEF Sent, Has
      <4>2. s[j] \in Event
        OBVIOUS
      <4>3. QED
        BY <4>1, <4>2 DEF Event
    <3>2. next_id_' > 0 /\ next_id_ # 0 /\ next_id_ < next_id_'
      BY <1>a, <2>3 DEF IdInv, IdsIssued
    <3>3. QED
      BY <1>a, <1>c, <2>3, <2>5, <2>6, <2>10, <2>11, <3>1, <3>2 DEF IdInv, IdsIssued
  <2>13. OneCreator'
    BY <1>c, <2>3, <2>5, <2>6, <2>7, <2>8 DEF IdInv, OneCreator, Creating
  <2>14. OneDestroyer'
    BY <1>c, <2>3, <2>5, <2>6, <2>7, <2>9 DEF IdInv, OneDestroyer, Destroying, Carrying
  <2>15. DestroyedNoMore'
    BY <1>c, <2>3, <2>5, <2>6, <2>8 DEF IdInv, DestroyedNoMore
  <2>16. QED
    BY <2>3, <2>12, <2>13, <2>14, <2>15 DEF IdInv, OneEach
<1>4. CASE Insert(t)
  <2> DEFINE self == call[t].self
             r == [id |-> id, name |-> NoName, obj |-> call[t].ev.obj]
  <2>1. /\ call[t].pc = "insert" /\ Goto(t, "pipe") /\ self \in Addr /\ Ids
        /\ objects_' = [objects_ EXCEPT ![self] = r]
    BY <1>4, <1>a DEF Insert, sinkVars
  <2>2. kind = "Created"
    BY <2>1 DEF RegisterPC, DeathInv, RegistersItsObject
  <2>3. call'[t].pc = "pipe" /\ call'[t].ev = call[t].ev /\ Frames
    BY <1>a, <2>1, GotoFields
  <2>4. \A a \in Addr : objects_'[a].id = IF a = self THEN id ELSE objects_[a].id
    BY <1>a, <2>1
  <2>5. /\ Carrying(t) /\ Creating(t) /\ Inserting(t) /\ ~Destroying(t)
        /\ Carrying(t)' /\ Creating(t)' /\ ~Inserting(t)' /\ ~Destroying(t)'
    BY <2>1, <2>2, <2>3 DEF Carrying, Creating, Inserting, Destroying
  <2>6. IdsIssued'
    BY <1>c, <2>1, <2>3, <2>4, <2>5 DEF IdInv, IdsIssued
  <2>7. OneCreator'
    BY <1>c, <2>1, <2>3, <2>5 DEF IdInv, OneCreator
  <2>8. \A u \in Thread \ {t} : Inserting(u) => call[u].ev.id # id
    BY <2>5 DEF IdInv, OneCreator, OneDestroyer, Creating, Carrying, Inserting,
       DeathInv, RegistersItsObject, RegisterPC
  <2>9. \A u \in Thread \ {t} : Destroying(u) => call[u].ev.id # id
    BY <2>5 DEF IdInv, OneDestroyer
  <2>10. \A a \in Addr : objects_[a].id # id
    BY <2>5 DEF IdInv, OneDestroyer
  <2>11. OneDestroyer'
    BY <1>c, <2>3, <2>4, <2>5, <2>8, <2>9, <2>10 DEF IdInv, OneDestroyer
  <2>12. ~Sent(pipe, "Destroyed", id) /\ ~Sent(log, "Destroyed", id)
    BY <2>1, <2>5 DEF IdInv, DestroyedNoMore
  <2>13. DestroyedNoMore'
    BY <1>c, <2>1, <2>3, <2>4, <2>5, <2>12 DEF IdInv, DestroyedNoMore
  <2>14. QED
    BY <2>1, <2>6, <2>7, <2>11, <2>13 DEF IdInv, OneEach
<1>5. CASE EmitPipe(t)
  <2>1. /\ call[t].pc = "pipe" /\ Goto(t, "log") /\ pipe' = Append(pipe, call[t].ev)
        /\ UNCHANGED <<objects_, next_id_, log>>
    BY <1>5 DEF EmitPipe, trackVars
  <2>2. call'[t].pc = "log" /\ call'[t].ev = call[t].ev /\ Frames
    BY <1>a, <2>1, GotoFields
  <2>3. /\ Carrying(t) /\ Carrying(t)' /\ ~Inserting(t) /\ ~Inserting(t)'
        /\ (Creating(t)' <=> kind = "Created") /\ (Creating(t) <=> kind = "Created")
        /\ (Destroying(t)' <=> kind = "Destroyed") /\ (Destroying(t) <=> kind = "Destroyed")
    BY <2>1, <2>2 DEF Carrying, Creating, Inserting, Destroying
  <2>4. \A k, d : Sent(pipe', k, d) <=> Sent(pipe, k, d) \/ (kind = k /\ id = d)
    BY <1>a, <1>b, <2>1, AppendSent
  <2>5. IdsIssued'
    BY <1>c, <2>1, <2>2, <2>3, <2>4 DEF IdInv, IdsIssued
  <2>6. OneCreator'
    BY <1>c, <2>1, <2>2, <2>3, <2>4 DEF IdInv, OneCreator
  <2>7. OneDestroyer'
    BY <1>c, <2>1, <2>2, <2>3 DEF IdInv, OneDestroyer
  <2>8. DestroyedNoMore'
    BY <1>c, <2>1, <2>2, <2>3, <2>4 DEF IdInv, OneDestroyer, DestroyedNoMore
  <2>9. OneEach(pipe)'
    <3>1. kind \in {"Created", "Destroyed"} => ~Sent(pipe, kind, id)
      BY <2>1, <2>3 DEF IdInv, OneCreator, DestroyedNoMore
    <3>2. OneEach(Append(pipe, call[t].ev))
      BY <1>a, <1>b, <3>1, AppendOneEach DEF IdInv
    <3>3. QED
      BY <2>1, <3>2 DEF OneEach
  <2>10. QED
    BY <2>1, <2>5, <2>6, <2>7, <2>8, <2>9 DEF IdInv, OneEach
<1>6. CASE EmitLog(t)
  <2>1. /\ call[t].pc = "log" /\ log' = Append(log, call[t].ev)
        /\ UNCHANGED <<objects_, next_id_, pipe>>
    BY <1>6 DEF EmitLog, trackVars
  <2>2. call'[t].pc \in {"idle", "outer"} /\ Frames
    <3>1. call[t].next \in {"idle", "outer"}
      BY <1>a DEF Frame
    <3>2. QED
      BY <1>6, <1>a, <3>1, GotoFields, ReturnFields DEF EmitLog
  <2>3. /\ Carrying(t) /\ ~Carrying(t)' /\ ~Inserting(t)' /\ ~Creating(t)' /\ ~Destroying(t)'
        /\ (Creating(t) <=> kind = "Created") /\ (Destroying(t) <=> kind = "Destroyed")
    BY <2>1, <2>2 DEF Carrying, Creating, Inserting, Destroying
  <2>4. \A k, d : Sent(log', k, d) <=> Sent(log, k, d) \/ (kind = k /\ id = d)
    BY <1>a, <1>b, <2>1, AppendSent
  <2>5. IdsIssued'
    BY <1>c, <2>1, <2>2, <2>3, <2>4 DEF IdInv, IdsIssued
  <2>6. OneCreator'
    BY <1>c, <2>1, <2>2, <2>3, <2>4 DEF IdInv, OneCreator
  <2>7. OneDestroyer'
    BY <1>c, <2>1, <2>2, <2>3 DEF IdInv, OneDestroyer
  <2>8. DestroyedNoMore'
    BY <1>c, <2>1, <2>2, <2>3, <2>4 DEF IdInv, OneDestroyer, DestroyedNoMore
  <2>9. OneEach(log)'
    <3>1. kind \in {"Created", "Destroyed"} => ~Sent(log, kind, id)
      BY <2>1, <2>3 DEF IdInv, OneCreator, DestroyedNoMore
    <3>2. OneEach(Append(log, call[t].ev))
      BY <1>a, <1>b, <3>1, AppendOneEach DEF IdInv
    <3>3. QED
      BY <2>1, <3>2 DEF OneEach
  <2>10. QED
    BY <2>1, <2>5, <2>6, <2>7, <2>8, <2>9 DEF IdInv, OneEach
<1>7. CASE OnReleaseToZero(t)
  <2> DEFINE a == call[t].self
             r == objects_[a]
  <2>1. call[t].pc = "erase" /\ a \in Addr /\ Ids
    BY <1>7, <1>a DEF OnReleaseToZero, sinkVars
  <2>2. CASE Return(t) /\ UNCHANGED objects_
    BY <1>a, <1>d, <2>1, <2>2, ReturnFields
  <2>3. CASE /\ r.id # 0
             /\ objects_' = [objects_ EXCEPT ![a] = NoRecord]
             /\ Emit(t, DestroyedEvent(r), "idle")
    <3>1. DestroyedEvent(r).id = r.id /\ DestroyedEvent(r).kind = "Destroyed"
      BY DEF DestroyedEvent, NoEvent
    <3>2. call'[t].pc = "pipe" /\ call'[t].ev = DestroyedEvent(r) /\ Frames
      BY <1>a, <2>3, EmitFields
    <3>3. \A b \in Addr : objects_'[b].id = IF b = a THEN 0 ELSE objects_[b].id
      BY <1>a, <2>1, <2>3 DEF NoRecord
    <3>4. /\ Carrying(t)' /\ ~Creating(t)' /\ ~Inserting(t)' /\ Destroying(t)'
          /\ ~Carrying(t) /\ ~Creating(t) /\ ~Inserting(t) /\ ~Destroying(t)
          /\ call'[t].ev.id = r.id
      BY <2>1, <3>1, <3>2 DEF Carrying, Creating, Inserting, Destroying
    <3>5. \A b \in Addr \ {a} : objects_[b].id # r.id
      BY <2>1, <2>3 DEF IdInv, OneDestroyer
    <3>6. \A u \in Thread : Inserting(u) \/ Destroying(u) => call[u].ev.id # r.id
      BY <2>1 DEF IdInv, OneDestroyer
    <3>7. r.id < next_id_ /\ ~Sent(pipe, "Destroyed", r.id) /\ ~Sent(log, "Destroyed", r.id)
      BY <2>1, <2>3 DEF IdInv, IdsIssued, DestroyedNoMore
    <3>8. \A u \in Thread : Inserting(u) \/ Destroying(u) => call[u].ev.id # 0
      BY DEF IdInv, IdsIssued
    <3> HIDE DEF a, r
    <3>9. IdsIssued'
      BY <1>c, <2>1, <2>3, <3>2, <3>3, <3>4, <3>7 DEF IdInv, IdsIssued
    <3>10. OneCreator'
      BY <1>c, <2>1, <3>2, <3>4 DEF IdInv, OneCreator
    <3>11. OneDestroyer'
      BY <1>c, <2>3, <3>2, <3>3, <3>4, <3>5, <3>6, <3>8 DEF IdInv, OneDestroyer
    <3>12. DestroyedNoMore'
      BY <1>c, <2>1, <3>2, <3>3, <3>4, <3>7 DEF IdInv, DestroyedNoMore
    <3>13. QED
      BY <2>1, <3>9, <3>10, <3>11, <3>12 DEF IdInv, OneEach
  <2>4. QED
    BY <1>7, <2>2, <2>3 DEF OnReleaseToZero
<1>8. CASE InnerOnSetName(t) \/ OuterOnSetName(t)
  <2>1. PICK done \in {"idle", "outer"} : OnSetName(t, done)
    BY <1>8 DEF InnerOnSetName, OuterOnSetName
  <2>2. Ids /\ call[t].self \in Addr
    BY <1>8, <1>a DEF InnerOnSetName, OuterOnSetName, OnSetName, sinkVars
  <2>3. CASE (Return(t) \/ Goto(t, done)) /\ UNCHANGED objects_
    BY <1>a, <1>d, <2>2, <2>3, GotoFields, ReturnFields
  <2>4. CASE /\ objects_' = [objects_ EXCEPT ![call[t].self].name = call[t].name]
             /\ Emit(t, RenamedEvent(objects_[call[t].self], call[t].name), done)
    <3> DEFINE e == RenamedEvent(objects_[call[t].self], call[t].name)
    <3>1. e.kind = "Renamed" /\ e.id = objects_[call[t].self].id
      BY DEF RenamedEvent, NoEvent
    <3>2. call'[t].pc = "pipe" /\ call'[t].ev = e /\ Frames
      BY <1>a, <2>4, EmitFields
    <3>3. \A a \in Addr : objects_'[a].id = objects_[a].id
      BY <1>a, <2>2, <2>4 DEF Record
    <3>4. e.id < next_id_
      BY <2>2, <3>1 DEF IdInv, IdsIssued
    <3> HIDE DEF e
    <3>5. QED
      BY <2>2, <3>1, <3>2, <3>3, <3>4, IdleIdStep DEF Inserting, Carrying
  <2>5. QED
    BY <2>1, <2>3, <2>4 DEF OnSetName
<1>9. CASE ResidencyLookup(t)
  <2> DEFINE e == ResidencyEvent(call[t].self, objects_[call[t].self])
  <2>1. e.kind = "ResidencyPriority" /\ e.id = objects_[call[t].self].id
    BY DEF ResidencyEvent, NoEvent
  <2>2. Ids /\ UNCHANGED objects_ /\ Emit(t, e, "idle") /\ call[t].self \in Addr
    BY <1>9, <1>a DEF ResidencyLookup, trackVars, sinkVars
  <2>3. e.id < next_id_
    BY <2>1, <2>2 DEF IdInv, IdsIssued
  <2> HIDE DEF e
  <2>4. call'[t].pc = "pipe" /\ call'[t].ev = e /\ Frames
    BY <1>a, <2>2, EmitFields
  <2>5. QED
    BY <2>1, <2>2, <2>3, <2>4, IdleIdStep DEF Inserting, Carrying
<1>10. QED
  BY <1>1, <1>2, <1>3, <1>4, <1>5, <1>6, <1>7, <1>8, <1>9 DEF HookStep

LEMMA InitIds == Init => IdInv
<1> SUFFICES ASSUME Init PROVE IdInv
  OBVIOUS
<1>1. \A t \in Thread : call[t].pc = "idle"
  BY DEF Init, Idle
<1>2. \A t \in Thread : ~Carrying(t) /\ ~Creating(t) /\ ~Destroying(t) /\ ~Inserting(t)
  BY <1>1 DEF Carrying, Creating, Destroying, Inserting
<1>3. \A k, d : ~Sent(pipe, k, d) /\ ~Sent(log, k, d)
  BY DEF Init, Sent, Has
<1>4. next_id_ = 1 /\ \A a \in Addr : objects_[a].id = 0
  BY DEF Init, NoRecord
<1>5. OneEach(pipe) /\ OneEach(log)
  BY DEF Init, OneEach
<1>6. QED
  BY <1>2, <1>3, <1>4, <1>5
  DEF IdInv, IdsIssued, OneCreator, OneDestroyer, DestroyedNoMore

LEMMA IdInvStep == PatchInv /\ DeathInv /\ IdInv /\ [Next]_vars => IdInv'
<1>1. ASSUME IdInv, UNCHANGED vars
      PROVE  IdInv'
  <2>1. UNCHANGED <<next_id_, objects_, call, pipe, log>>
    BY <1>1 DEF vars, trackVars, sinkVars
  <2>2. \A t \in Thread :
          /\ (Carrying(t)' <=> Carrying(t)) /\ (Creating(t)' <=> Creating(t))
          /\ (Destroying(t)' <=> Destroying(t)) /\ (Inserting(t)' <=> Inserting(t))
    BY <2>1 DEF Carrying, Creating, Destroying, Inserting
  <2>3. \A k, d : (Sent(pipe, k, d)' <=> Sent(pipe, k, d)) /\ (Sent(log, k, d)' <=> Sent(log, k, d))
    BY <2>1 DEF Sent, Has
  <2>4. IdsIssued' /\ OneCreator' /\ OneDestroyer' /\ DestroyedNoMore'
    BY <1>1, <2>1, <2>2, <2>3
    DEF IdInv, IdsIssued, OneCreator, OneDestroyer, DestroyedNoMore
  <2>5. OneEach(pipe)' /\ OneEach(log)'
    BY <1>1, <2>1 DEF IdInv, OneEach
  <2>6. QED
    BY <2>4, <2>5 DEF IdInv
<1>2. QED
  BY <1>1, AppStepIds, HookStepIds DEF Next

\* Whatever threads race and whatever the allocator does, no sink is sent two
\* created or two destroyed events of one id (Register, OnReleaseToZero and
\* the emissions after them).
THEOREM BirthAndDeathOnce == Spec => []OneBirthOneDeath
<1> DEFINE Inv == PatchInv /\ DeathInv /\ IdInv
<1>1. Init => Inv
  BY InitPatch, InitDeath, InitIds
<1>2. Inv /\ [Next]_vars => Inv'
  BY PatchStep, DeathInvStep, IdInvStep
<1>3. Inv => OneBirthOneDeath
  BY DEF IdInv, OneEach, OneBirthOneDeath
<1>4. QED
  BY <1>1, <1>2, <1>3, PTL DEF Spec

-----------------------------------------------------------------------------
(* Events inside lifetimes: the inductive invariant *)

\* The premise of EventsInsideLifetime.
Orderly == seen \cap {"reuse", "shared"} = {}

\* t is in a Create* hook that has not yet sent created to both sinks.
Registering(t) ==
  \/ call[t].pc \in RegisterPC
  \/ call[t].pc \in {"pipe", "log"} /\ call[t].ev.kind = "Created"

\* t sends a renamed or residency event.
Telling(t) ==
  call[t].pc \in {"pipe", "log"} /\ call[t].ev.kind \notin {"Created", "Destroyed"}

\* t is in a call on an object that its reference keeps alive.
Uses(t) == call[t].pc \notin {"idle", "erase"} /\ ~Destroying(t)

\* What a call relies on: t's references to its object and to the parent heap
\* and, while Orderly, that nobody else has one to an object t registers or has
\* released, and that an id t is about to mention is under the address it came from.
FrameOK(t) ==
  /\ Uses(t) => t \in refs[call[t].self]
  /\ call[t].heap # NoAddr =>
       Registering(t) /\ t \in refs[call[t].heap] /\ call[t].heap # call[t].self
  /\ Registering(t) \/ Destroying(t) => call[t].next = "idle"
  /\ Orderly =>
       /\ Registering(t) => refs[call[t].self] = {t}
       /\ Registering(t) /\ call[t].ev.ref # 0 =>
            call[t].heap # NoAddr /\ objects_[call[t].heap].id = call[t].ev.ref
       /\ call[t].pc = "erase" => refs[call[t].self] = {}
       /\ Telling(t) /\ call[t].ev.id # 0 =>
            objects_[call[t].self].id = call[t].ev.id
       /\ Destroying(t) => /\ Sent(pipe, "Created", call[t].ev.id)
                           /\ Sent(log, "Created", call[t].ev.id)

\* t is sending the created event of the record at a.
Announcing(t, a) ==
  /\ call[t].pc \in {"pipe", "log"} /\ call[t].ev.kind = "Created"
  /\ call[t].self = a /\ call[t].ev.id = objects_[a].id
  /\ call[t].pc = "log" => Sent(pipe, "Created", objects_[a].id)

\* The id of a record has been created on both sinks, or a thread is about it.
RecordsAnnounced ==
  \A a \in Addr : objects_[a].id # 0 =>
    \/ Sent(pipe, "Created", objects_[a].id) /\ Sent(log, "Created", objects_[a].id)
    \/ \E t \in Thread : Announcing(t, a)

\* EventsInsideLifetime of one sink.
Inside(s) ==
  \A i \in 1..Len(s) : \A d \in Mentioned(s[i]) :
    Has(s, i - 1, "Created", d) /\ ~Has(s, i - 1, "Destroyed", d)

LifeInv ==
  /\ \A t \in Thread : FrameOK(t)
  /\ RecordsAnnounced
  /\ Orderly => Inside(pipe) /\ Inside(log)

-----------------------------------------------------------------------------
(* Sinks and references *)

\* One more event inside the lifetimes of the ids it mentions.
LEMMA AppendInside ==
  ASSUME NEW s \in Seq(Event), NEW e \in Event, Inside(s),
         \A d \in Mentioned(e) : Sent(s, "Created", d) /\ ~Sent(s, "Destroyed", d)
  PROVE  Inside(Append(s, e))
<1> DEFINE r == Append(s, e)
<1>1. /\ Len(r) = Len(s) + 1 /\ Len(s) \in Nat
      /\ r[Len(s) + 1] = e
      /\ \A i \in 1..Len(s) : r[i] = s[i]
  OBVIOUS
<1> HIDE DEF r
<1>2. ASSUME NEW n \in 0..Len(s)
      PROVE  \A k, d : Has(r, n, k, d) <=> Has(s, n, k, d)
  <2>1. 1..n \subseteq 1..Len(s)
    BY <1>1
  <2>2. QED
    BY <1>1, <2>1 DEF Has
<1>3. ASSUME NEW i \in 1..Len(r), NEW d \in Mentioned(r[i])
      PROVE  Has(r, i - 1, "Created", d) /\ ~Has(r, i - 1, "Destroyed", d)
  <2>1. CASE i \in 1..Len(s)
    <3>1. i - 1 \in 0..Len(s) /\ r[i] = s[i]
      BY <1>1, <2>1
    <3>2. Has(s, i - 1, "Created", d) /\ ~Has(s, i - 1, "Destroyed", d)
      BY <1>3, <2>1, <3>1 DEF Inside
    <3>3. QED
      BY <1>2, <3>1, <3>2
  <2>2. CASE i = Len(s) + 1
    <3>1. i - 1 = Len(s) /\ Len(s) \in 0..Len(s) /\ r[i] = e
      BY <1>1, <2>2
    <3>2. Has(s, Len(s), "Created", d) /\ ~Has(s, Len(s), "Destroyed", d)
      BY <1>3, <3>1 DEF Sent
    <3>3. QED
      BY <1>2, <3>1, <3>2
  <2>3. QED
    BY <1>1, <1>3, <2>1, <2>2
<1>4. QED
  BY <1>3 DEF Inside, r

\* What a step of t may do to the references to an object: allocate it, give up
\* or hand on t's own reference, or return it from Create* once more.
RefStep(t) ==
  /\ seen \subseteq seen'
  /\ \A a \in Addr :
       \/ refs'[a] = refs[a]
       \/ refs[a] = {} /\ (InReleaseWindow(a) => "reuse" \in seen')
       \/ t \in refs[a] /\ refs[a] \ {t} \subseteq refs'[a]
       \/ "shared" \in seen' /\ refs[a] \subseteq refs'[a]

\* A step of t leaves what other calls rely on, if it changes the id under an
\* address to which no other thread has a reference.
LEMMA OthersFrameOK ==
  ASSUME TypeInv, NEW t \in Thread, RefStep(t),
         \A u \in Thread : FrameOK(u),
         \A u \in Thread \ {t} : call'[u] = call[u],
         \A k, d : /\ Sent(pipe, k, d) => Sent(pipe, k, d)'
                   /\ Sent(log, k, d) => Sent(log, k, d)',
         \A a \in Addr : \/ objects_'[a].id = objects_[a].id
                         \/ Orderly => refs[a] \subseteq {t}
  PROVE  \A u \in Thread \ {t} : FrameOK(u)'
<1> SUFFICES ASSUME NEW u \in Thread \ {t}
             PROVE  FrameOK(u)'
  OBVIOUS
<1>1. /\ call'[u] = call[u] /\ FrameOK(u)
      /\ (Registering(u)' <=> Registering(u)) /\ (Destroying(u)' <=> Destroying(u))
      /\ (Telling(u)' <=> Telling(u)) /\ (Uses(u)' <=> Uses(u))
  BY DEF Registering, Destroying, Telling, Uses
<1>2. Orderly' => Orderly /\ "reuse" \notin seen' /\ "shared" \notin seen'
  BY DEF Orderly, RefStep
<1>3. /\ call[u].pc # "idle" => call[u].self \in Addr
      /\ call[u].heap # NoAddr => call[u].heap \in Addr
      /\ refs \in [Addr -> SUBSET Thread]
  BY DEF TypeInv, TypeOK, CallOK, Frame
<1>4. Registering(u) \/ Telling(u) => Uses(u) /\ call[u].pc # "idle"
  BY SMT DEF Registering, Telling, Uses, Destroying, RegisterPC, PatchPC
<1>6. \A a \in Addr : u \in refs[a] => u \in refs'[a]
  BY DEF RefStep
<1>7. \A a \in Addr : Orderly /\ u \in refs[a] => objects_'[a].id = objects_[a].id
  OBVIOUS
<1>8. Uses(u) => u \in refs'[call[u].self]
  BY <1>1, <1>3, <1>6 DEF FrameOK, Uses
<1>9. call[u].heap # NoAddr =>
        Registering(u) /\ u \in refs'[call[u].heap] /\ call[u].heap # call[u].self
  BY <1>1, <1>3, <1>6 DEF FrameOK
<1>10. Orderly' /\ Registering(u) => refs'[call[u].self] = {u}
  <2> SUFFICES ASSUME Orderly', Registering(u)
               PROVE  refs'[call[u].self] = {u}
    OBVIOUS
  <2>1. refs[call[u].self] = {u} /\ call[u].self \in Addr
    BY <1>1, <1>2, <1>3, <1>4 DEF FrameOK
  <2>2. refs'[call[u].self] = refs[call[u].self]
    BY <1>2, <2>1 DEF RefStep
  <2>3. QED
    BY <2>1, <2>2
<1>11. Orderly' /\ call[u].pc = "erase" => refs'[call[u].self] = {}
  <2> SUFFICES ASSUME Orderly', call[u].pc = "erase"
               PROVE  refs'[call[u].self] = {}
    OBVIOUS
  <2>1. refs[call[u].self] = {} /\ call[u].self \in Addr
    BY <1>1, <1>2, <1>3 DEF FrameOK
  <2>2. InReleaseWindow(call[u].self)
    BY DEF InReleaseWindow
  <2>3. refs'[call[u].self] = refs[call[u].self]
    BY <1>2, <2>1, <2>2 DEF RefStep
  <2>4. QED
    BY <2>1, <2>3
<1>12. Orderly' /\ Registering(u) /\ call[u].ev.ref # 0 =>
         call[u].heap # NoAddr /\ objects_'[call[u].heap].id = call[u].ev.ref
  <2> SUFFICES ASSUME Orderly', Registering(u), call[u].ev.ref # 0
               PROVE  call[u].heap # NoAddr /\ objects_'[call[u].heap].id = call[u].ev.ref
    OBVIOUS
  <2>1. call[u].heap # NoAddr /\ objects_[call[u].heap].id = call[u].ev.ref
    BY <1>1, <1>2 DEF FrameOK
  <2>2. u \in refs[call[u].heap]
    BY <1>1, <2>1 DEF FrameOK
  <2>3. QED
    BY <1>2, <1>3, <1>7, <2>1, <2>2
<1>13. Orderly' /\ Telling(u) /\ call[u].ev.id # 0 =>
         objects_'[call[u].self].id = call[u].ev.id
  <2> SUFFICES ASSUME Orderly', Telling(u), call[u].ev.id # 0
               PROVE  objects_'[call[u].self].id = call[u].ev.id
    OBVIOUS
  <2>1. objects_[call[u].self].id = call[u].ev.id
    BY <1>1, <1>2 DEF FrameOK
  <2>2. u \in refs[call[u].self] /\ call[u].self \in Addr
    BY <1>1, <1>3, <1>4 DEF FrameOK
  <2>3. QED
    BY <1>2, <1>7, <2>1, <2>2
<1>14. Orderly' /\ Destroying(u) =>
         Sent(pipe, "Created", call[u].ev.id)' /\ Sent(log, "Created", call[u].ev.id)'
  <2> SUFFICES ASSUME Orderly', Destroying(u)
               PROVE  Sent(pipe', "Created", call[u].ev.id) /\ Sent(log', "Created", call[u].ev.id)
    BY <1>1
  <2>1. Sent(pipe, "Created", call[u].ev.id) /\ Sent(log, "Created", call[u].ev.id)
    BY <1>1, <1>2 DEF FrameOK
  <2>2. QED
    BY <2>1
<1>15. Registering(u) \/ Destroying(u) => call[u].next = "idle"
  BY <1>1 DEF FrameOK
<1>16. QED
  BY <1>1, <1>8, <1>9, <1>10, <1>11, <1>12, <1>13, <1>14, <1>15 DEF FrameOK

\* A step of t that sends nothing, after which t is not about to announce the
\* record that it was announcing before.
LEMMA SilentStep ==
  ASSUME TypeInv, LifeInv, NEW t \in Thread, RefStep(t), FrameOK(t)',
         \A u \in Thread \ {t} : call'[u] = call[u],
         UNCHANGED <<pipe, log>>,
         call[t].pc \notin {"pipe", "log"},
         \A a \in Addr : \/ objects_'[a].id = objects_[a].id
                         \/ objects_'[a].id = 0 /\ (Orderly => refs[a] \subseteq {t})
  PROVE  LifeInv'
<1>1. \A u \in Thread : FrameOK(u)'
  <2>1. \A k, d : /\ Sent(pipe, k, d) => Sent(pipe, k, d)'
                  /\ Sent(log, k, d) => Sent(log, k, d)'
    BY DEF Sent, Has
  <2>2. \A u \in Thread \ {t} : FrameOK(u)'
    BY <2>1, OthersFrameOK DEF LifeInv
  <2>3. QED
    BY <2>2
<1>2. RecordsAnnounced'
  <2> SUFFICES ASSUME NEW a \in Addr, objects_'[a].id # 0
               PROVE  \/ Sent(pipe', "Created", objects_'[a].id) /\ Sent(log', "Created", objects_'[a].id)
                      \/ \E u \in Thread : Announcing(u, a)'
    BY DEF RecordsAnnounced
  <2>1. objects_'[a].id = objects_[a].id
    OBVIOUS
  <2>2. CASE Sent(pipe, "Created", objects_[a].id) /\ Sent(log, "Created", objects_[a].id)
    BY <2>1, <2>2
  <2>3. CASE \E u \in Thread : Announcing(u, a)
    <3>1. PICK u \in Thread : Announcing(u, a)
      BY <2>3
    <3>2. u # t
      BY <3>1 DEF Announcing
    <3>3. Announcing(u, a)'
      BY <2>1, <3>1, <3>2 DEF Announcing
    <3>4. QED
      BY <3>3
  <2>4. QED
    BY <2>1, <2>2, <2>3 DEF LifeInv, RecordsAnnounced
<1>3. Orderly' => Inside(pipe') /\ Inside(log')
  BY DEF LifeInv, Orderly, RefStep
<1>4. QED
  BY <1>1, <1>2, <1>3 DEF LifeInv, Inside

\* What the application may start.
LEMMA AppStepLife ==
  ASSUME PatchInv, LifeInv, NEW t \in Thread, AppStep(t)
  PROVE  LifeInv'
<1> DEFINE Frames == \A u \in Thread \ {t} : call'[u] = call[u]
           Calm == {"idle", "relLookup", "residency", "nameLookup", "spdCall"}
<1>a. /\ call \in [Thread -> Frame] /\ refs \in [Addr -> SUBSET Thread] /\ TypeInv
      /\ NoAddr \notin Addr
  BY ConstantsAssumption DEF PatchInv, TypeInv, TypeOK
<1>b. UNCHANGED <<objects_, pipe, log>> /\ call[t] = Idle
  BY DEF AppStep, RuntimeCreate, HookCreate, HookCreateShared, ReleaseUnhooked,
     HookRelease, CallSetResidencyPriority, AddRef, CallSetName,
     CallSetPrivateData, trackVars, sinkVars
<1>c. /\ Idle.pc = "idle" /\ Idle.heap = NoAddr /\ Idle.next = "idle"
      /\ Calm \cap (RegisterPC \cup {"erase", "pipe", "log"}) = {}
  BY DEF Idle, RegisterPC, PatchPC
<1>d. ASSUME RefStep(t), Frames, FrameOK(t)'
      PROVE  LifeInv'
  BY <1>a, <1>b, <1>c, <1>d, SilentStep
<1>e. ASSUME RefStep(t), Frames, call'[t].pc \in Calm, call'[t].heap = NoAddr,
             call'[t].pc # "idle" => t \in refs'[call'[t].self]
      PROVE  LifeInv'
  <2>1. FrameOK(t)'
    <3>1. call'[t].pc \notin RegisterPC \cup {"erase", "pipe", "log"}
      BY <1>c, <1>e
    <3>2. ~Registering(t)' /\ ~Destroying(t)' /\ ~Telling(t)'
      BY <3>1 DEF Registering, Destroying, Telling
    <3>3. QED
      BY <1>e, <3>1, <3>2 DEF FrameOK, Uses
  <2>2. QED
    BY <1>d, <1>e, <2>1
<1>f. ASSUME NEW a \in Addr, NEW v \in VTable, Allocate(t, a, v)
      PROVE  RefStep(t) /\ refs' = [refs EXCEPT ![a] = {t}] /\ refs[a] = {}
  BY <1>a, <1>f DEF Allocate, Observe, RefStep
<1>1. ASSUME NEW a \in Addr, NEW v \in VTable, RuntimeCreate(t, a, v)
      PROVE  LifeInv'
  BY <1>1, <1>b, <1>c, <1>e, <1>f DEF RuntimeCreate
<1>2. ASSUME NEW a \in Addr, NEW v \in VTable, NEW h \in Addr \cup {NoAddr},
             HookCreate(t, a, v, h)
      PROVE  LifeInv'
  <2> DEFINE p == IF h = NoAddr THEN "patch" ELSE "heapid"
             e == CreatedEvent(a, born + 1)
             f == [Idle EXCEPT !.pc = p, !.self = a, !.heap = h, !.ev = e]
  <2>1. f.pc = p /\ f.self = a /\ f.heap = h /\ f.ev = e /\ f.next = "idle"
    BY DEF Idle
  <2>2. e.kind = "Created" /\ e.ref = 0
    BY DEF CreatedEvent, NoEvent
  <2>3. /\ Become(t, f) /\ (h # NoAddr => t \in refs[h])
        /\ RefStep(t) /\ refs' = [refs EXCEPT ![a] = {t}] /\ refs[a] = {}
    BY <1>2, <1>f DEF HookCreate
  <2> HIDE DEF e, f
  <2>4. call'[t] = f /\ Frames
    BY <1>a, <2>3 DEF Become
  <2>5. /\ Registering(t)' /\ ~Destroying(t)' /\ ~Telling(t)'
        /\ call'[t].pc # "erase"
    BY <2>1, <2>4 DEF Registering, Destroying, Telling, RegisterPC
  <2>6. refs'[a] = {t} /\ (h # NoAddr => h \in Addr /\ h # a /\ t \in refs'[h])
    BY <1>a, <2>3
  <2>7. FrameOK(t)'
    BY <2>1, <2>2, <2>4, <2>5, <2>6 DEF FrameOK
  <2>8. QED
    BY <1>d, <2>3, <2>4, <2>7
<1>3. ASSUME NEW a \in Addr, HookCreateShared(t, a)
      PROVE  LifeInv'
  <2> DEFINE f == [Idle EXCEPT !.pc = "patch", !.self = a,
                               !.ev = CreatedEvent(a, serial[a])]
  <2>1. f.pc = "patch" /\ f.self = a /\ f.heap = NoAddr /\ f.next = "idle"
    BY DEF Idle
  <2>2. /\ Become(t, f) /\ refs' = [refs EXCEPT ![a] = @ \cup {t}]
        /\ seen' = seen \cup {"shared"}
    BY <1>3 DEF HookCreateShared, Observe
  <2> HIDE DEF f
  <2>3. call'[t] = f /\ Frames
    BY <1>a, <2>2 DEF Become
  <2>4. RefStep(t) /\ t \in refs'[a]
    BY <1>a, <2>2 DEF RefStep
  <2>5. Registering(t)' /\ ~Destroying(t)' /\ ~Orderly'
    BY <2>1, <2>2, <2>3 DEF Registering, Destroying, RegisterPC, Orderly
  <2>6. FrameOK(t)'
    BY <2>1, <2>3, <2>4, <2>5 DEF FrameOK
  <2>7. QED
    BY <1>d, <2>3, <2>4, <2>6
<1>4. ASSUME NEW a \in Addr, NEW u \in Thread, ReleaseUnhooked(t, a) \/ AddRef(t, u, a)
      PROVE  LifeInv'
  <2>1. UNCHANGED <<call, seen>> /\ t \in refs[a]
    BY <1>4 DEF ReleaseUnhooked, AddRef
  <2>2. refs' = [refs EXCEPT ![a] = @ \ {t}] \/ refs' = [refs EXCEPT ![a] = @ \cup {u}]
    BY <1>4 DEF ReleaseUnhooked, AddRef, RealRelease
  <2>3. RefStep(t)
    BY <1>a, <2>1, <2>2 DEF RefStep
  <2>4. QED
    BY <1>b, <1>c, <1>e, <2>1, <2>3
<1>5. ASSUME NEW a \in Addr, NEW n \in AnyName,
             \/ HookRelease(t, a) \/ CallSetResidencyPriority(t, a)
             \/ CallSetName(t, a, n) \/ CallSetPrivateData(t, a, n)
      PROVE  LifeInv'
  <2>1. refs' = refs /\ seen \subseteq seen' /\ t \in refs[a]
    BY <1>5 DEF HookRelease, CallSetResidencyPriority, CallSetName, CallSetPrivateData,
       Observe, runtimeVars
  <2>2. PICK f : Become(t, f) /\ f.pc \in Calm /\ f.self = a /\ f.heap = NoAddr
    <3>1. CASE HookRelease(t, a)
      <4> DEFINE f == [Idle EXCEPT !.pc = "relLookup", !.self = a]
      <4>1. f.pc = "relLookup" /\ f.self = a /\ f.heap = NoAddr
        BY DEF Idle
      <4>2. QED
        BY <3>1, <4>1 DEF HookRelease
    <3>2. CASE CallSetResidencyPriority(t, a)
      <4> DEFINE f == [Idle EXCEPT !.pc = "residency", !.self = a]
      <4>1. f.pc = "residency" /\ f.self = a /\ f.heap = NoAddr
        BY DEF Idle
      <4>2. QED
        BY <3>2, <4>1 DEF CallSetResidencyPriority
    <3>3. CASE CallSetName(t, a, n)
      <4> DEFINE p == IF Hooked(a, "SetName") THEN "nameLookup" ELSE "spdCall"
                 f == [Idle EXCEPT !.pc = p, !.self = a, !.name = n,
                                   !.outer = Hooked(a, "SetName")]
      <4>1. f.pc = p /\ f.self = a /\ f.heap = NoAddr
        BY DEF Idle
      <4>2. Become(t, f)
        BY <3>3 DEF CallSetName
      <4> HIDE DEF f
      <4>3. QED
        BY <4>1, <4>2
    <3>4. CASE CallSetPrivateData(t, a, n)
      <4> DEFINE f == [Idle EXCEPT !.pc = "spdCall", !.self = a, !.name = n]
      <4>1. f.pc = "spdCall" /\ f.self = a /\ f.heap = NoAddr
        BY DEF Idle
      <4>2. QED
        BY <3>4, <4>1 DEF CallSetPrivateData
    <3>5. QED
      BY <1>5, <3>1, <3>2, <3>3, <3>4
  <2>3. call'[t] = f /\ Frames
    BY <1>a, <2>2 DEF Become
  <2>4. RefStep(t)
    BY <2>1 DEF RefStep
  <2>5. QED
    BY <1>e, <2>1, <2>2, <2>3, <2>4
<1>6. NoName \in AnyName
  BY DEF AnyName
<1>7. QED
  BY <1>1, <1>2, <1>3, <1>4, <1>5, <1>6 DEF AppStep

\* Fields that Goto and Emit keep.
LEMMA KeptFields ==
  ASSUME NEW t \in Thread, call \in [Thread -> Frame]
  PROVE  /\ \A p : Goto(t, p) => call'[t].heap = call[t].heap /\ call'[t].next = call[t].next
         /\ \A e, n : Emit(t, e, n) => call'[t].heap = call[t].heap /\ call'[t].next = n
<1>1. call[t] \in Frame
  OBVIOUS
<1>2. ASSUME NEW p, Goto(t, p)
      PROVE  call'[t].heap = call[t].heap /\ call'[t].next = call[t].next
  <2> DEFINE f == [call[t] EXCEPT !.pc = p]
  <2>1. f.heap = call[t].heap /\ f.next = call[t].next
    BY <1>1 DEF Frame
  <2>2. call'[t] = f
    BY <1>2 DEF Goto, Become
  <2>3. QED
    BY <2>1, <2>2
<1>3. ASSUME NEW e, NEW n, Emit(t, e, n)
      PROVE  call'[t].heap = call[t].heap /\ call'[t].next = n
  <2> DEFINE f == [call[t] EXCEPT !.pc = "pipe", !.ev = e, !.next = n]
  <2>1. f.heap = call[t].heap /\ f.next = n
    BY <1>1 DEF Frame
  <2>2. call'[t] = f
    BY <1>3 DEF Emit, Become
  <2>3. QED
    BY <2>1, <2>2
<1>4. QED
  BY <1>2, <1>3

\* An id that a thread is about to send an event about was created on both
\* sinks and is not destroyed on the one to be sent to.
LEMMA MentionedIsAlive ==
  ASSUME TypeInv, IdInv, LifeInv, Orderly, NEW t \in Thread,
         call[t].pc \in {"pipe", "log"}, NEW d \in Mentioned(call[t].ev)
  PROVE  /\ Sent(pipe, "Created", d) /\ Sent(log, "Created", d)
         /\ call[t].pc = "pipe" => ~Sent(pipe, "Destroyed", d)
         /\ ~Sent(log, "Destroyed", d)
<1> DEFINE ev == call[t].ev
<1>a. /\ FrameOK(t) /\ d # 0
      /\ call[t].self \in Addr
      /\ call[t].heap # NoAddr => call[t].heap \in Addr
  BY DEF LifeInv, Mentioned, TypeInv, TypeOK, CallOK, Frame
\* The id is that of a record at an address that t does not register.
<1>1. ASSUME NEW a \in Addr, objects_[a].id = d, t \in refs[a],
             ~(Registering(t) /\ call[t].self = a)
      PROVE  /\ Sent(pipe, "Created", d) /\ Sent(log, "Created", d)
             /\ ~Sent(pipe, "Destroyed", d) /\ ~Sent(log, "Destroyed", d)
  <2>1. ASSUME NEW u \in Thread, Announcing(u, a)
        PROVE  FALSE
    <3>1. Registering(u) /\ call[u].self = a
      BY <2>1 DEF Announcing, Registering
    <3>2. refs[a] = {u}
      BY <3>1 DEF LifeInv, FrameOK
    <3>3. QED
      BY <1>1, <3>1, <3>2
  <2>2. Sent(pipe, "Created", d) /\ Sent(log, "Created", d)
    BY <1>1, <1>a, <2>1 DEF LifeInv, RecordsAnnounced
  <2>3. ~Sent(pipe, "Destroyed", d) /\ ~Sent(log, "Destroyed", d)
    BY <1>1, <1>a DEF IdInv, DestroyedNoMore
  <2>4. QED
    BY <2>2, <2>3
<1>2. CASE ev.kind = "Created"
  <2>1. Registering(t) /\ ev.ref = d
    BY <1>2 DEF Registering, Mentioned
  <2>2. /\ call[t].heap # NoAddr /\ objects_[call[t].heap].id = d
        /\ t \in refs[call[t].heap] /\ call[t].heap # call[t].self
    BY <1>a, <2>1 DEF FrameOK
  <2>3. QED
    BY <1>1, <1>a, <2>2
<1>3. CASE ev.kind = "Destroyed"
  <2>1. Destroying(t) /\ ev.id = d
    BY <1>3 DEF Destroying, Mentioned
  <2>2. Sent(pipe, "Created", d) /\ Sent(log, "Created", d)
    BY <1>a, <2>1 DEF FrameOK
  <2>3. /\ call[t].pc # "log" => ~Sent(pipe, "Destroyed", d)
        /\ ~Sent(log, "Destroyed", d)
    BY <2>1 DEF IdInv, DestroyedNoMore
  <2>4. QED
    BY <2>2, <2>3
<1>4. CASE ev.kind \notin {"Created", "Destroyed"}
  <2>1. Telling(t) /\ Uses(t) /\ ~Registering(t) /\ ev.id = d
    BY <1>4 DEF Telling, Uses, Destroying, Registering, RegisterPC, PatchPC, Mentioned
  <2>2. t \in refs[call[t].self] /\ objects_[call[t].self].id = d
    BY <1>a, <2>1 DEF FrameOK
  <2>3. QED
    BY <1>1, <1>a, <2>1, <2>2
<1>5. QED
  BY <1>2, <1>3, <1>4

\* The rest of a call that has started.
LEMMA HookStepLife ==
  ASSUME PatchInv, DeathInv, IdInv, LifeInv, NEW t \in Thread, HookStep(t)
  PROVE  LifeInv'
<1> DEFINE Frames == \A u \in Thread \ {t} : call'[u] = call[u]
           Sinks == UNCHANGED <<pipe, log>>
           Still == UNCHANGED <<refs, seen>>
           self == call[t].self
           ev == call[t].ev
           Calm == {"idle", "relReal", "spdCall", "spdLookup", "spdReal", "onSetName", "outer"}
<1>a. /\ call \in [Thread -> Frame] /\ refs \in [Addr -> SUBSET Thread] /\ TypeInv
      /\ objects_ \in [Addr -> Record] /\ pipe \in Seq(Event) /\ log \in Seq(Event)
      /\ NoAddr \notin Addr
  BY ConstantsAssumption DEF PatchInv, TypeInv, TypeOK
<1>b. /\ call[t] \in Frame /\ ev \in Event /\ FrameOK(t)
      /\ call[t].pc # "idle" => self \in Addr
      /\ call[t].pc = "heapid" => call[t].heap \in Addr
      /\ call[t].heap # NoAddr => call[t].heap \in Addr
  BY <1>a DEF LifeInv, TypeInv, CallOK, Frame
<1>c. /\ "idle" \notin RegisterPC
      /\ RegisterPC \cap {"erase", "pipe", "log"} = {}
      /\ Calm \cap (RegisterPC \cup {"erase", "pipe", "log"}) = {}
  BY DEF RegisterPC, PatchPC
<1>d. Still => RefStep(t)
  BY DEF RefStep
\* A call that does not register has no parent heap.
<1>e. call[t].pc \notin RegisterPC \cup {"pipe", "log"} => call[t].heap = NoAddr
  BY <1>b DEF FrameOK, Registering
\* Steps after which t has nothing to register or send.
<1>f. ASSUME Frames, Sinks, call[t].pc \notin {"pipe", "log"}, RefStep(t),
             \A a \in Addr : objects_'[a].id = objects_[a].id,
             call'[t].pc \in Calm, call'[t].heap = NoAddr,
             call'[t].pc # "idle" => t \in refs'[call'[t].self]
      PROVE  LifeInv'
  <2>1. ~Registering(t)' /\ ~Destroying(t)' /\ ~Telling(t)' /\ call'[t].pc # "erase"
    BY <1>c, <1>f DEF Registering, Destroying, Telling
  <2>2. FrameOK(t)'
    BY <1>f, <2>1 DEF FrameOK, Uses
  <2>3. QED
    BY <1>a, <1>f, <2>2, SilentStep
\* Steps of Register before the record is in the map.
<1>g. ASSUME Frames, Sinks, UNCHANGED <<refs, objects_>>, seen \subseteq seen',
             call[t].pc \in RegisterPC, call'[t].pc \in RegisterPC,
             call'[t].self = self, call'[t].heap = call[t].heap,
             call'[t].next = call[t].next, call'[t].ev.ref = ev.ref
      PROVE  LifeInv'
  <2>1. RefStep(t) /\ (Orderly' => Orderly)
    BY <1>g DEF RefStep, Orderly
  <2>2. /\ Registering(t) /\ Uses(t) /\ ~Destroying(t)
        /\ Registering(t)' /\ Uses(t)' /\ ~Destroying(t)' /\ ~Telling(t)'
        /\ call'[t].pc # "erase" /\ call[t].pc \notin {"pipe", "log"}
    BY <1>c, <1>g DEF Registering, Uses, Destroying, Telling
  <2>3. FrameOK(t)'
    BY <1>b, <1>g, <2>1, <2>2 DEF FrameOK
  <2>4. QED
    BY <1>a, <1>g, <2>1, <2>2, <2>3, SilentStep
\* Steps that begin to send a renamed or residency event about the object of t.
<1>h. ASSUME Frames, Sinks, Still, call[t].pc \notin {"idle", "erase", "pipe", "log"},
             call[t].pc \notin RegisterPC,
             \A a \in Addr : objects_'[a].id = objects_[a].id,
             call'[t].pc = "pipe", call'[t].self = self, call'[t].heap = call[t].heap,
             call'[t].ev.kind \notin {"Created", "Destroyed"},
             call'[t].ev.id = objects_[self].id
      PROVE  LifeInv'
  <2>1. /\ ~Registering(t)' /\ ~Destroying(t)' /\ Telling(t)' /\ Uses(t)
    BY <1>c, <1>h DEF Registering, Destroying, Telling, Uses
  <2>2. call[t].heap = NoAddr /\ t \in refs[self]
    BY <1>b, <1>e, <1>h, <2>1 DEF FrameOK
  <2>3. FrameOK(t)'
    BY <1>b, <1>h, <2>1, <2>2 DEF FrameOK
  <2>4. QED
    BY <1>a, <1>d, <1>h, <2>3, SilentStep
<1>1. CASE LookupHeapId(t)
  <2> DEFINE e == [ev EXCEPT !.ref = objects_[call[t].heap].id]
             f == [call[t] EXCEPT !.pc = "patch", !.ev = e]
  <2>1. e.ref = objects_[call[t].heap].id
    BY <1>b DEF Event
  <2>2. /\ f.pc = "patch" /\ f.self = self /\ f.ev = e
        /\ f.heap = call[t].heap /\ f.next = call[t].next
    BY <1>b DEF Frame
  <2>3. /\ Become(t, f) /\ call[t].pc = "heapid" /\ Still /\ Sinks /\ objects_' = objects_
    BY <1>1 DEF LookupHeapId, runtimeVars, trackVars, sinkVars
  <2> HIDE DEF f, e
  <2>4. call'[t] = f /\ Frames
    BY <2>3, <1>a DEF Become
  <2>5. /\ Registering(t) /\ Uses(t) /\ ~Destroying(t)
        /\ Registering(t)' /\ Uses(t)' /\ ~Destroying(t)' /\ ~Telling(t)'
    BY <2>2, <2>3, <2>4 DEF Registering, Uses, Destroying, Telling, RegisterPC
  <2>6. FrameOK(t)'
    BY <1>a, <1>b, <2>1, <2>2, <2>3, <2>4, <2>5 DEF FrameOK, Orderly
  <2>7. QED
    BY <1>a, <1>d, <2>3, <2>4, <2>6, SilentStep
<1>2. CASE PatchVTableIfNew(t) \/ (\E s \in Slot : PatchSlot(t, s)) \/ Emplace(t)
  <2>1. PICK p \in {"fetch", "Release", "SetPrivateData", "SetName", "emplace"} : Goto(t, p)
    BY <1>2 DEF PatchVTableIfNew, PatchSlot, AfterSlot, Emplace, Slot
  <2>2. UNCHANGED <<refs, objects_>> /\ Sinks /\ seen \subseteq seen'
    BY <1>2 DEF PatchVTableIfNew, PatchSlot, Emplace, Observe, runtimeVars, trackVars, sinkVars
  <2>3. call[t].pc \in RegisterPC /\ p \in RegisterPC
    BY <1>2, <2>1 DEF PatchVTableIfNew, PatchSlot, Emplace, Slot, RegisterPC, PatchPC
  <2>4. /\ call'[t].pc = p /\ call'[t].self = self /\ call'[t].ev = ev /\ Frames
        /\ call'[t].heap = call[t].heap /\ call'[t].next = call[t].next
    BY <1>a, <2>1, GotoFields, KeptFields
  <2>5. QED
    BY <1>g, <2>2, <2>3, <2>4
<1>3. CASE FetchId(t)
  <2> DEFINE e == [ev EXCEPT !.id = next_id_]
             f == [call[t] EXCEPT !.pc = "insert", !.ev = e]
  <2>1. e.ref = ev.ref
    BY <1>b DEF Event
  <2>2. /\ f.pc = "insert" /\ f.self = self /\ f.ev = e
        /\ f.heap = call[t].heap /\ f.next = call[t].next
    BY <1>b DEF Frame
  <2>3. Become(t, f) /\ call[t].pc = "fetch" /\ Still /\ Sinks /\ objects_' = objects_
    BY <1>3 DEF FetchId, runtimeVars, sinkVars
  <2> HIDE DEF f, e
  <2>4. call'[t] = f /\ Frames
    BY <2>3, <1>a DEF Become
  <2>5. call[t].pc \in RegisterPC /\ call'[t].pc \in RegisterPC
    BY <2>2, <2>3, <2>4 DEF RegisterPC
  <2>6. QED
    BY <1>g, <2>1, <2>2, <2>3, <2>4, <2>5
<1>4. CASE Insert(t)
  <2> DEFINE r == [id |-> ev.id, name |-> NoName, obj |-> ev.obj]
  <2>1. /\ call[t].pc = "insert" /\ Goto(t, "pipe") /\ self \in Addr
        /\ Still /\ Sinks /\ objects_' = [objects_ EXCEPT ![self] = r]
    BY <1>4, <1>b DEF Insert, runtimeVars, sinkVars
  <2>2. ev.kind = "Created"
    BY <2>1 DEF DeathInv, RegistersItsObject, RegisterPC
  <2>3. /\ call'[t].pc = "pipe" /\ call'[t].self = self /\ call'[t].ev = ev /\ Frames
        /\ call'[t].heap = call[t].heap /\ call'[t].next = call[t].next
    BY <1>a, <2>1, GotoFields, KeptFields
  <2>4. \A a \in Addr : objects_'[a].id = IF a = self THEN ev.id ELSE objects_[a].id
    BY <1>a, <2>1
  <2>5. /\ Registering(t) /\ Uses(t) /\ ~Destroying(t)
        /\ Registering(t)' /\ Uses(t)' /\ ~Destroying(t)' /\ ~Telling(t)'
    BY <2>1, <2>2, <2>3 DEF Registering, Uses, Destroying, Telling, RegisterPC
  <2>6. FrameOK(t)'
    BY <1>b, <2>1, <2>3, <2>4, <2>5 DEF FrameOK, Orderly
  <2>7. \A u \in Thread \ {t} : FrameOK(u)'
    <3>1. Orderly => refs[self] \subseteq {t}
      BY <1>b, <2>5 DEF FrameOK
    <3>2. \A k, d : /\ Sent(pipe, k, d) => Sent(pipe, k, d)'
                    /\ Sent(log, k, d) => Sent(log, k, d)'
      BY <2>1 DEF Sent, Has
    <3>3. \A a \in Addr : \/ objects_'[a].id = objects_[a].id
                          \/ Orderly => refs[a] \subseteq {t}
      BY <2>4, <3>1
    <3>4. QED
      BY <1>a, <1>d, <2>1, <2>3, <3>2, <3>3, OthersFrameOK DEF LifeInv
  <2>8. RecordsAnnounced'
    <3> SUFFICES ASSUME NEW a \in Addr, objects_'[a].id # 0
                 PROVE  \/ /\ Sent(pipe, "Created", objects_'[a].id)
                           /\ Sent(log, "Created", objects_'[a].id)
                        \/ \E u \in Thread : Announcing(u, a)'
      BY <2>1 DEF RecordsAnnounced
    <3>1. CASE a = self
      <4>1. Announcing(t, a)'
        BY <2>2, <2>3, <2>4, <3>1 DEF Announcing
      <4>2. QED
        BY <4>1
    <3>2. CASE a # self
      <4>1. objects_'[a].id = objects_[a].id
        BY <2>4, <3>2
      <4>2. ASSUME NEW u \in Thread, Announcing(u, a)
            PROVE  Announcing(u, a)'
        <5>1. u # t
          BY <2>1, <4>2 DEF Announcing
        <5>2. QED
          BY <2>1, <2>3, <4>1, <4>2, <5>1 DEF Announcing
      <4>3. QED
        BY <4>1, <4>2 DEF LifeInv, RecordsAnnounced
    <3>3. QED
      BY <3>1, <3>2
  <2>9. Orderly' => Inside(pipe') /\ Inside(log')
    BY <2>1 DEF LifeInv, Orderly
  <2>10. QED
    BY <2>6, <2>7, <2>8, <2>9 DEF LifeInv, Inside
<1>5. CASE EmitPipe(t)
  <2>1. /\ call[t].pc = "pipe" /\ Goto(t, "log") /\ pipe' = Append(pipe, ev)
        /\ UNCHANGED <<objects_, log>> /\ Still
    BY <1>5 DEF EmitPipe, trackVars, runtimeVars
  <2>2. /\ call'[t].pc = "log" /\ call'[t].self = self /\ call'[t].ev = ev /\ Frames
        /\ call'[t].heap = call[t].heap /\ call'[t].next = call[t].next
    BY <1>a, <2>1, GotoFields, KeptFields
  <2>3. \A k, d : Sent(pipe', k, d) <=> Sent(pipe, k, d) \/ (ev.kind = k /\ ev.id = d)
    BY <1>a, <1>b, <2>1, AppendSent
  <2>4. \A k, d : Sent(log', k, d) <=> Sent(log, k, d)
    BY <2>1 DEF Sent, Has
  <2>5. /\ (Registering(t)' <=> Registering(t)) /\ (Destroying(t)' <=> Destroying(t))
        /\ (Telling(t)' <=> Telling(t)) /\ (Uses(t)' <=> Uses(t)) /\ (Orderly' <=> Orderly)
    BY <1>c, <2>1, <2>2 DEF Registering, Destroying, Telling, Uses, Orderly
  <2>6. FrameOK(t)'
    BY <1>b, <2>1, <2>2, <2>3, <2>4, <2>5 DEF FrameOK
  <2>7. \A u \in Thread \ {t} : FrameOK(u)'
    BY <1>a, <1>d, <2>1, <2>2, <2>3, <2>4, OthersFrameOK DEF LifeInv
  <2>8. RecordsAnnounced'
    <3> SUFFICES ASSUME NEW a \in Addr, objects_[a].id # 0
                 PROVE  \/ /\ Sent(pipe', "Created", objects_[a].id)
                           /\ Sent(log', "Created", objects_[a].id)
                        \/ \E u \in Thread : Announcing(u, a)'
      BY <2>1 DEF RecordsAnnounced
    <3>1. ASSUME NEW u \in Thread, Announcing(u, a)
          PROVE  Announcing(u, a)'
      <4>1. CASE u = t
        BY <2>1, <2>2, <2>3, <3>1, <4>1 DEF Announcing
      <4>2. CASE u # t
        BY <2>1, <2>2, <2>3, <3>1, <4>2 DEF Announcing
      <4>3. QED
        BY <4>1, <4>2
    <3>2. QED
      BY <2>3, <2>4, <3>1 DEF LifeInv, RecordsAnnounced
  <2>9. Orderly' => Inside(pipe') /\ Inside(log')
    <3> SUFFICES ASSUME Orderly'
                 PROVE  Inside(pipe') /\ Inside(log')
      OBVIOUS
    <3>1. Orderly /\ Inside(pipe) /\ Inside(log)
      BY <2>5 DEF LifeInv
    <3>2. \A d \in Mentioned(ev) : Sent(pipe, "Created", d) /\ ~Sent(pipe, "Destroyed", d)
      BY <1>a, <2>1, <3>1, MentionedIsAlive
    <3>3. Inside(Append(pipe, ev))
      BY <1>a, <1>b, <3>1, <3>2, AppendInside
    <3>4. QED
      BY <2>1, <3>1, <3>3
  <2>10. QED
    BY <2>6, <2>7, <2>8, <2>9 DEF LifeInv, Inside
<1>6. CASE EmitLog(t)
  <2>1. /\ call[t].pc = "log" /\ log' = Append(log, ev)
        /\ UNCHANGED <<objects_, pipe>> /\ Still
        /\ IF call[t].next = "idle" THEN Return(t) ELSE Goto(t, call[t].next)
    BY <1>6 DEF EmitLog, trackVars, runtimeVars
  <2>2. \A k, d : Sent(log', k, d) <=> Sent(log, k, d) \/ (ev.kind = k /\ ev.id = d)
    BY <1>a, <1>b, <2>1, AppendSent
  <2>3. \A k, d : Sent(pipe', k, d) <=> Sent(pipe, k, d)
    BY <2>1 DEF Sent, Has
  <2>4. FrameOK(t)' /\ Frames
    <3>1. CASE call[t].next = "idle"
      <4>1. call'[t] = Idle /\ Frames
        BY <1>a, <2>1, <3>1, ReturnStep
      <4>2. call'[t].pc = "idle" /\ call'[t].heap = NoAddr
        BY <4>1 DEF Idle
      <4>3. ~Registering(t)' /\ ~Destroying(t)' /\ ~Telling(t)' /\ ~Uses(t)'
        BY <1>c, <4>2 DEF Registering, Destroying, Telling, Uses
      <4>4. QED
        BY <4>1, <4>2, <4>3 DEF FrameOK
    <3>2. CASE call[t].next = "outer"
      <4>1. /\ call'[t].pc = "outer" /\ call'[t].self = self /\ Frames
            /\ call'[t].heap = call[t].heap
        BY <1>a, <2>1, <3>2, GotoFields, KeptFields
      <4>2. ~Registering(t) /\ ~Destroying(t)
        BY <1>b, <3>2 DEF FrameOK
      <4>3. Uses(t) /\ call[t].heap = NoAddr
        BY <1>b, <2>1, <4>2 DEF FrameOK, Uses
      <4>4. ~Registering(t)' /\ ~Destroying(t)' /\ ~Telling(t)'
        BY <4>1 DEF Registering, Destroying, Telling, RegisterPC, PatchPC
      <4>5. QED
        BY <1>b, <2>1, <4>1, <4>3, <4>4 DEF FrameOK
    <3>3. QED
      BY <1>b, <3>1, <3>2 DEF Frame
  <2>5. \A u \in Thread \ {t} : FrameOK(u)'
    BY <1>a, <1>d, <2>1, <2>2, <2>3, <2>4, OthersFrameOK DEF LifeInv
  <2>6. RecordsAnnounced'
    <3> SUFFICES ASSUME NEW a \in Addr, objects_[a].id # 0
                 PROVE  \/ /\ Sent(pipe', "Created", objects_[a].id)
                           /\ Sent(log', "Created", objects_[a].id)
                        \/ \E u \in Thread : Announcing(u, a)'
      BY <2>1 DEF RecordsAnnounced
    <3>1. ASSUME NEW u \in Thread, Announcing(u, a), u # t
          PROVE  Announcing(u, a)'
      BY <2>1, <2>3, <2>4, <3>1 DEF Announcing
    <3>2. Announcing(t, a) => /\ Sent(pipe', "Created", objects_[a].id)
                              /\ Sent(log', "Created", objects_[a].id)
      BY <2>1, <2>2, <2>3 DEF Announcing
    <3>3. QED
      BY <2>2, <2>3, <3>1, <3>2 DEF LifeInv, RecordsAnnounced
  <2>7. Orderly' => Inside(pipe') /\ Inside(log')
    <3> SUFFICES ASSUME Orderly'
                 PROVE  Inside(pipe') /\ Inside(log')
      OBVIOUS
    <3>1. Orderly /\ Inside(pipe) /\ Inside(log)
      BY <2>1 DEF LifeInv, Orderly
    <3>2. \A d \in Mentioned(ev) : Sent(log, "Created", d) /\ ~Sent(log, "Destroyed", d)
      BY <1>a, <2>1, <3>1, MentionedIsAlive
    <3>3. Inside(Append(log, ev))
      BY <1>a, <1>b, <3>1, <3>2, AppendInside
    <3>4. QED
      BY <2>1, <3>1, <3>3
  <2>8. QED
    BY <2>4, <2>5, <2>6, <2>7 DEF LifeInv, Inside
<1>7. CASE \/ ReleaseLookup(t) \/ SetNameLookup(t) \/ SetPrivateDataLookup(t)
           \/ SetPrivateDataDispatch(t) \/ HookSetPrivateData(t)
  <2>1. /\ Still /\ Sinks /\ objects_' = objects_
        /\ call[t].pc \in {"relLookup", "nameLookup", "spdCall", "spdLookup", "spdReal"}
    BY <1>7 DEF ReleaseLookup, SetNameLookup, SetPrivateDataLookup, SetPrivateDataDispatch,
       HookSetPrivateData, RealSetPrivateData, runtimeVars, trackVars, sinkVars
  <2>2. Return(t) \/ \E p \in Calm : Goto(t, p)
    BY <1>7 DEF ReleaseLookup, SetNameLookup, SetPrivateDataLookup, SetPrivateDataDispatch,
       HookSetPrivateData, AfterSetPrivateData
  <2>3. call[t].pc \notin RegisterPC /\ Uses(t)
    BY <2>1 DEF RegisterPC, PatchPC, Uses, Destroying
  <2>4. t \in refs[self] /\ call[t].heap = NoAddr
    BY <1>b, <1>e, <2>1, <2>3 DEF FrameOK
  <2>5. CASE Return(t)
    <3>1. call'[t] = Idle /\ Frames
      BY <1>a, <2>5, ReturnStep
    <3>2. call'[t].pc = "idle" /\ call'[t].heap = NoAddr
      BY <3>1 DEF Idle
    <3>3. QED
      BY <1>d, <1>f, <2>1, <3>1, <3>2
  <2>6. CASE \E p \in Calm : Goto(t, p)
    <3>1. /\ call'[t].pc \in Calm /\ call'[t].self = self /\ Frames
          /\ call'[t].heap = call[t].heap
      BY <1>a, <2>6, GotoFields, KeptFields
    <3>2. QED
      BY <1>d, <1>f, <2>1, <2>4, <3>1
  <2>7. QED
    BY <2>2, <2>5, <2>6
<1>8. CASE ReleaseReal(t)
  <2>1. /\ call[t].pc = "relReal" /\ self \in Addr /\ seen' = seen
        /\ Sinks /\ objects_' = objects_ /\ refs' = [refs EXCEPT ![self] = @ \ {t}]
    BY <1>8, <1>b DEF ReleaseReal, RealRelease, trackVars, sinkVars
  <2>2. call[t].pc \notin RegisterPC /\ Uses(t)
    BY <2>1 DEF RegisterPC, PatchPC, Uses, Destroying
  <2>3. t \in refs[self] /\ call[t].heap = NoAddr
    BY <1>b, <1>e, <2>1, <2>2 DEF FrameOK
  <2>4. RefStep(t)
    BY <1>a, <2>1, <2>3 DEF RefStep
  <2>5. CASE refs[self] = {t} /\ Goto(t, "erase")
    <3>1. /\ call'[t].pc = "erase" /\ call'[t].self = self /\ Frames
          /\ call'[t].heap = NoAddr
      BY <1>a, <2>3, <2>5, GotoFields, KeptFields
    <3>2. refs'[self] = {}
      BY <1>a, <2>1, <2>5
    <3>3. ~Registering(t)' /\ ~Destroying(t)' /\ ~Telling(t)' /\ ~Uses(t)'
      BY <1>c, <3>1 DEF Registering, Destroying, Telling, Uses
    <3>4. FrameOK(t)'
      BY <3>1, <3>2, <3>3 DEF FrameOK
    <3>5. QED
      BY <1>a, <2>1, <2>4, <3>1, <3>4, SilentStep
  <2>6. CASE Return(t)
    <3>1. call'[t] = Idle /\ Frames
      BY <1>a, <2>6, ReturnStep
    <3>2. call'[t].pc = "idle" /\ call'[t].heap = NoAddr
      BY <3>1 DEF Idle
    <3>3. QED
      BY <1>f, <2>1, <2>4, <3>1, <3>2
  <2>7. QED
    BY <1>8, <2>5, <2>6 DEF ReleaseReal
<1>9. CASE OnReleaseToZero(t)
  <2> DEFINE r == objects_[self]
  <2>1. call[t].pc = "erase" /\ self \in Addr /\ Still /\ Sinks
    BY <1>9, <1>b DEF OnReleaseToZero, runtimeVars, sinkVars
  <2>2. call[t].heap = NoAddr
    BY <1>c, <1>e, <2>1
  <2>3. CASE Return(t) /\ UNCHANGED objects_
    <3>1. call'[t] = Idle /\ Frames
      BY <1>a, <2>3, ReturnStep
    <3>2. call'[t].pc = "idle" /\ call'[t].heap = NoAddr
      BY <3>1 DEF Idle
    <3>3. QED
      BY <1>d, <1>f, <2>1, <2>3, <3>1, <3>2
  <2>4. CASE /\ r.id # 0
             /\ objects_' = [objects_ EXCEPT ![self] = NoRecord]
             /\ Emit(t, DestroyedEvent(r), "idle")
    <3>1. DestroyedEvent(r).id = r.id /\ DestroyedEvent(r).kind = "Destroyed"
      BY DEF DestroyedEvent, NoEvent
    <3>2. /\ call'[t].pc = "pipe" /\ call'[t].ev = DestroyedEvent(r) /\ Frames
          /\ call'[t].heap = NoAddr /\ call'[t].next = "idle"
      BY <1>a, <2>2, <2>4, EmitFields, KeptFields
    <3>3. \A b \in Addr : objects_'[b].id = IF b = self THEN 0 ELSE objects_[b].id
      BY <1>a, <2>1, <2>4 DEF NoRecord
    <3>4. Orderly => refs[self] = {}
      BY <1>b, <2>1 DEF FrameOK
    <3>5. Orderly => Sent(pipe, "Created", r.id) /\ Sent(log, "Created", r.id)
      <4>1. ASSUME Orderly, NEW u \in Thread, Announcing(u, self)
            PROVE  FALSE
        <5>1. Registering(u) /\ call[u].self = self
          BY <4>1 DEF Announcing, Registering
        <5>2. QED
          BY <3>4, <4>1, <5>1 DEF LifeInv, FrameOK
      <4>2. QED
        BY <2>1, <2>4, <4>1 DEF LifeInv, RecordsAnnounced
    <3>6. ~Registering(t)' /\ Destroying(t)' /\ ~Telling(t)' /\ ~Uses(t)'
      BY <1>c, <3>1, <3>2 DEF Registering, Destroying, Telling, Uses
    <3>7. FrameOK(t)'
      <4>1. Orderly' => Sent(pipe', "Created", r.id) /\ Sent(log', "Created", r.id)
        BY <2>1, <3>5 DEF Orderly
      <4>2. QED
        BY <3>1, <3>2, <3>6, <4>1 DEF FrameOK
    <3>8. QED
      BY <1>a, <1>d, <2>1, <3>2, <3>3, <3>4, <3>7, SilentStep
  <2>5. QED
    BY <1>9, <2>3, <2>4 DEF OnReleaseToZero
<1>10. CASE InnerOnSetName(t) \/ OuterOnSetName(t)
  <2>1. PICK done \in {"idle", "outer"} : OnSetName(t, done)
    BY <1>10 DEF InnerOnSetName, OuterOnSetName
  <2>2. Still /\ Sinks /\ call[t].pc \in {"onSetName", "outer"} /\ self \in Addr
    BY <1>10, <1>b, <2>1 DEF InnerOnSetName, OuterOnSetName, OnSetName, runtimeVars, sinkVars
  <2>3. call[t].pc \notin RegisterPC /\ Uses(t)
    BY <2>2 DEF RegisterPC, PatchPC, Uses, Destroying
  <2>4. t \in refs[self] /\ call[t].heap = NoAddr
    BY <1>b, <1>e, <2>2, <2>3 DEF FrameOK
  <2>5. CASE (Return(t) \/ Goto(t, done)) /\ UNCHANGED objects_
    <3>1. CASE Return(t)
      <4>1. call'[t] = Idle /\ Frames
        BY <1>a, <3>1, ReturnStep
      <4>2. call'[t].pc = "idle" /\ call'[t].heap = NoAddr
        BY <4>1 DEF Idle
      <4>3. QED
        BY <1>d, <1>f, <2>2, <2>5, <4>1, <4>2
    <3>2. CASE Goto(t, done)
      <4>1. /\ call'[t].pc \in Calm /\ call'[t].self = self /\ Frames
            /\ call'[t].heap = call[t].heap
        BY <1>a, <3>2, GotoFields, KeptFields
      <4>2. QED
        BY <1>d, <1>f, <2>2, <2>4, <2>5, <4>1
    <3>3. QED
      BY <2>5, <3>1, <3>2
  <2>6. CASE /\ objects_' = [objects_ EXCEPT ![self].name = call[t].name]
             /\ Emit(t, RenamedEvent(objects_[self], call[t].name), done)
    <3> DEFINE e == RenamedEvent(objects_[self], call[t].name)
    <3>1. e.kind = "Renamed" /\ e.id = objects_[self].id
      BY DEF RenamedEvent, NoEvent
    <3>2. /\ call'[t].pc = "pipe" /\ call'[t].ev = e /\ call'[t].self = self /\ Frames
          /\ call'[t].heap = call[t].heap
      BY <1>a, <2>6, EmitFields, KeptFields
    <3>3. \A a \in Addr : objects_'[a].id = objects_[a].id
      BY <1>a, <2>2, <2>6 DEF Record
    <3> HIDE DEF e
    <3>4. QED
      BY <1>h, <2>2, <2>3, <3>1, <3>2, <3>3
  <2>7. QED
    BY <2>1, <2>5, <2>6 DEF OnSetName
<1>11. CASE ResidencyLookup(t)
  <2> DEFINE e == ResidencyEvent(self, objects_[self])
  <2>1. e.kind = "ResidencyPriority" /\ e.id = objects_[self].id
    BY DEF ResidencyEvent, NoEvent
  <2>2. /\ Still /\ Sinks /\ UNCHANGED objects_ /\ Emit(t, e, "idle")
        /\ call[t].pc = "residency"
    BY <1>11 DEF ResidencyLookup, runtimeVars, trackVars, sinkVars
  <2>3. call[t].pc \notin RegisterPC
    BY <2>2 DEF RegisterPC, PatchPC
  <2> HIDE DEF e
  <2>4. /\ call'[t].pc = "pipe" /\ call'[t].ev = e /\ call'[t].self = self /\ Frames
        /\ call'[t].heap = call[t].heap
    BY <1>a, <2>2, EmitFields, KeptFields
  <2>5. QED
    BY <1>h, <2>1, <2>2, <2>3, <2>4
<1>12. QED
  BY <1>1, <1>2, <1>3, <1>4, <1>5, <1>6, <1>7, <1>8, <1>9, <1>10, <1>11 DEF HookStep

\* While no address was reused inside Hook_Release and Create* returned fresh
\* objects, each sink mentions an id after its created and before its destroyed
\* event, however the events of several threads interleave (Emit* runs outside
\* mu_, LookupHeapId long before its result is sent).
THEOREM MentionedWhileAlive == Spec => []EventsInsideLifetime
<1> DEFINE Inv == PatchInv /\ DeathInv /\ IdInv /\ LifeInv
<1>1. Init => Inv
  <2> SUFFICES ASSUME Init PROVE LifeInv
    BY InitPatch, InitDeath, InitIds
  <2>1. \A t \in Thread : call[t].pc = "idle" /\ call[t].heap = NoAddr
    BY DEF Init, Idle
  <2>2. \A t \in Thread : ~Registering(t) /\ ~Destroying(t) /\ ~Telling(t) /\ ~Uses(t)
    BY <2>1 DEF Registering, Destroying, Telling, Uses, RegisterPC, PatchPC
  <2>3. \A t \in Thread : FrameOK(t)
    BY <2>1, <2>2 DEF FrameOK
  <2>4. \A a \in Addr : objects_[a].id = 0
    BY DEF Init, NoRecord
  <2>5. Len(pipe) = 0 /\ Len(log) = 0
    BY DEF Init
  <2>6. QED
    BY <2>3, <2>4, <2>5 DEF LifeInv, RecordsAnnounced, Inside
<1>2. Inv /\ [Next]_vars => Inv'
  <2>1. LifeInv /\ UNCHANGED vars => LifeInv'
    <3> SUFFICES ASSUME LifeInv, UNCHANGED vars PROVE LifeInv'
      OBVIOUS
    <3>1. UNCHANGED <<refs, objects_, call, pipe, log, seen>>
      BY DEF vars, runtimeVars, trackVars, sinkVars
    <3>2. \A t \in Thread : FrameOK(t)'
      BY <3>1 DEF LifeInv, FrameOK, Registering, Destroying, Telling, Uses, Orderly, Sent, Has
    <3>3. RecordsAnnounced'
      BY <3>1 DEF LifeInv, RecordsAnnounced, Announcing, Sent, Has
    <3>4. QED
      BY <3>1, <3>2, <3>3 DEF LifeInv, Inside, Has, Orderly
  <2>2. QED
    BY <2>1, PatchStep, DeathInvStep, IdInvStep, AppStepLife, HookStepLife DEF Next
<1>3. Inv => EventsInsideLifetime
  BY DEF LifeInv, Inside, Orderly, EventsInsideLifetime
<1>4. QED
  BY <1>1, <1>2, <1>3, PTL DEF Spec

-----------------------------------------------------------------------------
(* Settled streams: the inductive invariant *)

\* The premise of SettledStreams and RecordsNeverReplaced.
Undisturbed == seen \cap {"reuse", "shared", "protect"} = {}

\* An object has one address, and is alive while somebody has a reference.
SerialsUnique ==
  /\ \A a \in Addr : serial[a] <= born
  /\ \A a, b \in Addr : serial[a] # 0 /\ serial[a] = serial[b] => a = b
  /\ \A o \in dead : o <= born
  /\ \A a \in Addr : refs[a] # {} => serial[a] \notin dead

\* PatchVTableIfNew hooks Release of every vtable it remembers.
PatchedAreHooked ==
  \A v \in VTable : vtable_patches_[v] # Unpatched => slot[v]["Release"] = "hook"

\* Release of the object at a record is hooked, so that its last reference
\* goes with OnReleaseToZero.
RecordsTracked ==
  \A a \in Addr : objects_[a].id # 0 =>
    /\ objects_[a].obj = serial[a]
    /\ refs[a] # {} => Hooked(a, "Release")
    /\ refs[a] = {} => InReleaseWindow(a)

\* What became of object o created as id d: its record is in the map, or its
\* destroyed event is being sent, or was sent.
Fate(d, o) ==
  \/ \E a \in Addr : objects_[a].id = d /\ objects_[a].obj = o
  \/ /\ o \in dead
     /\ \E u \in Thread :
          /\ Destroying(u) /\ call[u].ev.id = d
          /\ call[u].pc = "log" => Sent(pipe, "Destroyed", d)
  \/ o \in dead /\ Sent(pipe, "Destroyed", d) /\ Sent(log, "Destroyed", d)

\* Once its vtable was dealt with the object that t registers is hooked; its
\* address has no record before Insert, and its created event a fate after.
RegistersFresh(t) ==
  /\ call[t].pc \in {"SetPrivateData", "SetName", "emplace", "fetch", "insert"} =>
       Hooked(call[t].self, "Release")
  /\ call[t].pc \in RegisterPC => objects_[call[t].self].id = 0
  /\ call[t].pc \in {"pipe", "log"} /\ call[t].ev.kind = "Created" =>
       call[t].ev.id # 0 /\ Fate(call[t].ev.id, call[t].ev.obj)

\* Every created event in s has a fate.
Fated(s) ==
  \A i \in 1..Len(s) : s[i].kind = "Created" => s[i].id # 0 /\ Fate(s[i].id, s[i].obj)

SettleInv ==
  Undisturbed =>
    /\ SerialsUnique /\ PatchedAreHooked /\ RecordsTracked
    /\ \A t \in Thread : RegistersFresh(t)
    /\ Fated(pipe) /\ Fated(log)

-----------------------------------------------------------------------------
(* Steps while nothing is disturbed *)

\* What such a step of t does to objects: it allocates one, takes one of t's
\* references away, hands one on, or does nothing.
CleanStep(t) ==
  /\ seen \subseteq seen'
  /\ \/ UNCHANGED <<refs, vt, serial, born, dead>>
     \/ \E a \in Addr, v \in VTable : Allocate(t, a, v)
     \/ \E a \in Addr : t \in refs[a] /\ RealRelease(t, a)
     \/ /\ \E a \in Addr, u \in Thread :
             t \in refs[a] /\ refs' = [refs EXCEPT ![a] = @ \cup {u}]
        /\ UNCHANGED <<vt, serial, born, dead>>

\* The object at a stays, or the address was free.
Keeps(a) ==
  \/ serial'[a] = serial[a] /\ vt'[a] = vt[a]
  \/ refs[a] = {} /\ ~InReleaseWindow(a)

LEMMA CleanStepFacts ==
  ASSUME TypeInv, Lifetimes, SerialsUnique, NEW t \in Thread, CleanStep(t), Undisturbed'
  PROVE  /\ SerialsUnique' /\ RefStep(t) /\ dead \subseteq dead'
         /\ \A a \in Addr : Keeps(a)
<1>a. /\ refs \in [Addr -> SUBSET Thread] /\ serial \in [Addr -> Nat]
      /\ vt \in [Addr -> VTable] /\ born \in Nat /\ dead \subseteq Nat
      /\ "reuse" \notin seen' /\ seen \subseteq seen'
  BY DEF TypeInv, TypeOK, Undisturbed, CleanStep
<1> DEFINE Goal == /\ SerialsUnique' /\ RefStep(t) /\ dead \subseteq dead'
                   /\ \A a \in Addr : Keeps(a)
<1>1. CASE UNCHANGED <<refs, vt, serial, born, dead>>
  BY <1>1, <1>a DEF SerialsUnique, RefStep, Keeps
<1>2. ASSUME NEW b \in Addr, NEW v \in VTable, Allocate(t, b, v)
      PROVE  Goal
  <2>1. /\ refs[b] = {} /\ refs' = [refs EXCEPT ![b] = {t}]
        /\ serial' = [serial EXCEPT ![b] = born + 1] /\ dead' = dead
        /\ vt' = [vt EXCEPT ![b] = v] /\ born' = born + 1
        /\ ~InReleaseWindow(b)
    BY <1>2, <1>a DEF Allocate, Observe
  <2>2. \A a \in Addr \ {b} : refs'[a] = refs[a] /\ serial'[a] = serial[a] /\ vt'[a] = vt[a]
    BY <2>1, <1>a
  <2>3. RefStep(t) /\ \A a \in Addr : Keeps(a)
    BY <1>a, <2>1, <2>2 DEF RefStep, Keeps
  <2>4. serial'[b] = born + 1
    BY <1>a, <2>1
  <2>5. \A a \in Addr : serial'[a] <= born'
    BY <1>a, <2>1, <2>2, <2>4 DEF SerialsUnique
  <2>6. \A a, c \in Addr : serial'[a] # 0 /\ serial'[a] = serial'[c] => a = c
    BY <1>a, <2>2, <2>4 DEF SerialsUnique
  <2>7. \A o \in dead' : o <= born'
    BY <1>a, <2>1 DEF SerialsUnique
  <2>8. born + 1 \notin dead
    BY <1>a DEF SerialsUnique
  <2>9. \A a \in Addr : refs'[a] # {} => serial'[a] \notin dead'
    BY <2>1, <2>2, <2>4, <2>8 DEF SerialsUnique
  <2>10. QED
    BY <2>1, <2>3, <2>5, <2>6, <2>7, <2>9 DEF SerialsUnique
<1>3. ASSUME NEW b \in Addr, t \in refs[b], RealRelease(t, b)
      PROVE  Goal
  <2>1. /\ refs' = [refs EXCEPT ![b] = @ \ {t}] /\ serial' = serial /\ vt' = vt
        /\ born' = born /\ dead' = IF refs[b] = {t} THEN dead \cup {serial[b]} ELSE dead
    BY <1>3 DEF RealRelease
  <2>2. /\ \A a \in Addr \ {b} : refs'[a] = refs[a]
        /\ refs'[b] = refs[b] \ {t}
    BY <2>1, <1>a
  <2>3. RefStep(t) /\ \A a \in Addr : Keeps(a)
    BY <1>a, <1>3, <2>1, <2>2 DEF RefStep, Keeps
  <2>4. serial[b] # 0
    BY <1>3 DEF Lifetimes
  <2>5. \A a \in Addr : refs'[a] # {} => serial[a] \notin dead'
    BY <2>1, <2>2, <2>4, <1>a DEF SerialsUnique
  <2>6. dead \subseteq dead' /\ \A o \in dead' : o <= born'
    BY <2>1 DEF SerialsUnique
  <2>7. QED
    BY <2>1, <2>3, <2>5, <2>6 DEF SerialsUnique
<1>4. ASSUME NEW b \in Addr, NEW u \in Thread, t \in refs[b],
             refs' = [refs EXCEPT ![b] = @ \cup {u}],
             UNCHANGED <<vt, serial, born, dead>>
      PROVE  Goal
  <2>1. /\ \A a \in Addr \ {b} : refs'[a] = refs[a]
        /\ refs'[b] = refs[b] \cup {u} /\ refs[b] # {}
    BY <1>4, <1>a
  <2>2. RefStep(t) /\ \A a \in Addr : Keeps(a)
    BY <1>a, <1>4, <2>1 DEF RefStep, Keeps
  <2>3. \A a \in Addr : refs'[a] # {} => serial[a] \notin dead
    BY <2>1 DEF SerialsUnique
  <2>4. QED
    BY <1>4, <2>2, <2>3 DEF SerialsUnique
<1>5. QED
  BY <1>1, <1>2, <1>3, <1>4 DEF CleanStep

\* t erases the record at a and is about to send its destroyed event.
Erases(t, a) ==
  /\ objects_'[a].id = 0
  /\ objects_[a].obj \in dead'
  /\ call'[t].pc = "pipe" /\ call'[t].ev.kind = "Destroyed"
  /\ call'[t].ev.id = objects_[a].id

SameRecord(a) == objects_'[a].id = objects_[a].id /\ objects_'[a].obj = objects_[a].obj

\* A fate does not change but from a record to a destroyed event, and from an
\* event being sent to one that was sent.
LEMMA FatesStay ==
  ASSUME NEW t \in Thread, dead \subseteq dead',
         \A u \in Thread \ {t} : call'[u] = call[u],
         \A k, d : /\ Sent(pipe, k, d) => Sent(pipe, k, d)'
                   /\ Sent(log, k, d) => Sent(log, k, d)',
         \A a \in Addr : objects_[a].id # 0 => SameRecord(a) \/ Erases(t, a),
         Destroying(t) =>
           \/ /\ call'[t].pc = "log" /\ call'[t].ev = call[t].ev
              /\ Sent(pipe', "Destroyed", call[t].ev.id)
           \/ call[t].pc = "log" /\ Sent(log', "Destroyed", call[t].ev.id)
  PROVE  \A d, o : d # 0 /\ Fate(d, o) => Fate(d, o)'
<1> SUFFICES ASSUME NEW d, NEW o, d # 0, Fate(d, o)
             PROVE  Fate(d, o)'
  OBVIOUS
<1>1. ASSUME NEW a \in Addr, objects_[a].id = d, objects_[a].obj = o
      PROVE  Fate(d, o)'
  <2>1. CASE SameRecord(a)
    BY <1>1, <2>1 DEF SameRecord, Fate
  <2>2. CASE Erases(t, a)
    <3>1. Destroying(t)' /\ call'[t].ev.id = d /\ call'[t].pc # "log" /\ o \in dead'
      BY <1>1, <2>2 DEF Erases, Destroying
    <3>2. QED
      BY <3>1 DEF Fate
  <2>3. QED
    BY <1>1, <2>1, <2>2
<1>2. ASSUME o \in dead, NEW u \in Thread, Destroying(u), call[u].ev.id = d,
             call[u].pc = "log" => Sent(pipe, "Destroyed", d)
      PROVE  Fate(d, o)'
  <2>1. o \in dead'
    BY <1>2
  <2>2. CASE u # t
    <3>1. call'[u] = call[u] /\ Destroying(u)'
      BY <1>2, <2>2 DEF Destroying
    <3>2. call'[u].pc = "log" => Sent(pipe, "Destroyed", d)'
      BY <1>2, <3>1
    <3>3. QED
      BY <1>2, <2>1, <3>1, <3>2 DEF Fate
  <2>3. CASE u = t /\ call'[t].pc = "log" /\ call'[t].ev = call[t].ev
                   /\ Sent(pipe', "Destroyed", call[t].ev.id)
    <3>1. Destroying(t)' /\ call'[t].ev.id = d /\ Sent(pipe, "Destroyed", d)'
      BY <1>2, <2>3 DEF Destroying
    <3>2. QED
      BY <2>1, <3>1 DEF Fate
  <2>4. CASE u = t /\ call[t].pc = "log" /\ Sent(log', "Destroyed", call[t].ev.id)
    <3>1. Sent(pipe, "Destroyed", d)' /\ Sent(log, "Destroyed", d)'
      BY <1>2, <2>4
    <3>2. QED
      BY <2>1, <3>1 DEF Fate
  <2>5. QED
    BY <1>2, <2>2, <2>3, <2>4
<1>3. ASSUME o \in dead, Sent(pipe, "Destroyed", d), Sent(log, "Destroyed", d)
      PROVE  Fate(d, o)'
  <2>1. o \in dead' /\ Sent(pipe, "Destroyed", d)' /\ Sent(log, "Destroyed", d)'
    BY <1>3
  <2>2. QED
    BY <2>1 DEF Fate
<1>4. QED
  BY <1>1, <1>2, <1>3 DEF Fate

\* One more event; G stands for the ids and objects that have a fate.
LEMMA AppendFated ==
  ASSUME NEW s \in Seq(Event), NEW e \in Event, NEW G,
         \A i \in 1..Len(s) : s[i].kind = "Created" => s[i].id # 0 /\ <<s[i].id, s[i].obj>> \in G,
         e.kind = "Created" => e.id # 0 /\ <<e.id, e.obj>> \in G
  PROVE  \A i \in 1..Len(Append(s, e)) : Append(s, e)[i].kind = "Created" =>
           Append(s, e)[i].id # 0 /\ <<Append(s, e)[i].id, Append(s, e)[i].obj>> \in G
<1> DEFINE r == Append(s, e)
<1>1. /\ Len(r) = Len(s) + 1 /\ Len(s) \in Nat
      /\ r[Len(s) + 1] = e
      /\ \A i \in 1..Len(s) : r[i] = s[i]
  OBVIOUS
<1> HIDE DEF r
<1>2. ASSUME NEW i \in 1..Len(r), r[i].kind = "Created"
      PROVE  r[i].id # 0 /\ <<r[i].id, r[i].obj>> \in G
  <2>1. CASE i \in 1..Len(s)
    <3>1. r[i] = s[i]
      BY <1>1, <2>1
    <3>2. QED
      BY <1>2, <2>1, <3>1
  <2>2. CASE i = Len(s) + 1
    <3>1. r[i] = e
      BY <1>1, <2>2
    <3>2. QED
      BY <1>2, <3>1
  <2>3. QED
    BY <1>1, <1>2, <2>1, <2>2
<1>3. QED
  BY <1>2 DEF r

\* A sink never loses an event.
LEMMA GrowSent ==
  ASSUME NEW s \in Seq(Event), NEW e \in Event, NEW r, r = s \/ r = Append(s, e)
  PROVE  \A k, d : Sent(s, k, d) => Sent(r, k, d)
<1>1. CASE r = s
  BY <1>1
<1>2. CASE r = Append(s, e)
  BY <1>2, AppendSent
<1>3. QED
  BY <1>1, <1>2

\* A step of t, from what it does to t's own frame, to the records, the slots
\* and the sinks.
LEMMA SettleStep ==
  ASSUME TypeInv, DeathInv, LifeInv, SettleInv, NEW t \in Thread, CleanStep(t),
         Undisturbed',
         \A u \in Thread \ {t} : call'[u] = call[u],
         \A v \in VTable : slot[v]["Release"] = "hook" => slot'[v]["Release"] = "hook",
         \A v \in VTable :
           \/ vtable_patches_'[v] = vtable_patches_[v]
           \/ slot'[v]["Release"] = "hook",
         \A a \in Addr : refs[a] # {} /\ refs'[a] = {} =>
           \/ call'[t].pc = "erase" /\ call'[t].self = a
           \/ ~Hooked(a, "Release"),
         call[t].pc = "erase" => call'[t] = call[t] \/ objects_'[call[t].self].id = 0,
         \A a \in Addr :
           \/ SameRecord(a)
           \/ Erases(t, a)
           \/ /\ objects_[a].id = 0 /\ refs'[a] = {t} /\ refs[a] = {t}
              /\ objects_'[a].obj = serial'[a] /\ Hooked(a, "Release")',
         \/ pipe' = pipe
         \/ call[t].pc = "pipe" /\ pipe' = Append(pipe, call[t].ev),
         \/ log' = log
         \/ call[t].pc = "log" /\ log' = Append(log, call[t].ev),
         Destroying(t) =>
           \/ /\ call'[t].pc = "log" /\ call'[t].ev = call[t].ev
              /\ Sent(pipe', "Destroyed", call[t].ev.id)
           \/ call[t].pc = "log" /\ Sent(log', "Destroyed", call[t].ev.id),
         (\A d, o : d # 0 /\ Fate(d, o) => Fate(d, o)') => RegistersFresh(t)'
  PROVE  SettleInv'
<1>a. /\ call \in [Thread -> Frame] /\ refs \in [Addr -> SUBSET Thread]
      /\ vt \in [Addr -> VTable] /\ pipe \in Seq(Event) /\ log \in Seq(Event)
      /\ \A u \in Thread : call[u].ev \in Event
      /\ \A u \in Thread : call[u].pc # "idle" => call[u].self \in Addr
  BY DEF TypeInv, TypeOK, CallOK, Frame
<1>b. Undisturbed /\ Orderly /\ "reuse" \notin seen'
  BY DEF CleanStep, Undisturbed, Orderly
<1>c. /\ SerialsUnique /\ PatchedAreHooked /\ RecordsTracked
      /\ \A u \in Thread : RegistersFresh(u)
      /\ Fated(pipe) /\ Fated(log)
  BY <1>b DEF SettleInv
<1>d. /\ SerialsUnique' /\ RefStep(t) /\ dead \subseteq dead'
      /\ \A a \in Addr : Keeps(a)
  BY <1>c, CleanStepFacts DEF DeathInv
<1>1. PatchedAreHooked'
  BY <1>c DEF PatchedAreHooked
<1>2. RecordsTracked'
  <2> SUFFICES ASSUME NEW a \in Addr, objects_'[a].id # 0
               PROVE  /\ objects_'[a].obj = serial'[a]
                      /\ refs'[a] # {} => Hooked(a, "Release")'
                      /\ refs'[a] = {} => InReleaseWindow(a)'
    BY DEF RecordsTracked
  <2>1. CASE SameRecord(a)
    <3>1. objects_'[a].id = objects_[a].id /\ objects_'[a].obj = objects_[a].obj
      BY <2>1 DEF SameRecord
    <3>2. /\ objects_[a].obj = serial[a]
          /\ refs[a] # {} => Hooked(a, "Release")
          /\ refs[a] = {} => InReleaseWindow(a)
      BY <1>c, <3>1 DEF RecordsTracked
    <3>3. serial'[a] = serial[a] /\ vt'[a] = vt[a]
      BY <1>d, <3>2 DEF Keeps
    <3>4. refs[a] # {} => Hooked(a, "Release")'
      <4>1. vt[a] \in VTable
        BY <1>a
      <4>2. QED
        BY <3>2, <3>3, <4>1 DEF Hooked
    <3>5. refs[a] = {} => refs'[a] = {}
      BY <1>b, <1>d, <3>2, SMT DEF RefStep, Undisturbed
    <3>6. refs[a] = {} => InReleaseWindow(a)'
      <4> SUFFICES ASSUME refs[a] = {} PROVE InReleaseWindow(a)'
        OBVIOUS
      <4>1. PICK u \in Thread : call[u].pc = "erase" /\ call[u].self = a
        BY <3>2 DEF InReleaseWindow
      <4>2. call'[u] = call[u]
        BY <4>1
      <4>3. QED
        BY <4>1, <4>2 DEF InReleaseWindow
    <3>7. refs[a] # {} /\ refs'[a] = {} => InReleaseWindow(a)'
      BY <3>2 DEF InReleaseWindow
    <3>8. QED
      BY <3>1, <3>2, <3>3, <3>4, <3>5, <3>6, <3>7
  <2>2. CASE Erases(t, a)
    BY <2>2 DEF Erases
  <2>3. CASE refs'[a] = {t} /\ objects_'[a].obj = serial'[a] /\ Hooked(a, "Release")'
    BY <2>3
  <2>4. QED
    BY <2>1, <2>2, <2>3
<1>3. \A k, d : /\ Sent(pipe, k, d) => Sent(pipe, k, d)'
                /\ Sent(log, k, d) => Sent(log, k, d)'
  <2>1. pipe' = pipe \/ pipe' = Append(pipe, call[t].ev)
    OBVIOUS
  <2>2. log' = log \/ log' = Append(log, call[t].ev)
    OBVIOUS
  <2>3. \A k, d : Sent(pipe, k, d) => Sent(pipe', k, d)
    BY <1>a, <2>1, GrowSent
  <2>4. \A k, d : Sent(log, k, d) => Sent(log', k, d)
    BY <1>a, <2>2, GrowSent
  <2>5. QED
    BY <2>3, <2>4
<1>4. \A d, o : d # 0 /\ Fate(d, o) => Fate(d, o)'
  <2>1. \A a \in Addr : objects_[a].id # 0 => SameRecord(a) \/ Erases(t, a)
    OBVIOUS
  <2>2. QED
    BY <1>3, <1>d, <2>1, FatesStay
<1>5. \A u \in Thread : RegistersFresh(u)'
  <2> SUFFICES ASSUME NEW u \in Thread \ {t} PROVE RegistersFresh(u)'
    BY <1>4
  <2>1. call'[u] = call[u] /\ RegistersFresh(u) /\ FrameOK(u)
    BY <1>c DEF LifeInv
  <2> DEFINE Stage == {"SetPrivateData", "SetName", "emplace", "fetch", "insert"}
  <2>2. ASSUME call[u].pc \in RegisterPC
        PROVE  call[u].self \in Addr /\ refs[call[u].self] = {u}
    <3>1. Registering(u) /\ call[u].pc # "idle"
      BY <2>2 DEF Registering, RegisterPC, PatchPC
    <3>2. QED
      BY <1>a, <1>b, <2>1, <3>1 DEF FrameOK
  <2>3. ASSUME call[u].pc \in Stage
        PROVE  Hooked(call[u].self, "Release")'
    <3>1. call[u].pc \in RegisterPC
      BY <2>3 DEF RegisterPC, PatchPC
    <3>2. Hooked(call[u].self, "Release")
      BY <2>1, <2>3 DEF RegistersFresh
    <3>3. call[u].self \in Addr /\ vt'[call[u].self] = vt[call[u].self]
      BY <1>d, <2>2, <3>1 DEF Keeps
    <3>4. vt[call[u].self] \in VTable
      BY <1>a, <3>3
    <3>5. QED
      BY <2>1, <3>2, <3>3, <3>4 DEF Hooked
  <2>4. ASSUME call[u].pc \in RegisterPC
        PROVE  objects_'[call[u].self].id = 0
    <3>1. objects_[call[u].self].id = 0
      BY <2>1, <2>4 DEF RegistersFresh
    <3>2. call[u].self \in Addr /\ refs[call[u].self] # {t}
      BY <2>2, <2>4
    <3>3. QED
      BY <3>1, <3>2 DEF SameRecord, Erases
  <2>5. ASSUME call[u].pc \in {"pipe", "log"}, call[u].ev.kind = "Created"
        PROVE  call[u].ev.id # 0 /\ Fate(call[u].ev.id, call[u].ev.obj)'
    <3>1. call[u].ev.id # 0 /\ Fate(call[u].ev.id, call[u].ev.obj)
      BY <2>1, <2>5 DEF RegistersFresh
    <3> DEFINE d == call[u].ev.id
               o == call[u].ev.obj
    <3>2. call'[u].ev.id = d /\ call'[u].ev.obj = o
      BY <2>1
    <3>3. d # 0 /\ Fate(d, o)
      BY <3>1
    <3> HIDE DEF d, o
    <3>4. ASSUME NEW x, NEW y, x # 0, Fate(x, y), call'[u].ev.id = x, call'[u].ev.obj = y
          PROVE  Fate(call[u].ev.id, call[u].ev.obj)'
      BY <1>4, <3>4
    <3>5. QED
      BY <3>1, <3>2, <3>3, <3>4
  <2>6. QED
    BY <2>1, <2>3, <2>4, <2>5 DEF RegistersFresh
<1>6. Fated(pipe)' /\ Fated(log)'
  <2> DEFINE G == {p \in Nat \X Nat : Fate(p[1], p[2])'}
             Good(s) == \A i \in 1..Len(s) : s[i].kind = "Created" =>
                          s[i].id # 0 /\ <<s[i].id, s[i].obj>> \in G
  <2>1. ASSUME NEW d \in Nat, NEW o \in Nat, d # 0, Fate(d, o)
        PROVE  <<d, o>> \in G
    <3>1. Fate(d, o)'
      BY <1>4, <2>1
    <3>2. QED
      BY <3>1
  <2>2. ASSUME NEW d, NEW o, <<d, o>> \in G
        PROVE  Fate(d, o)'
    BY <2>2
  <2> HIDE DEF G
  <2>3. ASSUME NEW s \in Seq(Event), Fated(s)
        PROVE  Good(s)
    <3> SUFFICES ASSUME NEW i \in 1..Len(s), s[i].kind = "Created"
                 PROVE  s[i].id # 0 /\ <<s[i].id, s[i].obj>> \in G
      OBVIOUS
    <3>1. s[i].id # 0 /\ Fate(s[i].id, s[i].obj)
      BY <2>3 DEF Fated
    <3>2. s[i].id \in Nat /\ s[i].obj \in Nat
      <4>1. s[i] \in Event
        OBVIOUS
      <4>2. QED
        BY <4>1 DEF Event
    <3>3. QED
      BY <2>1, <3>1, <3>2
  <2> DEFINE ev == call[t].ev
  <2>4. call[t].pc \in {"pipe", "log"} /\ ev.kind = "Created" =>
          ev.id # 0 /\ <<ev.id, ev.obj>> \in G
    <3>1. ev.id \in Nat /\ ev.obj \in Nat /\ RegistersFresh(t)
      BY <1>a, <1>c DEF Event
    <3>2. QED
      BY <2>1, <3>1 DEF RegistersFresh
  <2>5. ev \in Event
    BY <1>a
  <2> HIDE DEF ev
  <2>6. ASSUME NEW s \in Seq(Event), Good(s), NEW r,
               r = s \/ (call[t].pc \in {"pipe", "log"} /\ r = Append(s, ev))
        PROVE  Good(r)
    BY <2>4, <2>5, <2>6, AppendFated
  <2>7. Good(pipe') /\ Good(log')
    <3>1. Good(pipe) /\ Good(log)
      BY <1>a, <1>c, <2>3
    <3>2. /\ pipe' = pipe \/ (call[t].pc \in {"pipe", "log"} /\ pipe' = Append(pipe, ev))
          /\ log' = log \/ (call[t].pc \in {"pipe", "log"} /\ log' = Append(log, ev))
      BY DEF ev
    <3> HIDE DEF Good
    <3>3. QED
      BY <1>a, <2>6, <3>1, <3>2
  <2>8. QED
    BY <2>2, <2>7 DEF Fated
<1>7. QED
  BY <1>1, <1>2, <1>5, <1>6, <1>d DEF SettleInv

\* What the application may start.
LEMMA AppStepSettle ==
  ASSUME PatchInv, DeathInv, LifeInv, SettleInv, NEW t \in Thread, AppStep(t), Undisturbed'
  PROVE  SettleInv'
<1> DEFINE Frames == \A u \in Thread \ {t} : call'[u] = call[u]
           Calm == {"idle", "relLookup", "residency", "nameLookup", "spdCall"}
           Dying == \A a \in Addr : refs[a] # {} /\ refs'[a] = {} => ~Hooked(a, "Release")
<1>a. /\ call \in [Thread -> Frame] /\ refs \in [Addr -> SUBSET Thread] /\ TypeInv
  BY DEF PatchInv, TypeInv, TypeOK
<1>b. UNCHANGED <<objects_, pipe, log, slot, vtable_patches_>> /\ call[t] = Idle
  BY DEF AppStep, RuntimeCreate, HookCreate, HookCreateShared, ReleaseUnhooked,
     HookRelease, CallSetResidencyPriority, AddRef, CallSetName,
     CallSetPrivateData, patchVars, trackVars, sinkVars
<1>c. /\ Idle.pc = "idle"
      /\ Calm \cap (RegisterPC \cup {"erase", "pipe", "log"}) = {}
      /\ {"SetPrivateData", "SetName", "emplace", "fetch", "insert"} \subseteq RegisterPC
  BY DEF Idle, RegisterPC, PatchPC
<1>d. ASSUME CleanStep(t), Frames, Dying, RegistersFresh(t)'
      PROVE  SettleInv'
  <2>1. \A a \in Addr : SameRecord(a)
    BY <1>b DEF SameRecord
  <2>2. call[t].pc # "erase" /\ ~Destroying(t)
    BY <1>b, <1>c DEF Destroying
  <2>3. \A v \in VTable :
          /\ slot[v]["Release"] = "hook" => slot'[v]["Release"] = "hook"
          /\ vtable_patches_'[v] = vtable_patches_[v]
    BY <1>b
  <2>4. QED
    BY <1>a, <1>b, <1>d, <2>1, <2>2, <2>3, SettleStep
<1>e. ASSUME CleanStep(t), Frames, Dying, call'[t].pc \in Calm
      PROVE  SettleInv'
  <2>1. RegistersFresh(t)'
    BY <1>c, <1>e DEF RegistersFresh
  <2>2. QED
    BY <1>d, <1>e, <2>1
<1>1. ASSUME NEW a \in Addr, NEW v \in VTable, RuntimeCreate(t, a, v)
      PROVE  SettleInv'
  <2>1. Allocate(t, a, v) /\ call' = call
    BY <1>1 DEF RuntimeCreate
  <2>2. CleanStep(t) /\ refs' = [refs EXCEPT ![a] = {t}]
    BY <2>1 DEF CleanStep, Allocate, Observe
  <2>3. Dying
    BY <1>a, <2>2
  <2>4. QED
    BY <1>b, <1>c, <1>e, <2>1, <2>2, <2>3
<1>2. ASSUME NEW a \in Addr, NEW v \in VTable, NEW h \in Addr \cup {NoAddr},
             HookCreate(t, a, v, h)
      PROVE  SettleInv'
  <2> DEFINE p == IF h = NoAddr THEN "patch" ELSE "heapid"
             f == [Idle EXCEPT !.pc = p, !.self = a, !.heap = h,
                               !.ev = CreatedEvent(a, born + 1)]
  <2>1. f.pc = p /\ f.self = a
    BY DEF Idle
  <2>2. Become(t, f) /\ Allocate(t, a, v)
    BY <1>2 DEF HookCreate
  <2> HIDE DEF f
  <2>3. call'[t] = f /\ Frames
    BY <1>a, <2>2 DEF Become
  <2>4. CleanStep(t) /\ refs' = [refs EXCEPT ![a] = {t}]
    BY <2>2 DEF CleanStep, Allocate, Observe
  <2>5. Dying
    BY <1>a, <2>4
  <2>6. refs[a] = {} /\ ~InReleaseWindow(a)
    BY <2>2 DEF Allocate, Observe, Undisturbed
  <2>7. objects_'[a].id = 0
    <3>1. Undisturbed
      BY <2>4 DEF CleanStep, Undisturbed
    <3>2. QED
      BY <1>b, <2>6, <3>1 DEF SettleInv, RecordsTracked
  <2>8. RegistersFresh(t)'
    BY <2>1, <2>3, <2>7 DEF RegistersFresh
  <2>9. QED
    BY <1>d, <2>3, <2>4, <2>5, <2>8
<1>3. ASSUME NEW a \in Addr, HookCreateShared(t, a)
      PROVE  SettleInv'
  BY <1>3 DEF HookCreateShared, Observe, Undisturbed
<1>4. ASSUME NEW a \in Addr, NEW u \in Thread, ReleaseUnhooked(t, a) \/ AddRef(t, u, a)
      PROVE  SettleInv'
  <2>1. UNCHANGED <<call, seen>> /\ t \in refs[a]
    BY <1>4 DEF ReleaseUnhooked, AddRef
  <2>2. CASE ReleaseUnhooked(t, a)
    <3>1. RealRelease(t, a) /\ ~Hooked(a, "Release")
      BY <2>2 DEF ReleaseUnhooked
    <3>2. CleanStep(t)
      BY <2>1, <3>1 DEF CleanStep
    <3>3. Dying
      BY <1>a, <3>1 DEF RealRelease
    <3>4. QED
      BY <1>b, <1>c, <1>e, <2>1, <3>2, <3>3
  <2>3. CASE AddRef(t, u, a)
    <3>1. /\ refs' = [refs EXCEPT ![a] = @ \cup {u}]
          /\ UNCHANGED <<vt, serial, born, dead>>
      BY <2>3 DEF AddRef
    <3>2. CleanStep(t)
      BY <2>1, <3>1 DEF CleanStep
    <3>3. Dying
      BY <1>a, <3>1
    <3>4. QED
      BY <1>b, <1>c, <1>e, <2>1, <3>2, <3>3
  <2>4. QED
    BY <1>4, <2>2, <2>3
<1>5. ASSUME NEW a \in Addr, NEW n \in AnyName,
             \/ HookRelease(t, a) \/ CallSetResidencyPriority(t, a)
             \/ CallSetName(t, a, n) \/ CallSetPrivateData(t, a, n)
      PROVE  SettleInv'
  <2>1. UNCHANGED <<refs, vt, serial, born, dead>> /\ seen \subseteq seen'
    BY <1>5 DEF HookRelease, CallSetResidencyPriority, CallSetName, CallSetPrivateData,
       Observe, runtimeVars
  <2>2. CleanStep(t) /\ Dying
    BY <2>1 DEF CleanStep
  <2>3. PICK f : Become(t, f) /\ f.pc \in Calm
    <3>1. CASE HookRelease(t, a)
      <4>1. [Idle EXCEPT !.pc = "relLookup", !.self = a].pc = "relLookup"
        BY DEF Idle
      <4>2. QED
        BY <3>1, <4>1 DEF HookRelease
    <3>2. CASE CallSetResidencyPriority(t, a)
      <4>1. [Idle EXCEPT !.pc = "residency", !.self = a].pc = "residency"
        BY DEF Idle
      <4>2. QED
        BY <3>2, <4>1 DEF CallSetResidencyPriority
    <3>3. CASE CallSetName(t, a, n)
      <4> DEFINE p == IF Hooked(a, "SetName") THEN "nameLookup" ELSE "spdCall"
                 f == [Idle EXCEPT !.pc = p, !.self = a, !.name = n,
                                   !.outer = Hooked(a, "SetName")]
      <4>1. f.pc = p
        BY DEF Idle
      <4>2. Become(t, f)
        BY <3>3 DEF CallSetName
      <4> HIDE DEF f
      <4>3. QED
        BY <4>1, <4>2
    <3>4. CASE CallSetPrivateData(t, a, n)
      <4>1. [Idle EXCEPT !.pc = "spdCall", !.self = a, !.name = n].pc = "spdCall"
        BY DEF Idle
      <4>2. QED
        BY <3>4, <4>1 DEF CallSetPrivateData
    <3>5. QED
      BY <1>5, <3>1, <3>2, <3>3, <3>4
  <2>4. call'[t] = f /\ Frames
    BY <1>a, <2>3 DEF Become
  <2>5. QED
    BY <1>e, <2>2, <2>3, <2>4
<1>6. NoName \in AnyName
  BY DEF AnyName
<1>7. QED
  BY <1>1, <1>2, <1>3, <1>4, <1>5, <1>6 DEF AppStep

\* The rest of a call that has started.
LEMMA HookStepSettle ==
  ASSUME PatchInv, DeathInv, IdInv, LifeInv, SettleInv, NEW t \in Thread, HookStep(t),
         Undisturbed'
  PROVE  SettleInv'
<1> DEFINE Frames == \A u \in Thread \ {t} : call'[u] = call[u]
           Sinks == UNCHANGED <<pipe, log>>
           Objects == UNCHANGED <<refs, vt, serial, born, dead>>
           Vtables == UNCHANGED <<slot, vtable_patches_>>
           Records == \A a \in Addr : SameRecord(a)
           self == call[t].self
           ev == call[t].ev
           Calm == {"idle", "relReal", "spdCall", "spdLookup", "spdReal", "onSetName", "outer"}
           Stage == {"SetPrivateData", "SetName", "emplace", "fetch", "insert"}
<1>a. /\ call \in [Thread -> Frame] /\ refs \in [Addr -> SUBSET Thread] /\ TypeInv
      /\ objects_ \in [Addr -> Record] /\ pipe \in Seq(Event) /\ log \in Seq(Event)
      /\ vt \in [Addr -> VTable]
      /\ slot \in [VTable -> [Slot -> {"real", "hook"}]]
      /\ vtable_patches_ \in [VTable -> [Slot -> {"absent", "real", "null"}]]
      /\ dead \subseteq Nat
  BY DEF PatchInv, TypeInv, TypeOK
<1>b. /\ call[t] \in Frame /\ ev \in Event
      /\ call[t].pc # "idle" => self \in Addr /\ vt[self] \in VTable
  BY <1>a DEF TypeInv, CallOK, Frame
<1>c. /\ Stage \subseteq RegisterPC
      /\ RegisterPC \cap {"erase", "pipe", "log"} = {}
      /\ Calm \cap (RegisterPC \cup {"erase", "pipe", "log"}) = {}
  BY DEF RegisterPC, PatchPC
<1>d. ASSUME seen \subseteq seen'
      PROVE  /\ Undisturbed /\ Orderly /\ SerialsUnique /\ PatchedAreHooked /\ RecordsTracked
             /\ \A u \in Thread : RegistersFresh(u)
             /\ "reuse" \notin seen
  BY <1>d DEF Undisturbed, Orderly, SettleInv
<1>e. seen \subseteq seen' /\ Objects => CleanStep(t)
  BY DEF CleanStep
<1>f. \A p : Goto(t, p) =>
        call'[t].pc = p /\ call'[t].self = self /\ call'[t].ev = ev /\ Frames
  BY <1>a, GotoFields
\* Steps that change no slot but to a hook, no record and nothing about objects,
\* and are not about an event or an erasure.
<1>g. ASSUME seen \subseteq seen', Objects, Sinks, Records, Frames,
             \A v \in VTable : slot[v]["Release"] = "hook" => slot'[v]["Release"] = "hook",
             \A v \in VTable : \/ vtable_patches_'[v] = vtable_patches_[v]
                               \/ slot'[v]["Release"] = "hook",
             call[t].pc \notin {"erase", "pipe", "log"},
             RegistersFresh(t)'
      PROVE  SettleInv'
  <2>1. ~Destroying(t)
    BY <1>g DEF Destroying
  <2>2. \A a \in Addr : refs[a] # {} => refs'[a] # {}
    BY <1>g
  <2>3. QED
    BY <1>a, <1>e, <1>g, <2>1, <2>2, SettleStep
\* ... after which t does not register anything.
<1>h. ASSUME seen \subseteq seen', Objects, Sinks, Records, Frames, Vtables,
             call[t].pc \notin {"erase", "pipe", "log"},
             \/ call'[t].pc \in Calm
             \/ call'[t].pc = "pipe" /\ call'[t].ev.kind # "Created"
      PROVE  SettleInv'
  <2>1. RegistersFresh(t)'
    BY <1>c, <1>h DEF RegistersFresh
  <2>2. QED
    BY <1>g, <1>h, <2>1
\* ... after which t registers the object that it did before.
<1>i. ASSUME seen \subseteq seen', Objects, Sinks, UNCHANGED objects_, Frames,
             \A v \in VTable : slot[v]["Release"] = "hook" => slot'[v]["Release"] = "hook",
             \A v \in VTable : \/ vtable_patches_'[v] = vtable_patches_[v]
                               \/ slot'[v]["Release"] = "hook",
             call[t].pc \in RegisterPC, call'[t].pc \in RegisterPC, call'[t].self = self,
             call'[t].pc \in Stage => call[t].pc \in Stage \/ slot'[vt[self]]["Release"] = "hook"
      PROVE  SettleInv'
  <2>1. RegistersFresh(t) /\ self \in Addr /\ vt[self] \in VTable
    <3>1. call[t].pc # "idle"
      BY <1>i DEF RegisterPC, PatchPC
    <3>2. QED
      BY <1>b, <1>d, <1>i, <3>1
  <2>2. call'[t].pc \in Stage => Hooked(call[t].self, "Release")'
    BY <1>i, <2>1 DEF RegistersFresh, Hooked
  <2>3. objects_'[call'[t].self].id = 0
    BY <1>i, <2>1 DEF RegistersFresh
  <2>4. RegistersFresh(t)'
    BY <1>c, <1>i, <2>2, <2>3 DEF RegistersFresh
  <2>5. Records
    BY <1>i DEF SameRecord
  <2>6. call[t].pc \notin {"erase", "pipe", "log"}
    BY <1>c, <1>i
  <2>7. QED
    BY <1>g, <1>i, <2>4, <2>5, <2>6
<1>1. CASE LookupHeapId(t)
  <2> DEFINE e == [ev EXCEPT !.ref = objects_[call[t].heap].id]
             f == [call[t] EXCEPT !.pc = "patch", !.ev = e]
  <2>1. f.pc = "patch" /\ f.self = self
    BY <1>b DEF Frame
  <2>2. /\ Become(t, f) /\ call[t].pc = "heapid"
        /\ seen \subseteq seen' /\ Objects /\ Sinks /\ Vtables /\ objects_' = objects_
    BY <1>1 DEF LookupHeapId, runtimeVars, patchVars, trackVars, sinkVars
  <2> HIDE DEF f
  <2>3. call'[t] = f /\ Frames
    BY <2>2, <1>a DEF Become
  <2>4. call[t].pc \in RegisterPC /\ call'[t].pc \in RegisterPC \ Stage
    BY <2>1, <2>2, <2>3 DEF RegisterPC
  <2>5. QED
    BY <1>i, <2>1, <2>2, <2>3, <2>4
<1>2. CASE PatchVTableIfNew(t)
  <2>1. /\ call[t].pc = "patch" /\ UNCHANGED <<slot, vtable_patches_>>
        /\ seen \subseteq seen' /\ Objects /\ Sinks /\ objects_' = objects_
    BY <1>2 DEF PatchVTableIfNew, runtimeVars, trackVars, sinkVars
  <2>2. call[t].pc \in RegisterPC /\ self \in Addr /\ vt[self] \in VTable
    BY <1>b, <2>1 DEF RegisterPC
  <2>3. CASE vtable_patches_[vt[self]] # Unpatched /\ Goto(t, "fetch")
    <3>1. slot'[vt[self]]["Release"] = "hook"
      BY <1>d, <2>1, <2>2, <2>3 DEF PatchedAreHooked
    <3>2. call'[t].pc \in RegisterPC /\ call'[t].self = self /\ Frames
      BY <1>f, <2>3 DEF RegisterPC
    <3>3. QED
      BY <1>i, <2>1, <2>2, <3>1, <3>2
  <2>4. CASE Goto(t, "Release")
    <3>1. call'[t].pc \in RegisterPC \ Stage /\ call'[t].self = self /\ Frames
      BY <1>f, <2>4 DEF RegisterPC, PatchPC
    <3>2. QED
      BY <1>i, <2>1, <2>2, <3>1
  <2>5. QED
    BY <1>2, <2>3, <2>4 DEF PatchVTableIfNew
<1>3. ASSUME NEW s \in Slot, PatchSlot(t, s)
      PROVE  SettleInv'
  <2>1. /\ call[t].pc = s /\ Goto(t, AfterSlot(s))
        /\ slot' = [slot EXCEPT ![vt[self]][s] = "hook"]
        /\ vtable_patches_' = vtable_patches_
        /\ seen \subseteq seen' /\ Objects /\ Sinks /\ objects_' = objects_
    BY <1>3 DEF PatchSlot, Observe, Undisturbed, runtimeVars, trackVars, sinkVars
  <2>2. call[t].pc \in RegisterPC /\ self \in Addr /\ vt[self] \in VTable
    BY <1>b, <2>1 DEF RegisterPC, PatchPC, Slot
  <2>3. call'[t].pc = AfterSlot(s) /\ call'[t].self = self /\ Frames
    BY <1>f, <2>1
  <2>4. AfterSlot(s) \in RegisterPC
    BY DEF AfterSlot, Slot, RegisterPC, PatchPC
  <2>5. /\ \A v \in VTable : slot[v]["Release"] = "hook" => slot'[v]["Release"] = "hook"
        /\ s = "Release" => slot'[vt[self]]["Release"] = "hook"
    <3>1. "Release" \in Slot
      BY DEF Slot
    <3>2. QED
      BY <1>a, <2>1, <2>2, <3>1
  <2>6. s \in Stage \/ s = "Release"
    BY DEF Slot
  <2>7. QED
    BY <1>i, <2>1, <2>2, <2>3, <2>4, <2>5, <2>6
<1>4. CASE Emplace(t)
  <2> DEFINE m == [s \in Slot |-> Unselfref(cap[s])]
  <2>1. /\ call[t].pc = "emplace" /\ Goto(t, "fetch") /\ slot' = slot
        /\ vtable_patches_' = [vtable_patches_ EXCEPT ![vt[self]] = m]
        /\ seen \subseteq seen' /\ Objects /\ Sinks /\ objects_' = objects_
    BY <1>4 DEF Emplace, runtimeVars, trackVars, sinkVars
  <2> HIDE DEF m
  <2>2. call[t].pc \in RegisterPC /\ self \in Addr /\ vt[self] \in VTable
    BY <1>b, <2>1 DEF RegisterPC, PatchPC
  <2>3. call'[t].pc = "fetch" /\ call'[t].self = self /\ Frames /\ "fetch" \in RegisterPC
    BY <1>f, <2>1 DEF RegisterPC
  <2>4. slot[vt[self]]["Release"] = "hook"
    BY <1>d, <2>1 DEF RegistersFresh, Hooked
  <2>5. \A v \in VTable : \/ vtable_patches_'[v] = vtable_patches_[v]
                          \/ slot'[v]["Release"] = "hook"
    BY <1>a, <2>1, <2>2, <2>4
  <2>6. QED
    BY <1>i, <2>1, <2>2, <2>3, <2>5
<1>5. CASE FetchId(t)
  <2> DEFINE e == [ev EXCEPT !.id = next_id_]
             f == [call[t] EXCEPT !.pc = "insert", !.ev = e]
  <2>1. f.pc = "insert" /\ f.self = self
    BY <1>b DEF Frame
  <2>2. /\ Become(t, f) /\ call[t].pc = "fetch"
        /\ seen \subseteq seen' /\ Objects /\ Sinks /\ Vtables /\ objects_' = objects_
    BY <1>5 DEF FetchId, runtimeVars, patchVars, trackVars, sinkVars
  <2> HIDE DEF f
  <2>3. call'[t] = f /\ Frames
    BY <2>2, <1>a DEF Become
  <2>4. call[t].pc \in RegisterPC /\ call'[t].pc \in RegisterPC /\ call[t].pc \in Stage
    BY <2>1, <2>2, <2>3 DEF RegisterPC
  <2>5. QED
    BY <1>i, <2>1, <2>2, <2>3, <2>4
<1>6. CASE Insert(t)
  <2> DEFINE r == [id |-> ev.id, name |-> NoName, obj |-> ev.obj]
  <2>1. /\ call[t].pc = "insert" /\ Goto(t, "pipe") /\ self \in Addr /\ vt[self] \in VTable
        /\ seen \subseteq seen' /\ Objects /\ Sinks /\ Vtables
        /\ objects_' = [objects_ EXCEPT ![self] = r]
    BY <1>6, <1>b DEF Insert, runtimeVars, patchVars, sinkVars
  <2>2. ev.kind = "Created" /\ ev.obj = serial[self]
    BY <2>1 DEF DeathInv, RegistersItsObject, RegisterPC
  <2>3. call'[t].pc = "pipe" /\ call'[t].ev = ev /\ Frames
    BY <1>f, <2>1
  <2>4. /\ \A a \in Addr \ {self} : SameRecord(a)
        /\ objects_'[self].id = ev.id /\ objects_'[self].obj = ev.obj
    BY <1>a, <2>1 DEF SameRecord
  <2>5. objects_[self].id = 0 /\ Hooked(self, "Release") /\ Orderly
    BY <1>d, <2>1 DEF RegistersFresh, RegisterPC
  <2>6. refs[self] = {t}
    <3>1. Registering(t) /\ FrameOK(t)
      BY <2>1 DEF Registering, RegisterPC, LifeInv
    <3>2. QED
      BY <2>5, <3>1 DEF FrameOK
  <2>7. /\ refs'[self] = {t} /\ objects_'[self].obj = serial'[self]
        /\ slot'[vt'[self]]["Release"] = "hook"
    BY <2>1, <2>2, <2>4, <2>5, <2>6 DEF Hooked
  <2>8. ev.id # 0
    BY <2>1 DEF IdInv, IdsIssued, Inserting
  <2>9. RegistersFresh(t)'
    <3>1. \E a \in Addr : objects_'[a].id = call'[t].ev.id /\ objects_'[a].obj = call'[t].ev.obj
      BY <2>1, <2>3, <2>4
    <3>2. Fate(call[t].ev.id, call[t].ev.obj)'
      BY <3>1 DEF Fate
    <3>3. call'[t].pc \notin RegisterPC \cup Stage
      BY <1>c, <2>3
    <3>4. QED
      BY <2>3, <2>8, <3>2, <3>3 DEF RegistersFresh
  <2>10. call[t].pc # "erase" /\ ~Destroying(t) /\ (\A a \in Addr : refs[a] # {} => refs'[a] # {})
    BY <2>1 DEF Destroying
  <2>11. \A v \in VTable :
           /\ slot[v]["Release"] = "hook" => slot'[v]["Release"] = "hook"
           /\ vtable_patches_'[v] = vtable_patches_[v]
    BY <2>1
  <2>12. CleanStep(t) /\ pipe' = pipe /\ log' = log
    BY <1>e, <2>1
  <2>13. \A a \in Addr :
           \/ SameRecord(a)
           \/ Erases(t, a)
           \/ /\ objects_[a].id = 0 /\ refs'[a] = {t} /\ refs[a] = {t}
              /\ objects_'[a].obj = serial'[a] /\ Hooked(a, "Release")'
    <3>1. ASSUME NEW a \in Addr, a = self
          PROVE  Hooked(a, "Release")'
      BY <2>7, <3>1 DEF Hooked
    <3>2. QED
      BY <2>4, <2>5, <2>6, <2>7, <3>1
  <2>14. QED
    BY <1>a, <2>3, <2>9, <2>10, <2>11, <2>12, <2>13, SettleStep
<1>7. CASE EmitPipe(t)
  <2>1. /\ call[t].pc = "pipe" /\ Goto(t, "log") /\ pipe' = Append(pipe, ev) /\ log' = log
        /\ seen \subseteq seen' /\ Objects /\ Vtables /\ objects_' = objects_
    BY <1>7 DEF EmitPipe, runtimeVars, patchVars, trackVars
  <2>2. call'[t].pc = "log" /\ call'[t].ev = ev /\ Frames
    BY <1>f, <2>1
  <2>3. Destroying(t) => Sent(pipe', "Destroyed", ev.id)
    BY <1>a, <1>b, <2>1, AppendSent DEF Destroying
  <2>4. (\A d, o : d # 0 /\ Fate(d, o) => Fate(d, o)') => RegistersFresh(t)'
    <3> SUFFICES ASSUME \A d, o : d # 0 /\ Fate(d, o) => Fate(d, o)'
                 PROVE  RegistersFresh(t)'
      OBVIOUS
    <3>1. ev.kind = "Created" => ev.id # 0 /\ Fate(ev.id, ev.obj)
      BY <1>d, <2>1 DEF RegistersFresh
    <3>2. ASSUME NEW d, NEW o, d # 0, Fate(d, o), call'[t].ev.id = d, call'[t].ev.obj = o
          PROVE  Fate(call[t].ev.id, call[t].ev.obj)'
      BY <3>2
    <3>3. call'[t].ev.kind = "Created" =>
            call'[t].ev.id # 0 /\ Fate(call[t].ev.id, call[t].ev.obj)'
      BY <2>2, <3>1, <3>2
    <3>4. QED
      BY <1>c, <2>2, <3>3 DEF RegistersFresh
  <2>5. /\ call[t].pc # "erase" /\ (\A a \in Addr : refs[a] # {} => refs'[a] # {})
        /\ \A a \in Addr : SameRecord(a)
    BY <2>1 DEF SameRecord
  <2>6. \A v \in VTable :
           /\ slot[v]["Release"] = "hook" => slot'[v]["Release"] = "hook"
           /\ vtable_patches_'[v] = vtable_patches_[v]
    BY <2>1
  <2>7. QED
    BY <1>a, <1>e, <2>1, <2>2, <2>3, <2>4, <2>5, <2>6, SettleStep
<1>8. CASE EmitLog(t)
  <2>1. /\ call[t].pc = "log" /\ log' = Append(log, ev) /\ pipe' = pipe
        /\ seen \subseteq seen' /\ Objects /\ Vtables /\ objects_' = objects_
        /\ IF call[t].next = "idle" THEN Return(t) ELSE Goto(t, call[t].next)
    BY <1>8 DEF EmitLog, runtimeVars, patchVars, trackVars
  <2>2. call'[t].pc \in Calm /\ Frames
    <3>1. call[t].next \in {"idle", "outer"}
      BY <1>b DEF Frame
    <3>2. QED
      BY <1>a, <2>1, <3>1, GotoFields, ReturnFields
  <2>3. Destroying(t) => Sent(log', "Destroyed", ev.id)
    BY <1>a, <1>b, <2>1, AppendSent DEF Destroying
  <2>4. RegistersFresh(t)'
    BY <1>c, <2>2 DEF RegistersFresh
  <2>5. /\ call[t].pc # "erase" /\ (\A a \in Addr : refs[a] # {} => refs'[a] # {})
        /\ \A a \in Addr : SameRecord(a)
    BY <2>1 DEF SameRecord
  <2>6. \A v \in VTable :
           /\ slot[v]["Release"] = "hook" => slot'[v]["Release"] = "hook"
           /\ vtable_patches_'[v] = vtable_patches_[v]
    BY <2>1
  <2>7. QED
    BY <1>a, <1>e, <2>1, <2>2, <2>3, <2>4, <2>5, <2>6, SettleStep
<1>9. CASE \/ ReleaseLookup(t) \/ SetNameLookup(t) \/ SetPrivateDataLookup(t)
           \/ SetPrivateDataDispatch(t) \/ HookSetPrivateData(t)
  <2>1. /\ seen \subseteq seen' /\ Objects /\ Sinks /\ Vtables /\ objects_' = objects_
        /\ call[t].pc \in {"relLookup", "nameLookup", "spdCall", "spdLookup", "spdReal"}
    BY <1>9 DEF ReleaseLookup, SetNameLookup, SetPrivateDataLookup, SetPrivateDataDispatch,
       HookSetPrivateData, RealSetPrivateData, runtimeVars, patchVars, trackVars, sinkVars
  <2>2. Return(t) \/ \E p \in Calm : Goto(t, p)
    BY <1>9 DEF ReleaseLookup, SetNameLookup, SetPrivateDataLookup, SetPrivateDataDispatch,
       HookSetPrivateData, AfterSetPrivateData
  <2>3. call'[t].pc \in Calm /\ Frames
    BY <1>a, <2>2, GotoFields, ReturnFields
  <2>4. Records
    BY <2>1 DEF SameRecord
  <2>5. QED
    BY <1>h, <2>1, <2>3, <2>4
<1>10. CASE ReleaseReal(t)
  <2>1. /\ call[t].pc = "relReal" /\ self \in Addr /\ RealRelease(t, self)
        /\ seen' = seen /\ Sinks /\ Vtables /\ objects_' = objects_
        /\ IF refs[self] = {t} THEN Goto(t, "erase") ELSE Return(t)
    BY <1>10, <1>b DEF ReleaseReal, patchVars, trackVars, sinkVars
  <2>2. t \in refs[self] /\ CleanStep(t)
    <3>1. t \in refs[self]
      BY <2>1 DEF PatchInv, Held, HeldPC, PC
    <3>2. QED
      BY <2>1, <3>1 DEF CleanStep
  <2>3. Frames /\ call'[t].pc \in {"idle", "erase"}
    BY <1>a, <2>1, GotoFields, ReturnFields
  <2>4. \A a \in Addr : refs[a] # {} /\ refs'[a] = {} =>
          call'[t].pc = "erase" /\ call'[t].self = a
    <3>1. refs' = [refs EXCEPT ![self] = @ \ {t}]
      BY <2>1 DEF RealRelease
    <3>2. refs[self] = {t} => call'[t].pc = "erase" /\ call'[t].self = self
      BY <1>f, <2>1
    <3>3. QED
      BY <1>a, <2>1, <2>2, <3>1, <3>2
  <2>5. RegistersFresh(t)'
    BY <1>c, <2>3 DEF RegistersFresh, RegisterPC, PatchPC
  <2>6. /\ call[t].pc # "erase" /\ ~Destroying(t)
        /\ \A a \in Addr : SameRecord(a)
    BY <2>1 DEF SameRecord, Destroying
  <2>7. \A v \in VTable :
           /\ slot[v]["Release"] = "hook" => slot'[v]["Release"] = "hook"
           /\ vtable_patches_'[v] = vtable_patches_[v]
    BY <2>1
  <2>8. QED
    BY <1>a, <2>1, <2>2, <2>3, <2>4, <2>5, <2>6, <2>7, SettleStep
<1>11. CASE OnReleaseToZero(t)
  <2> DEFINE r == objects_[self]
  <2>1. /\ call[t].pc = "erase" /\ self \in Addr
        /\ seen \subseteq seen' /\ Objects /\ Sinks /\ Vtables
    BY <1>11, <1>b DEF OnReleaseToZero, runtimeVars, patchVars, sinkVars
  <2>2. ~Destroying(t) /\ CleanStep(t) /\ (\A a \in Addr : refs[a] # {} => refs'[a] # {})
    BY <1>e, <2>1 DEF Destroying
  <2>3. \A v \in VTable :
           /\ slot[v]["Release"] = "hook" => slot'[v]["Release"] = "hook"
           /\ vtable_patches_'[v] = vtable_patches_[v]
    BY <2>1
  <2>4. CASE r.id = 0 /\ Return(t) /\ UNCHANGED objects_
    <3>1. call'[t].pc = "idle" /\ Frames
      BY <1>a, <2>4, ReturnFields
    <3>2. RegistersFresh(t)'
      BY <1>c, <3>1 DEF RegistersFresh, RegisterPC, PatchPC
    <3>3. Records /\ objects_'[self].id = 0
      BY <2>4 DEF SameRecord
    <3>4. QED
      BY <1>a, <2>1, <2>2, <2>3, <3>1, <3>2, <3>3, SettleStep
  <2>5. CASE /\ r.id # 0
             /\ objects_' = [objects_ EXCEPT ![self] = NoRecord]
             /\ Emit(t, DestroyedEvent(r), "idle")
    <3>1. DestroyedEvent(r).id = r.id /\ DestroyedEvent(r).kind = "Destroyed"
      BY DEF DestroyedEvent, NoEvent
    <3>2. call'[t].pc = "pipe" /\ call'[t].ev = DestroyedEvent(r) /\ Frames
      BY <1>a, <2>5, EmitFields
    <3>3. /\ \A b \in Addr \ {self} : SameRecord(b)
          /\ objects_'[self].id = 0
      BY <1>a, <2>1, <2>5 DEF SameRecord, NoRecord
    <3>4. r.obj \in dead
      <4>1. serial[self] \in dead
        BY <1>d, <2>1 DEF DeathInv, ErasesDead
      <4>2. r.obj = serial[self]
        BY <1>d, <2>1, <2>5 DEF RecordsTracked
      <4>3. QED
        BY <4>1, <4>2
    <3>5. Erases(t, self)
      BY <2>1, <3>1, <3>2, <3>3, <3>4 DEF Erases
    <3>6. RegistersFresh(t)'
      BY <1>c, <3>1, <3>2 DEF RegistersFresh, RegisterPC, PatchPC
    <3>7. \A a \in Addr : SameRecord(a) \/ Erases(t, a)
      BY <3>3, <3>5
    <3>8. QED
      BY <1>a, <2>1, <2>2, <2>3, <3>2, <3>3, <3>6, <3>7, SettleStep
  <2>6. QED
    BY <1>11, <2>4, <2>5 DEF OnReleaseToZero
<1>12. CASE InnerOnSetName(t) \/ OuterOnSetName(t)
  <2>1. PICK done \in {"idle", "outer"} : OnSetName(t, done)
    BY <1>12 DEF InnerOnSetName, OuterOnSetName
  <2>2. /\ seen \subseteq seen' /\ Objects /\ Sinks /\ Vtables
        /\ call[t].pc \in {"onSetName", "outer"} /\ self \in Addr
    BY <1>12, <1>b, <2>1 DEF InnerOnSetName, OuterOnSetName, OnSetName,
       runtimeVars, patchVars, sinkVars
  <2>3. CASE (Return(t) \/ Goto(t, done)) /\ UNCHANGED objects_
    <3>1. call'[t].pc \in Calm /\ Frames
      BY <1>a, <2>3, GotoFields, ReturnFields
    <3>2. Records
      BY <2>3 DEF SameRecord
    <3>3. QED
      BY <1>h, <2>2, <3>1, <3>2
  <2>4. CASE /\ objects_' = [objects_ EXCEPT ![self].name = call[t].name]
             /\ Emit(t, RenamedEvent(objects_[self], call[t].name), done)
    <3> DEFINE e == RenamedEvent(objects_[self], call[t].name)
    <3>1. e.kind = "Renamed"
      BY DEF RenamedEvent, NoEvent
    <3>2. call'[t].pc = "pipe" /\ call'[t].ev = e /\ Frames
      BY <1>a, <2>4, EmitFields
    <3>3. Records
      BY <1>a, <2>2, <2>4 DEF Record, SameRecord
    <3> HIDE DEF e
    <3>4. QED
      BY <1>h, <2>2, <3>1, <3>2, <3>3
  <2>5. QED
    BY <2>1, <2>3, <2>4 DEF OnSetName
<1>13. CASE ResidencyLookup(t)
  <2> DEFINE e == ResidencyEvent(self, objects_[self])
  <2>1. e.kind = "ResidencyPriority"
    BY DEF ResidencyEvent, NoEvent
  <2>2. /\ seen \subseteq seen' /\ Objects /\ Sinks /\ Vtables /\ UNCHANGED objects_
        /\ Emit(t, e, "idle") /\ call[t].pc = "residency"
    BY <1>13 DEF ResidencyLookup, runtimeVars, patchVars, trackVars, sinkVars
  <2> HIDE DEF e
  <2>3. call'[t].pc = "pipe" /\ call'[t].ev = e /\ Frames
    BY <1>a, <2>2, EmitFields
  <2>4. Records
    BY <2>2 DEF SameRecord
  <2>5. QED
    BY <1>h, <2>1, <2>2, <2>3, <2>4
<1>14. QED
  BY <1>1, <1>2, <1>3, <1>4, <1>5, <1>6, <1>7, <1>8, <1>9, <1>10, <1>11, <1>12, <1>13
  DEF HookStep

\* The invariant of the two theorems below.
SettledInv == PatchInv /\ DeathInv /\ IdInv /\ LifeInv /\ SettleInv

LEMMA InitSettled == Init => SettledInv
<1> SUFFICES ASSUME Init PROVE SettledInv
  OBVIOUS
<1>a. PatchInv /\ DeathInv /\ IdInv
  BY InitPatch, InitDeath, InitIds
<1>1. \A t \in Thread : call[t].pc = "idle" /\ call[t].heap = NoAddr
  BY DEF Init, Idle
<1>2. \A t \in Thread : ~Registering(t) /\ ~Destroying(t) /\ ~Telling(t) /\ ~Uses(t)
  BY <1>1 DEF Registering, Destroying, Telling, Uses, RegisterPC, PatchPC
<1>3. \A t \in Thread : FrameOK(t) /\ RegistersFresh(t)
  BY <1>1, <1>2 DEF FrameOK, RegistersFresh, RegisterPC, PatchPC
<1>4. \A a \in Addr : objects_[a].id = 0
  BY DEF Init, NoRecord
<1>5. Len(pipe) = 0 /\ Len(log) = 0
  BY DEF Init
<1>6. LifeInv
  BY <1>3, <1>4, <1>5 DEF LifeInv, RecordsAnnounced, Inside
<1>7. SerialsUnique
  BY DEF Init, SerialsUnique
<1>8. PatchedAreHooked
  BY DEF Init, PatchedAreHooked
<1>9. QED
  BY <1>a, <1>3, <1>4, <1>5, <1>6, <1>7, <1>8 DEF SettledInv, SettleInv, RecordsTracked, Fated

LEMMA SettledStep == SettledInv /\ [Next]_vars => SettledInv'
<1> SUFFICES ASSUME SettledInv, [Next]_vars PROVE SettledInv'
  OBVIOUS
<1>1. PatchInv' /\ DeathInv' /\ IdInv'
  BY PatchStep, DeathInvStep, IdInvStep DEF SettledInv
<1>2. ASSUME UNCHANGED vars
      PROVE  LifeInv' /\ SettleInv'
  <2>1. UNCHANGED <<refs, vt, serial, born, dead, slot, vtable_patches_, objects_, call,
                    pipe, log, seen>>
    BY <1>2 DEF vars, runtimeVars, patchVars, trackVars, sinkVars
  <2>2. \A t \in Thread : FrameOK(t)'
    BY <2>1 DEF SettledInv, LifeInv, FrameOK, Registering, Destroying, Telling, Uses,
       Orderly, Sent, Has
  <2>3. RecordsAnnounced'
    BY <2>1 DEF SettledInv, LifeInv, RecordsAnnounced, Announcing, Sent, Has
  <2>4. LifeInv'
    BY <2>1, <2>2, <2>3 DEF SettledInv, LifeInv, Inside, Has, Orderly
  <2>5. ASSUME Undisturbed'
        PROVE  SettleInv'
    <3>1. /\ SerialsUnique /\ PatchedAreHooked /\ RecordsTracked
          /\ \A t \in Thread : RegistersFresh(t)
          /\ Fated(pipe) /\ Fated(log)
      BY <2>1, <2>5 DEF SettledInv, SettleInv, Undisturbed
    <3>2. SerialsUnique' /\ PatchedAreHooked'
      BY <2>1, <3>1 DEF SerialsUnique, PatchedAreHooked
    <3>3. RecordsTracked'
      BY <2>1, <3>1 DEF RecordsTracked, Hooked, InReleaseWindow
    <3>4. \A d, o : Fate(d, o) => Fate(d, o)'
      BY <2>1 DEF Fate, Destroying, Sent, Has
    <3>5. \A t \in Thread : RegistersFresh(t)'
      <4> SUFFICES ASSUME NEW t \in Thread PROVE RegistersFresh(t)'
        OBVIOUS
      <4>1. ASSUME call[t].pc \in {"pipe", "log"}, call[t].ev.kind = "Created"
            PROVE  call[t].ev.id # 0 /\ Fate(call[t].ev.id, call[t].ev.obj)'
        <5>1. call[t].ev.id # 0 /\ Fate(call[t].ev.id, call[t].ev.obj)
          BY <3>1, <4>1 DEF RegistersFresh
        <5>2. QED
          BY <2>1, <5>1 DEF Fate, Destroying, Sent, Has
      <4>2. QED
        BY <2>1, <3>1, <4>1 DEF RegistersFresh, Hooked
    <3>6. ASSUME NEW s, Fated(s)
          PROVE  \A i \in 1..Len(s) : s[i].kind = "Created" =>
                   s[i].id # 0 /\ Fate(s[i].id, s[i].obj)'
      BY <3>4, <3>6 DEF Fated
    <3>7. Fated(pipe)' /\ Fated(log)'
      BY <2>1, <3>1, <3>6 DEF Fated
    <3>8. QED
      BY <3>2, <3>3, <3>5, <3>7 DEF SettleInv
  <2>6. QED
    BY <2>4, <2>5 DEF SettleInv
<1>3. ASSUME NEW t \in Thread, AppStep(t) \/ HookStep(t)
      PROVE  LifeInv' /\ SettleInv'
  <2>1. LifeInv'
    BY <1>3, AppStepLife, HookStepLife DEF SettledInv
  <2>2. Undisturbed' => SettleInv'
    BY <1>3, AppStepSettle, HookStepSettle DEF SettledInv
  <2>3. QED
    BY <2>1, <2>2 DEF SettleInv
<1>4. QED
  BY <1>1, <1>2, <1>3 DEF Next, SettledInv

\* While nobody is in a hook the fate of a created object is settled.
LEMMA IdleFates ==
  ASSUME SettledInv, AllIdle, Undisturbed, NEW d, NEW o, d # 0, Fate(d, o)
  PROVE  \/ /\ o \notin dead
            /\ ~Sent(pipe, "Destroyed", d) /\ ~Sent(log, "Destroyed", d)
            /\ \E a \in Addr : objects_[a].id = d /\ serial[a] = o
         \/ o \in dead /\ Sent(pipe, "Destroyed", d) /\ Sent(log, "Destroyed", d)
<1>a. \A t \in Thread : call[t].pc = "idle"
  <2>1. Idle.pc = "idle"
    BY DEF Idle
  <2>2. QED
    BY <2>1 DEF AllIdle
<1>1. \A t \in Thread : ~Destroying(t)
  BY <1>a DEF Destroying
<1>2. \A a \in Addr : ~InReleaseWindow(a)
  BY <1>a DEF InReleaseWindow
<1>3. ASSUME NEW a \in Addr, objects_[a].id = d, objects_[a].obj = o
      PROVE  /\ o \notin dead /\ serial[a] = o
             /\ ~Sent(pipe, "Destroyed", d) /\ ~Sent(log, "Destroyed", d)
  <2>1. RecordsTracked /\ SerialsUnique
    BY DEF SettledInv, SettleInv
  <2>2. serial[a] = o /\ refs[a] # {}
    BY <1>2, <1>3, <2>1 DEF RecordsTracked
  <2>3. ~Sent(pipe, "Destroyed", d) /\ ~Sent(log, "Destroyed", d)
    BY <1>3 DEF SettledInv, IdInv, DestroyedNoMore
  <2>4. QED
    BY <2>1, <2>2, <2>3 DEF SerialsUnique
<1>4. QED
  BY <1>1, <1>3 DEF Fate

\* When no hook is running each sink has reported exactly the deaths of the
\* objects it reported, and LookupId finds the others under their ids, unless an
\* address was reused inside Hook_Release, Create* returned an object twice or
\* VirtualProtect failed.
THEOREM StreamsSettle == Spec => []SettledStreams
<1>1. SettledInv => SettledStreams
  <2> SUFFICES ASSUME SettledInv, AllIdle, Undisturbed, NEW s \in {pipe, log},
                      NEW i \in 1..Len(s), s[i].kind = "Created"
               PROVE  /\ (s[i].obj \in dead) <=> Has(s, Len(s), "Destroyed", s[i].id)
                      /\ s[i].obj \notin dead =>
                           \E a \in Addr : objects_[a].id = s[i].id /\ serial[a] = s[i].obj
    BY DEF SettledStreams, Undisturbed
  <2>1. s[i].id # 0 /\ Fate(s[i].id, s[i].obj)
    BY DEF SettledInv, SettleInv, Fated
  <2>2. \/ /\ s[i].obj \notin dead
           /\ ~Sent(pipe, "Destroyed", s[i].id) /\ ~Sent(log, "Destroyed", s[i].id)
           /\ \E a \in Addr : objects_[a].id = s[i].id /\ serial[a] = s[i].obj
        \/ /\ s[i].obj \in dead
           /\ Sent(pipe, "Destroyed", s[i].id) /\ Sent(log, "Destroyed", s[i].id)
    BY <2>1, IdleFates
  <2>3. QED
    BY <2>2 DEF Sent
<1>2. QED
  BY <1>1, InitSettled, SettledStep, PTL DEF Spec

\* How a step treats the record at a.
LEMMA RecordStep ==
  ASSUME PatchInv, NEW t \in Thread, AppStep(t) \/ HookStep(t), NEW a \in Addr
  PROVE  \/ objects_'[a].id \in {0, objects_[a].id}
         \/ call[t].pc = "insert" /\ call[t].self = a
<1>a. objects_ \in [Addr -> Record]
  BY DEF PatchInv, TypeInv, TypeOK
<1>1. CASE UNCHANGED objects_
  BY <1>1
<1>2. CASE Insert(t)
  <2>1. /\ call[t].pc = "insert"
        /\ \E r : objects_' = [objects_ EXCEPT ![call[t].self] = r]
    BY <1>2 DEF Insert
  <2>2. QED
    BY <1>a, <2>1
<1>3. CASE OnReleaseToZero(t)
  <2>1. \/ UNCHANGED objects_
        \/ objects_' = [objects_ EXCEPT ![call[t].self] = NoRecord]
    BY <1>3 DEF OnReleaseToZero
  <2>2. QED
    BY <1>a, <2>1 DEF NoRecord
<1>4. CASE InnerOnSetName(t) \/ OuterOnSetName(t)
  <2>1. \/ UNCHANGED objects_
        \/ objects_' = [objects_ EXCEPT ![call[t].self].name = call[t].name]
    BY <1>4 DEF InnerOnSetName, OuterOnSetName, OnSetName
  <2>2. QED
    BY <1>a, <2>1 DEF Record
<1>5. UNCHANGED objects_ \/ Insert(t) \/ OnReleaseToZero(t) \/ InnerOnSetName(t) \/ OuterOnSetName(t)
  <2>1. ASSUME AppStep(t) PROVE UNCHANGED objects_
    BY <2>1 DEF AppStep, RuntimeCreate, HookCreate, HookCreateShared, ReleaseUnhooked,
       HookRelease, CallSetResidencyPriority, AddRef, CallSetName,
       CallSetPrivateData, trackVars
  <2>2. ASSUME HookStep(t)
        PROVE  UNCHANGED objects_ \/ Insert(t) \/ OnReleaseToZero(t)
                 \/ InnerOnSetName(t) \/ OuterOnSetName(t)
    BY <2>2 DEF HookStep, LookupHeapId, PatchVTableIfNew, PatchSlot, Emplace, FetchId,
       EmitPipe, EmitLog, ReleaseLookup, ReleaseReal, SetNameLookup, SetPrivateDataLookup,
       SetPrivateDataDispatch, HookSetPrivateData, RealSetPrivateData, ResidencyLookup, trackVars
  <2>3. QED
    BY <2>1, <2>2
<1>6. QED
  BY <1>1, <1>2, <1>3, <1>4, <1>5

\* What was seen stays seen.
LEMMA SeenGrows ==
  ASSUME NEW t \in Thread, AppStep(t) \/ HookStep(t)
  PROVE  seen \subseteq seen'
<1>1. ASSUME AppStep(t) PROVE seen \subseteq seen'
  BY <1>1 DEF AppStep, RuntimeCreate, HookCreate, HookCreateShared, ReleaseUnhooked,
     HookRelease, CallSetResidencyPriority, AddRef, CallSetName, CallSetPrivateData,
     Allocate, RealRelease, Observe, runtimeVars, sinkVars
<1>2. ASSUME HookStep(t) PROVE seen \subseteq seen'
  BY <1>2 DEF HookStep, LookupHeapId, PatchVTableIfNew, PatchSlot, Emplace, FetchId, Insert,
     EmitPipe, EmitLog, ReleaseLookup, ReleaseReal, RealRelease, OnReleaseToZero, SetNameLookup,
     SetPrivateDataLookup, SetPrivateDataDispatch, HookSetPrivateData, RealSetPrivateData,
     InnerOnSetName, OuterOnSetName, OnSetName, ResidencyLookup, Observe, runtimeVars, sinkVars
<1>3. QED
  BY <1>1, <1>2

\* Insert never overwrites the record of another object (objects_[obj] = info),
\* unless an address was reused inside Hook_Release, Create* returned an object
\* twice or VirtualProtect failed.
THEOREM RecordsStay == Spec => RecordsNeverReplaced
<1> DEFINE Kept == seen' \cap {"reuse", "shared", "protect"} = {} =>
             \A a \in Addr : objects_[a].id # 0 /\ objects_'[a].id # 0
               => objects_'[a].id = objects_[a].id
<1>1. SettledInv /\ SettledInv' /\ [Next]_vars => [Kept]_vars
  <2> SUFFICES ASSUME SettledInv, NEW t \in Thread, AppStep(t) \/ HookStep(t),
                      seen' \cap {"reuse", "shared", "protect"} = {}, NEW a \in Addr,
                      objects_[a].id # 0, objects_'[a].id # 0
               PROVE  objects_'[a].id = objects_[a].id
    BY DEF Next
  <2>1. seen \subseteq seen'
    BY SeenGrows
  <2>2. RegistersFresh(t)
    BY <2>1 DEF SettledInv, SettleInv, Undisturbed
  <2>3. PatchInv
    BY DEF SettledInv
  <2>4. call[t].pc = "insert" /\ call[t].self = a => objects_[a].id = 0
    BY <2>2 DEF RegistersFresh, RegisterPC
  <2>5. QED
    BY <2>3, <2>4, RecordStep
<1>2. QED
  BY <1>1, InitSettled, SettledStep, PTL DEF Spec, RecordsNeverReplaced

-----------------------------------------------------------------------------
(* Names: the inductive invariants *)

\* t sends a renamed event.
Renaming(t) == call[t].pc \in {"pipe", "log"} /\ call[t].ev.kind = "Renamed"

\* t runs OnSetName.
Behind(t) == call[t].pc \in {"onSetName", "outer"}

\* A reader of s has name n for id d.
Says(s, d, n) ==
  \/ \E i \in 1..Len(s) :
       /\ RenamedAt(s, i, d) /\ s[i].full = n
       /\ \A j \in (i + 1)..Len(s) : ~RenamedAt(s, j, d)
  \/ n = NoName /\ \A i \in 1..Len(s) : ~RenamedAt(s, i, d)

\* NoRenameEcho of one sink.
NoEcho(s) ==
  \A i, j \in 1..Len(s) :
    /\ i < j /\ s[i].kind = "Renamed" /\ RenamedAt(s, j, s[i].id)
    /\ \A k \in (i + 1)..(j - 1) : ~RenamedAt(s, k, s[i].id)
    => s[i].full # s[j].full

\* An object is named by one thread at a time.
OneNamer ==
  \A t, u \in Thread, a \in Addr : InNamingCall(t, a) /\ InNamingCall(u, a) => t = u

\* The id and the name that a thread is about to send are those of the record
\* of its object, if the record is still there; nobody else has that id.
RenamesOwn ==
  \A t \in Thread : Renaming(t) =>
    /\ call[t].ev.id # 0
    /\ \A a \in Addr : objects_[a].id = call[t].ev.id =>
         a = call[t].self /\ objects_[a].name = call[t].ev.full
    /\ \A u \in Thread : call[u].ev.id = call[t].ev.id =>
         ~Inserting(u) /\ (Renaming(u) => u = t)

\* Only Hook_SetName goes on after an event.
OuterRenames ==
  \A t \in Thread : call[t].pc \in {"pipe", "log"} /\ call[t].next # "idle" => Renaming(t)

\* A record has the name that the readers of s have for its id, or that a thread
\* is about to tell them: one at a label of `due`.
Mirrored(s, due) ==
  \A a \in Addr : objects_[a].id # 0 =>
    \/ Says(s, objects_[a].id, objects_[a].name)
    \/ \E t \in Thread :
         Renaming(t) /\ call[t].pc \in due /\ call[t].ev.id = objects_[a].id

\* That one tells them something new ...
TellsNew(s, due) ==
  \A t \in Thread : Renaming(t) /\ call[t].pc \in due =>
    \E n \in AnyName : n # call[t].ev.full /\ Says(s, call[t].ev.id, n)

\* ... and they have not heard of an id that is not in the map yet.
Unheard(s) ==
  \A t \in Thread : Inserting(t) =>
    \A i \in 1..Len(s) : ~RenamedAt(s, i, call[t].ev.id)

Told(s, due) == Mirrored(s, due) /\ TellsNew(s, due) /\ Unheard(s) /\ NoEcho(s)

NameInv ==
  "naming" \notin seen =>
    /\ OneNamer /\ RenamesOwn /\ OuterRenames
    /\ Told(pipe, {"pipe"}) /\ Told(log, {"pipe", "log"})

-----------------------------------------------------------------------------
(* What the readers of a sink have heard *)

LEMMA Grown ==
  ASSUME NEW s \in Seq(Event), NEW e \in Event
  PROVE  /\ Append(s, e) \in Seq(Event)
         /\ Len(Append(s, e)) = Len(s) + 1 /\ Len(s) \in Nat
         /\ Append(s, e)[Len(s) + 1] = e
         /\ \A i \in 1..Len(s) : Append(s, e)[i] = s[i]
  OBVIOUS

\* They have one name for an id.
LEMMA SaysOne ==
  ASSUME NEW s \in Seq(Event), NEW d, NEW n, NEW k, Says(s, d, n), Says(s, d, k)
  PROVE  n = k
<1>1. ASSUME NEW i \in 1..Len(s), RenamedAt(s, i, d), \A x \in (i + 1)..Len(s) : ~RenamedAt(s, x, d),
             NEW j \in 1..Len(s), RenamedAt(s, j, d), \A x \in (j + 1)..Len(s) : ~RenamedAt(s, x, d)
      PROVE  i = j
  <2>1. Len(s) \in Nat /\ i \in Nat /\ j \in Nat
    OBVIOUS
  <2>2. ~(i < j)
    <3>1. i < j => j \in (i + 1)..Len(s)
      BY <2>1
    <3>2. QED
      BY <1>1, <3>1
  <2>3. ~(j < i)
    <3>1. j < i => i \in (j + 1)..Len(s)
      BY <2>1
    <3>2. QED
      BY <1>1, <3>1
  <2>4. QED
    BY <2>1, <2>2, <2>3
<1>2. QED
  BY <1>1 DEF Says

\* NameIn is what the payload shows of that name.
LEMMA SaysNameIn ==
  ASSUME NEW s \in Seq(Event), NEW d, NEW n, Says(s, d, n)
  PROVE  NameIn(s, d) = Shown(n)
<1> DEFINE Last(i) == /\ RenamedAt(s, i, d)
                      /\ \A j \in (i + 1)..Len(s) : ~RenamedAt(s, j, d)
           c == CHOOSE i \in 1..Len(s) : Last(i)
<1>1. CASE \A i \in 1..Len(s) : ~RenamedAt(s, i, d)
  BY <1>1 DEF Says, NameIn, Shown
<1>2. CASE \E i \in 1..Len(s) : RenamedAt(s, i, d)
  <2>1. \E i \in 1..Len(s) : Last(i) /\ s[i].full = n
    BY <1>2 DEF Says
  <2>2. c \in 1..Len(s) /\ Last(c)
    BY <2>1
  <2>3. NameIn(s, d) = s[c].name
    BY <1>2 DEF NameIn
  <2> HIDE DEF c
  <2>6. s[c].name = Shown(s[c].full)
    BY <2>2 DEF Event
  <2>4. Says(s, d, s[c].full)
    BY <2>2 DEF Says
  <2>5. QED
    BY <2>3, <2>4, <2>6, SaysOne
<1>3. QED
  BY <1>1, <1>2

\* A renamed event tells a name, and no other event changes one.
LEMMA AppendSays ==
  ASSUME NEW s \in Seq(Event), NEW e \in Event
  PROVE  /\ e.kind = "Renamed" => Says(Append(s, e), e.id, e.full)
         /\ \A d, n : Says(s, d, n) /\ ~(e.kind = "Renamed" /\ e.id = d)
              => Says(Append(s, e), d, n)
         /\ \A d : (\A i \in 1..Len(s) : ~RenamedAt(s, i, d))
                   /\ ~(e.kind = "Renamed" /\ e.id = d)
              => \A i \in 1..Len(Append(s, e)) : ~RenamedAt(Append(s, e), i, d)
<1> DEFINE r == Append(s, e)
<1>1. /\ Len(r) = Len(s) + 1 /\ Len(s) \in Nat
      /\ r[Len(s) + 1] = e
      /\ \A i \in 1..Len(s) : r[i] = s[i]
  BY Grown
<1> HIDE DEF r
<1>2. \A d : \A i \in 1..Len(s) : RenamedAt(r, i, d) <=> RenamedAt(s, i, d)
  BY <1>1 DEF RenamedAt
<1>3. \A d : RenamedAt(r, Len(s) + 1, d) <=> e.kind = "Renamed" /\ e.id = d
  BY <1>1 DEF RenamedAt
<1>4. \A i \in 1..Len(r) : i \in 1..Len(s) \/ i = Len(s) + 1
  BY <1>1
<1>5. e.kind = "Renamed" => Says(r, e.id, e.full)
  <2>1. Len(s) + 1 \in 1..Len(r) /\ (Len(s) + 1 + 1)..Len(r) = {}
    BY <1>1
  <2>2. QED
    BY <1>1, <1>3, <2>1 DEF Says
<1>6. ASSUME NEW d, NEW n, Says(s, d, n), ~(e.kind = "Renamed" /\ e.id = d)
      PROVE  Says(r, d, n)
  <2>1. ASSUME NEW i \in 1..Len(s), RenamedAt(s, i, d), s[i].full = n,
               \A j \in (i + 1)..Len(s) : ~RenamedAt(s, j, d)
        PROVE  Says(r, d, n)
    <3>1. i \in 1..Len(r) /\ RenamedAt(r, i, d) /\ r[i].full = n
      BY <1>1, <1>2, <2>1
    <3>2. \A j \in (i + 1)..Len(r) : j = Len(s) + 1 \/ (j \in 1..Len(s) /\ j \in (i + 1)..Len(s))
      BY <1>1
    <3>3. \A j \in (i + 1)..Len(r) : ~RenamedAt(r, j, d)
      BY <1>2, <1>3, <1>6, <2>1, <3>2
    <3>4. QED
      BY <3>1, <3>3 DEF Says
  <2>2. ASSUME n = NoName, \A i \in 1..Len(s) : ~RenamedAt(s, i, d)
        PROVE  Says(r, d, n)
    <3>1. \A i \in 1..Len(r) : ~RenamedAt(r, i, d)
      BY <1>2, <1>3, <1>4, <1>6, <2>2
    <3>2. QED
      BY <2>2, <3>1 DEF Says
  <2>3. QED
    BY <1>6, <2>1, <2>2 DEF Says
<1>7. \A d : (\A i \in 1..Len(s) : ~RenamedAt(s, i, d)) /\ ~(e.kind = "Renamed" /\ e.id = d)
        => \A i \in 1..Len(r) : ~RenamedAt(r, i, d)
  BY <1>2, <1>3, <1>4
<1>8. QED
  BY <1>5, <1>6, <1>7 DEF r

\* A new name is no echo.
LEMMA AppendNoEcho ==
  ASSUME NEW s \in Seq(Event), NEW e \in Event, NoEcho(s),
         e.kind = "Renamed" => \E n \in AnyName : n # e.full /\ Says(s, e.id, n)
  PROVE  NoEcho(Append(s, e))
<1> DEFINE r == Append(s, e)
<1>1. /\ Len(r) = Len(s) + 1 /\ Len(s) \in Nat
      /\ r[Len(s) + 1] = e
      /\ \A i \in 1..Len(s) : r[i] = s[i]
  BY Grown
<1> HIDE DEF r
<1>2. ASSUME NEW i \in 1..Len(r), NEW j \in 1..Len(r),
             i < j, r[i].kind = "Renamed", RenamedAt(r, j, r[i].id),
             \A k \in (i + 1)..(j - 1) : ~RenamedAt(r, k, r[i].id)
      PROVE  r[i].full # r[j].full
  <2>1. i \in 1..Len(s) /\ r[i] = s[i]
    BY <1>1, <1>2
  <2>2. CASE j \in 1..Len(s)
    <3>1. r[j] = s[j] /\ \A k \in (i + 1)..(j - 1) : k \in 1..Len(s) /\ r[k] = s[k]
      BY <1>1, <2>2
    <3>2. RenamedAt(s, j, s[i].id) /\ \A k \in (i + 1)..(j - 1) : ~RenamedAt(s, k, s[i].id)
      BY <1>2, <2>1, <3>1 DEF RenamedAt
    <3>3. QED
      BY <1>2, <2>1, <2>2, <3>1, <3>2 DEF NoEcho
  <2>3. CASE j = Len(s) + 1
    <3>1. r[j] = e /\ j - 1 = Len(s)
      BY <1>1, <2>3
    <3>2. e.kind = "Renamed" /\ e.id = s[i].id
      BY <1>2, <2>1, <3>1 DEF RenamedAt
    <3>3. \A k \in (i + 1)..Len(s) : k \in 1..Len(s) /\ r[k] = s[k]
      BY <1>1, <2>1
    <3>4. \A k \in (i + 1)..Len(s) : ~RenamedAt(s, k, s[i].id)
      BY <1>2, <2>1, <3>1, <3>3 DEF RenamedAt
    <3>5. RenamedAt(s, i, s[i].id)
      BY <1>2, <2>1 DEF RenamedAt
    <3>6. Says(s, e.id, s[i].full)
      BY <2>1, <3>2, <3>4, <3>5 DEF Says
    <3>7. QED
      BY <2>1, <3>1, <3>2, <3>6, SaysOne
  <2>4. QED
    BY <1>1, <2>2, <2>3
<1>3. QED
  BY <1>2 DEF NoEcho, r

-----------------------------------------------------------------------------
(* A step and one sink *)

\* Told(r, due) after the step.
ToldAfter(r, due) ==
  /\ \A a \in Addr : objects_'[a].id # 0 =>
       \/ Says(r, objects_'[a].id, objects_'[a].name)
       \/ \E u \in Thread :
            Renaming(u)' /\ call'[u].pc \in due /\ call'[u].ev.id = objects_'[a].id
  /\ \A u \in Thread : Renaming(u)' /\ call'[u].pc \in due =>
       \E n \in AnyName : n # call'[u].ev.full /\ Says(r, call'[u].ev.id, n)
  /\ \A u \in Thread : Inserting(u)' =>
       \A i \in 1..Len(r) : ~RenamedAt(r, i, call'[u].ev.id)
  /\ NoEcho(r)

\* Where t is with its renamed event, before and after the step.
DueOf(t, due) == Renaming(t) /\ call[t].pc \in due

\* A step of t that sends nothing to sink s.
LEMMA SinkStays ==
  ASSUME NEW s, NEW due, Told(s, due), NEW t \in Thread,
         \A u \in Thread \ {t} : call'[u] = call[u],
         \A a \in Addr :
           \/ objects_'[a].id = 0
           \/ objects_'[a].id = objects_[a].id /\ objects_'[a].name = objects_[a].name
           \/ Says(s, objects_'[a].id, objects_'[a].name)
           \/ DueOf(t, due)' /\ call'[t].ev.id = objects_'[a].id,
         DueOf(t, due) => DueOf(t, due)' /\ call'[t].ev = call[t].ev,
         DueOf(t, due)' =>
           \E n \in AnyName : n # call'[t].ev.full /\ Says(s, call'[t].ev.id, n),
         Inserting(t)' => \A i \in 1..Len(s) : ~RenamedAt(s, i, call'[t].ev.id)
  PROVE  ToldAfter(s, due)
<1> DEFINE Due(u) == Renaming(u) /\ call[u].pc \in due
           DueAfter(u) == Renaming(u)' /\ call'[u].pc \in due
<1>1. /\ DueOf(t, due) <=> Due(t)
      /\ DueOf(t, due)' <=> DueAfter(t)
  BY DEF DueOf
<1>2. \A u \in Thread \ {t} : /\ DueAfter(u) <=> Due(u)
                              /\ Inserting(u)' <=> Inserting(u)
  BY DEF Renaming, Inserting
<1>3. ASSUME NEW a \in Addr, objects_'[a].id # 0
      PROVE  \/ Says(s, objects_'[a].id, objects_'[a].name)
             \/ \E u \in Thread : DueAfter(u) /\ call'[u].ev.id = objects_'[a].id
  <2>1. CASE objects_'[a].id = objects_[a].id /\ objects_'[a].name = objects_[a].name
    <3>1. \/ Says(s, objects_[a].id, objects_[a].name)
          \/ \E u \in Thread : Due(u) /\ call[u].ev.id = objects_[a].id
      BY <1>3, <2>1 DEF Told, Mirrored
    <3>2. ASSUME NEW u \in Thread, Due(u), call[u].ev.id = objects_[a].id
          PROVE  DueAfter(u) /\ call'[u].ev.id = objects_'[a].id
      <4>1. CASE u = t
        BY <1>1, <2>1, <3>2, <4>1
      <4>2. CASE u # t
        BY <1>2, <2>1, <3>2, <4>2
      <4>3. QED
        BY <4>1, <4>2
    <3> HIDE DEF Due, DueAfter
    <3>3. QED
      BY <2>1, <3>1, <3>2
  <2>2. CASE Says(s, objects_'[a].id, objects_'[a].name)
    BY <2>2
  <2>3. CASE DueAfter(t) /\ call'[t].ev.id = objects_'[a].id
    BY <2>3
  <2>4. QED
    BY <1>1, <1>3, <2>1, <2>2, <2>3
<1>4. ASSUME NEW u \in Thread, DueAfter(u)
      PROVE  \E n \in AnyName : n # call'[u].ev.full /\ Says(s, call'[u].ev.id, n)
  <2>1. CASE u = t
    BY <1>1, <1>4, <2>1
  <2>2. CASE u # t
    BY <1>2, <1>4, <2>2 DEF Told, TellsNew
  <2>3. QED
    BY <2>1, <2>2
<1>5. ASSUME NEW u \in Thread, Inserting(u)'
      PROVE  \A i \in 1..Len(s) : ~RenamedAt(s, i, call'[u].ev.id)
  BY <1>2, <1>5 DEF Told, Unheard
<1>6. NoEcho(s)
  BY DEF Told
<1>7. QED
  BY <1>3, <1>4, <1>5, <1>6 DEF ToldAfter

\* A step of t that sends its event to sink s.
LEMMA SinkSpeaks ==
  ASSUME NEW s \in Seq(Event), NEW due, Told(s, due), RenamesOwn,
         NEW t \in Thread, call[t].ev \in Event, call[t].pc \in {"pipe", "log"},
         call[t].pc \in due,
         \A u \in Thread \ {t} : call'[u] = call[u],
         UNCHANGED objects_, call'[t].pc \notin due, ~Inserting(t)'
  PROVE  ToldAfter(Append(s, call[t].ev), due)
<1> DEFINE r == Append(s, call[t].ev)
           e == call[t].ev
           Due(u) == Renaming(u) /\ call[u].pc \in due
           DueAfter(u) == Renaming(u)' /\ call'[u].pc \in due
<1>1. /\ e.kind = "Renamed" => Says(r, e.id, e.full)
      /\ \A d, n : Says(s, d, n) /\ ~(e.kind = "Renamed" /\ e.id = d) => Says(r, d, n)
      /\ \A d : (\A i \in 1..Len(s) : ~RenamedAt(s, i, d)) /\ ~(e.kind = "Renamed" /\ e.id = d)
           => \A i \in 1..Len(r) : ~RenamedAt(r, i, d)
  BY AppendSays
<1>2. \A u \in Thread \ {t} : /\ DueAfter(u) <=> Due(u)
                              /\ Inserting(u)' <=> Inserting(u)
                              /\ call'[u].ev = call[u].ev
  BY DEF Renaming, Inserting
<1>3. ~DueAfter(t) /\ (e.kind = "Renamed" => Renaming(t) /\ Due(t))
  BY DEF Renaming
<1>4. NoEcho(r)
  <2>1. e.kind = "Renamed" => \E n \in AnyName : n # e.full /\ Says(s, e.id, n)
    BY <1>3 DEF Told, TellsNew
  <2>2. QED
    BY <2>1, AppendNoEcho DEF Told
<1>5. ASSUME NEW a \in Addr, objects_[a].id # 0
      PROVE  \/ Says(r, objects_[a].id, objects_[a].name)
             \/ \E u \in Thread : DueAfter(u) /\ call'[u].ev.id = objects_[a].id
  <2>1. CASE e.kind = "Renamed" /\ e.id = objects_[a].id
    <3>1. objects_[a].name = e.full
      BY <1>3, <2>1 DEF RenamesOwn
    <3>2. QED
      BY <1>1, <2>1, <3>1
  <2>2. CASE ~(e.kind = "Renamed" /\ e.id = objects_[a].id)
    <3>1. \/ Says(s, objects_[a].id, objects_[a].name)
          \/ \E u \in Thread : Due(u) /\ call[u].ev.id = objects_[a].id
      BY <1>5 DEF Told, Mirrored
    <3>2. ASSUME NEW u \in Thread, Due(u), call[u].ev.id = objects_[a].id
          PROVE  DueAfter(u) /\ call'[u].ev.id = objects_[a].id
      <4>1. u # t
        BY <2>2, <3>2 DEF Renaming
      <4>2. QED
        BY <1>2, <3>2, <4>1
    <3> HIDE DEF Due, DueAfter, r, e
    <3>3. QED
      BY <1>1, <2>2, <3>1, <3>2
  <2>3. QED
    BY <2>1, <2>2
<1>6. ASSUME NEW u \in Thread, DueAfter(u)
      PROVE  \E n \in AnyName : n # call'[u].ev.full /\ Says(r, call'[u].ev.id, n)
  <2>1. u # t /\ Due(u) /\ Renaming(u) /\ call'[u].ev = call[u].ev
    BY <1>2, <1>3, <1>6
  <2>2. PICK n \in AnyName : n # call[u].ev.full /\ Says(s, call[u].ev.id, n)
    BY <2>1 DEF Told, TellsNew
  <2>3. ~(e.kind = "Renamed" /\ e.id = call[u].ev.id)
    BY <1>3, <2>1 DEF RenamesOwn
  <2> HIDE DEF r, e
  <2>4. QED
    BY <1>1, <2>1, <2>2, <2>3
<1>7. ASSUME NEW u \in Thread, Inserting(u)'
      PROVE  \A i \in 1..Len(r) : ~RenamedAt(r, i, call'[u].ev.id)
  <2>1. u # t /\ Inserting(u) /\ call'[u].ev = call[u].ev
    BY <1>2, <1>7
  <2>2. \A i \in 1..Len(s) : ~RenamedAt(s, i, call[u].ev.id)
    BY <2>1 DEF Told, Unheard
  <2>3. ~(e.kind = "Renamed" /\ e.id = call[u].ev.id)
    BY <1>3, <2>1 DEF RenamesOwn
  <2> HIDE DEF r, e
  <2>4. QED
    BY <1>1, <2>1, <2>2, <2>3
<1>8. QED
  BY <1>4, <1>5, <1>6, <1>7 DEF ToldAfter

LEMMA ToldAfterStep ==
  /\ ToldAfter(pipe', {"pipe"}) => Told(pipe, {"pipe"})'
  /\ ToldAfter(log', {"pipe", "log"}) => Told(log, {"pipe", "log"})'
<1>1. ToldAfter(pipe', {"pipe"}) => Told(pipe, {"pipe"})'
  BY DEF ToldAfter, Told, Mirrored, TellsNew, Unheard, NoEcho, Says, RenamedAt
<1>2. ToldAfter(log', {"pipe", "log"}) => Told(log, {"pipe", "log"})'
  BY DEF ToldAfter, Told, Mirrored, TellsNew, Unheard, NoEcho, Says, RenamedAt
<1>3. QED
  BY <1>1, <1>2

-----------------------------------------------------------------------------
(* What a step does to names *)

\* What NameInv says while nobody has named an object beside another thread.
NamesTold == /\ OneNamer /\ RenamesOwn /\ OuterRenames
             /\ Told(pipe, {"pipe"}) /\ Told(log, {"pipe", "log"})

\* t begins to name an object only if nobody else is naming it.
NamesAlone(t) ==
  \A a \in Addr : InNamingCall(t, a)' =>
    InNamingCall(t, a) \/ \A u \in Thread \ {t} : ~InNamingCall(u, a)

LEMMA OneNamerStep ==
  ASSUME OneNamer, NEW t \in Thread, \A u \in Thread \ {t} : call'[u] = call[u], NamesAlone(t)
  PROVE  OneNamer'
<1>1. \A u \in Thread \ {t}, a \in Addr : InNamingCall(u, a)' <=> InNamingCall(u, a)
  BY DEF InNamingCall
<1> SUFFICES ASSUME NEW u \in Thread, NEW w \in Thread, NEW a \in Addr,
                    InNamingCall(u, a)', InNamingCall(w, a)'
             PROVE  u = w
  BY DEF OneNamer
<1>2. CASE u # t /\ w # t
  BY <1>1, <1>2 DEF OneNamer
<1>3. CASE u = t \/ w = t
  <2>1. InNamingCall(t, a) \/ \A x \in Thread \ {t} : ~InNamingCall(x, a)
    BY <1>3 DEF NamesAlone
  <2> HIDE DEF InNamingCall
  <2>2. QED
    BY <1>1, <1>3, <2>1 DEF OneNamer
<1>4. QED
  BY <1>2, <1>3

\* An id that is new to the program is new to the readers.
LEMMA NextIdUnheard ==
  ASSUME TypeInv, IdInv
  PROVE  /\ \A i \in 1..Len(pipe) : ~RenamedAt(pipe, i, next_id_)
         /\ \A i \in 1..Len(log) : ~RenamedAt(log, i, next_id_)
<1>1. \A k, d : Sent(pipe, k, d) \/ Sent(log, k, d) => d < next_id_
  BY DEF IdInv, IdsIssued
<1>2. ~Sent(pipe, "Renamed", next_id_) /\ ~Sent(log, "Renamed", next_id_)
  <2>1. Sent(pipe, "Renamed", next_id_) \/ Sent(log, "Renamed", next_id_) => next_id_ < next_id_
    BY <1>1
  <2>2. ~(next_id_ < next_id_)
    BY DEF TypeInv, TypeOK
  <2>3. QED
    BY <2>1, <2>2
<1>3. QED
  BY <1>2 DEF Sent, Has, RenamedAt

\* A step that sends nothing, renames no record, and may take an id or erase
\* a record.
LEMMA QuietNames ==
  ASSUME TypeInv, IdInv, NamesTold, NEW t \in Thread,
         \A u \in Thread \ {t} : call'[u] = call[u],
         UNCHANGED <<pipe, log>>,
         \A a \in Addr :
           \/ objects_'[a].id = 0
           \/ objects_'[a].id = objects_[a].id /\ objects_'[a].name = objects_[a].name,
         ~Renaming(t), ~Renaming(t)',
         Inserting(t)' => call'[t].ev.id = next_id_,
         call'[t].pc \in {"pipe", "log"} => call'[t].next = "idle",
         NamesAlone(t)
  PROVE  NamesTold'
<1>a. /\ objects_ \in [Addr -> Record] /\ next_id_ \in Nat /\ call \in [Thread -> Frame]
      /\ \A u \in Thread : call[u].ev.id \in Nat
  BY DEF TypeInv, TypeOK, Frame, Event
<1>1. OneNamer'
  BY OneNamerStep DEF NamesTold
<1>2. \A u \in Thread : Renaming(u)' <=> u # t /\ Renaming(u)
  BY DEF Renaming
<1>3. RenamesOwn'
  <2> SUFFICES ASSUME NEW u \in Thread, Renaming(u)'
               PROVE  /\ call'[u].ev.id # 0
                      /\ \A a \in Addr : objects_'[a].id = call'[u].ev.id =>
                           a = call'[u].self /\ objects_'[a].name = call'[u].ev.full
                      /\ \A w \in Thread : call'[w].ev.id = call'[u].ev.id =>
                           ~Inserting(w)' /\ (Renaming(w)' => w = u)
    BY DEF RenamesOwn
  <2>1. Renaming(u) /\ u # t /\ call'[u] = call[u]
    BY <1>2
  <2>2. /\ call[u].ev.id # 0 /\ call[u].ev.id < next_id_
        /\ \A a \in Addr : objects_[a].id = call[u].ev.id =>
             a = call[u].self /\ objects_[a].name = call[u].ev.full
        /\ \A w \in Thread : call[w].ev.id = call[u].ev.id =>
             ~Inserting(w) /\ (Renaming(w) => w = u)
    BY <2>1 DEF NamesTold, RenamesOwn, IdInv, IdsIssued, Carrying, Renaming
  <2>3. ASSUME NEW w \in Thread, call'[w].ev.id = call[u].ev.id
        PROVE  ~Inserting(w)' /\ (Renaming(w)' => w = u)
    <3>1. CASE w = t
      BY <1>a, <1>2, <2>2, <2>3, <3>1
    <3>2. CASE w # t
      BY <1>2, <2>2, <2>3, <3>2 DEF Inserting
    <3>3. QED
      BY <3>1, <3>2
  <2>4. QED
    BY <2>1, <2>2, <2>3
<1>4. OuterRenames'
  BY <1>2 DEF NamesTold, OuterRenames, Renaming
<1>5. \A due : ~DueOf(t, due) /\ ~DueOf(t, due)'
  BY DEF DueOf
<1>6. ToldAfter(pipe, {"pipe"})
  <2>1. Inserting(t)' => \A i \in 1..Len(pipe) : ~RenamedAt(pipe, i, call'[t].ev.id)
    BY NextIdUnheard
  <2>2. Told(pipe, {"pipe"}) /\ ~DueOf(t, {"pipe"}) /\ ~DueOf(t, {"pipe"})'
    BY <1>5 DEF NamesTold
  <2>3. QED
    BY <2>1, <2>2, SinkStays
<1>7. ToldAfter(log, {"pipe", "log"})
  <2>1. Inserting(t)' => \A i \in 1..Len(log) : ~RenamedAt(log, i, call'[t].ev.id)
    BY NextIdUnheard
  <2>2. Told(log, {"pipe", "log"}) /\ ~DueOf(t, {"pipe", "log"}) /\ ~DueOf(t, {"pipe", "log"})'
    BY <1>5 DEF NamesTold
  <2>3. QED
    BY <2>1, <2>2, SinkStays
<1>8. QED
  BY <1>1, <1>3, <1>4, <1>6, <1>7, ToldAfterStep DEF NamesTold

\* The record of a new object goes into the map.
LEMMA InsertNames ==
  ASSUME TypeInv, DeathInv, LifeInv, NamesTold, NEW t \in Thread, Insert(t)
  PROVE  NamesTold'
<1> DEFINE self == call[t].self
           ev == call[t].ev
<1>a. /\ objects_ \in [Addr -> Record] /\ call \in [Thread -> Frame] /\ self \in Addr
      /\ call[t].pc = "insert" /\ Inserting(t) /\ ev.kind = "Created"
  BY DEF TypeInv, TypeOK, CallOK, Insert, Inserting, DeathInv, RegistersItsObject, RegisterPC
<1>1. /\ call'[t].pc = "pipe" /\ call'[t].ev = ev /\ call'[t].self = self
      /\ \A u \in Thread \ {t} : call'[u] = call[u]
  BY <1>a, GotoFields DEF Insert
<1>2. /\ objects_'[self].id = ev.id /\ objects_'[self].name = NoName
      /\ \A a \in Addr \ {self} : objects_'[a] = objects_[a]
      /\ UNCHANGED <<pipe, log>>
  BY <1>a DEF Insert, sinkVars
<1>3. ~Renaming(t) /\ ~Renaming(t)' /\ ~Inserting(t)'
  BY <1>a, <1>1 DEF Renaming, Inserting
<1>4. \A u \in Thread \ {t} : /\ Renaming(u)' <=> Renaming(u)
                              /\ Inserting(u)' <=> Inserting(u)
  BY <1>1 DEF Renaming, Inserting
<1>5. NamesAlone(t)
  BY <1>a, <1>1 DEF NamesAlone, InNamingCall, NamingPC
<1>6. OneNamer'
  BY <1>1, <1>5, OneNamerStep DEF NamesTold
<1>7. RenamesOwn'
  <2> SUFFICES ASSUME NEW u \in Thread, Renaming(u)'
               PROVE  /\ call'[u].ev.id # 0
                      /\ \A a \in Addr : objects_'[a].id = call'[u].ev.id =>
                           a = call'[u].self /\ objects_'[a].name = call'[u].ev.full
                      /\ \A w \in Thread : call'[w].ev.id = call'[u].ev.id =>
                           ~Inserting(w)' /\ (Renaming(w)' => w = u)
    BY DEF RenamesOwn
  <2>1. Renaming(u) /\ u # t /\ call'[u] = call[u]
    BY <1>1, <1>3, <1>4
  <2>2. /\ call[u].ev.id # 0
        /\ \A a \in Addr : objects_[a].id = call[u].ev.id =>
             a = call[u].self /\ objects_[a].name = call[u].ev.full
        /\ \A w \in Thread : call[w].ev.id = call[u].ev.id =>
             ~Inserting(w) /\ (Renaming(w) => w = u)
    BY <2>1 DEF NamesTold, RenamesOwn
  <2>3. ev.id # call[u].ev.id
    BY <1>a, <2>2
  <2>4. \A w \in Thread : call'[w].ev.id = call[u].ev.id =>
          ~Inserting(w)' /\ (Renaming(w)' => w = u)
    BY <1>1, <1>4, <2>2, <2>3
  <2>5. QED
    BY <1>2, <2>1, <2>2, <2>3, <2>4
<1>8. OuterRenames'
  <2>1. call'[t].next = "idle"
    <3>1. call[t].next = "idle"
      BY <1>a DEF LifeInv, FrameOK, Registering, RegisterPC
    <3>2. QED
      BY <1>a, <3>1, KeptFields DEF Insert
  <2>2. QED
    BY <1>1, <1>4, <2>1 DEF NamesTold, OuterRenames, Renaming
<1>9. \A due : ~DueOf(t, due) /\ ~DueOf(t, due)'
  BY <1>3 DEF DueOf
<1>10. ASSUME NEW s, NEW due, Told(s, due)
       PROVE  ToldAfter(s, due)
  <2>1. Says(s, objects_'[self].id, objects_'[self].name)
    BY <1>a, <1>2, <1>10 DEF Told, Unheard, Says
  <2>2. \A a \in Addr :
           \/ objects_'[a].id = objects_[a].id /\ objects_'[a].name = objects_[a].name
           \/ Says(s, objects_'[a].id, objects_'[a].name)
    BY <1>2, <2>1
  <2>3. QED
    BY <1>1, <1>3, <1>9, <1>10, <2>2, SinkStays
<1>11. ToldAfter(pipe', {"pipe"}) /\ ToldAfter(log', {"pipe", "log"})
  BY <1>2, <1>10 DEF NamesTold
<1>12. QED
  BY <1>6, <1>7, <1>8, <1>11, ToldAfterStep DEF NamesTold

\* OnSetName takes a new name into the record and is going to send it.
LEMMA RenameNames ==
  ASSUME TypeInv, IdInv, NamesTold, NEW t \in Thread, Behind(t), NEW done,
         objects_[call[t].self].id # 0, objects_[call[t].self].name # call[t].name,
         objects_' = [objects_ EXCEPT ![call[t].self].name = call[t].name],
         Emit(t, RenamedEvent(objects_[call[t].self], call[t].name), done),
         UNCHANGED <<pipe, log>>
  PROVE  NamesTold'
<1> DEFINE self == call[t].self
           name == call[t].name
           id == objects_[self].id
<1>a. /\ objects_ \in [Addr -> Record] /\ call \in [Thread -> Frame] /\ self \in Addr
      /\ call[t].pc \in {"onSetName", "outer"} /\ ~Renaming(t) /\ ~Inserting(t)
      /\ objects_[self].name \in AnyName
  <2>1. call[t].pc \in {"onSetName", "outer"}
    BY DEF Behind
  <2>2. QED
    BY <2>1 DEF TypeInv, TypeOK, CallOK, Record, Renaming, Inserting
<1>1. /\ call'[t].pc = "pipe" /\ call'[t].self = self
      /\ call'[t].ev = RenamedEvent(objects_[self], name)
      /\ \A u \in Thread \ {t} : call'[u] = call[u]
  BY <1>a, EmitFields
<1>2. call'[t].ev.kind = "Renamed" /\ call'[t].ev.id = id /\ call'[t].ev.full = name
  BY <1>1 DEF RenamedEvent, NoEvent
<1>3. /\ objects_'[self].id = id /\ objects_'[self].name = name
      /\ \A a \in Addr \ {self} : objects_'[a] = objects_[a]
  BY <1>a DEF Record
<1>4. Renaming(t)' /\ ~Inserting(t)'
  BY <1>1, <1>2 DEF Renaming, Inserting
<1>5. \A u \in Thread \ {t} : /\ Renaming(u)' <=> Renaming(u)
                              /\ Inserting(u)' <=> Inserting(u)
  BY <1>1 DEF Renaming, Inserting
<1>6. InNamingCall(t, self)
  BY <1>a DEF InNamingCall, NamingPC
<1>7. NamesAlone(t)
  BY <1>1, <1>6 DEF NamesAlone, InNamingCall
<1>8. OneNamer'
  BY <1>1, <1>7, OneNamerStep DEF NamesTold
\* Nobody else is about to send this id.
<1>9. ASSUME NEW u \in Thread, Renaming(u)
      PROVE  u # t /\ call[u].ev.id # id
  <2>1. u # t
    BY <1>a, <1>9
  <2>2. call[u].ev.id = id => call[u].self = self
    BY <1>a, <1>9 DEF NamesTold, RenamesOwn
  <2>3. call[u].self = self => InNamingCall(u, self)
    BY <1>9 DEF InNamingCall, Renaming
  <2>4. QED
    BY <1>a, <1>6, <2>1, <2>2, <2>3 DEF NamesTold, OneNamer
<1>10. RenamesOwn'
  <2> SUFFICES ASSUME NEW u \in Thread, Renaming(u)'
               PROVE  /\ call'[u].ev.id # 0
                      /\ \A a \in Addr : objects_'[a].id = call'[u].ev.id =>
                           a = call'[u].self /\ objects_'[a].name = call'[u].ev.full
                      /\ \A w \in Thread : call'[w].ev.id = call'[u].ev.id =>
                           ~Inserting(w)' /\ (Renaming(w)' => w = u)
    BY DEF RenamesOwn
  <2>1. CASE u = t
    <3>1. \A a \in Addr : objects_[a].id = id => a = self
      BY <1>a DEF IdInv, OneDestroyer
    <3>2. \A a \in Addr : objects_'[a].id = id => a = self
      BY <1>3, <3>1
    <3>3. \A w \in Thread : Inserting(w) => call[w].ev.id # id
      BY <1>a DEF IdInv, OneDestroyer
    <3>4. ASSUME NEW w \in Thread, call'[w].ev.id = id
          PROVE  ~Inserting(w)' /\ (Renaming(w)' => w = t)
      BY <1>1, <1>4, <1>5, <1>9, <3>3, <3>4
    <3>5. QED
      BY <1>1, <1>2, <1>3, <2>1, <3>2, <3>4
  <2>2. CASE u # t
    <3>1. Renaming(u) /\ call'[u] = call[u] /\ call[u].ev.id # id
      BY <1>1, <1>5, <1>9, <2>2
    <3>2. /\ call[u].ev.id # 0
          /\ \A a \in Addr : objects_[a].id = call[u].ev.id =>
               a = call[u].self /\ objects_[a].name = call[u].ev.full
          /\ \A w \in Thread : call[w].ev.id = call[u].ev.id =>
               ~Inserting(w) /\ (Renaming(w) => w = u)
      BY <3>1 DEF NamesTold, RenamesOwn
    <3>3. \A a \in Addr : objects_'[a].id = call[u].ev.id =>
             a = call[u].self /\ objects_'[a].name = call[u].ev.full
      BY <1>3, <3>1, <3>2
    <3>4. \A w \in Thread : call'[w].ev.id = call[u].ev.id =>
            ~Inserting(w)' /\ (Renaming(w)' => w = u)
      BY <1>1, <1>2, <1>5, <3>1, <3>2
    <3>5. QED
      BY <3>1, <3>2, <3>3, <3>4
  <2>3. QED
    BY <2>1, <2>2
<1>11. OuterRenames'
  BY <1>1, <1>4, <1>5 DEF NamesTold, OuterRenames, Renaming
<1>12. ASSUME NEW s, NEW due, Told(s, due), "pipe" \in due
       PROVE  ToldAfter(s, due)
  <2>1. ~DueOf(t, due) /\ DueOf(t, due)'
    BY <1>a, <1>1, <1>4, <1>12 DEF DueOf
  <2>2. Says(s, id, objects_[self].name)
    BY <1>a, <1>9, <1>12 DEF Told, Mirrored
  <2>3. \A a \in Addr :
          \/ objects_'[a].id = objects_[a].id /\ objects_'[a].name = objects_[a].name
          \/ DueOf(t, due)' /\ call'[t].ev.id = objects_'[a].id
    BY <1>2, <1>3, <2>1
  <2>4. \E n \in AnyName : n # call'[t].ev.full /\ Says(s, call'[t].ev.id, n)
    BY <1>a, <1>2, <2>2
  <2>5. QED
    BY <1>1, <1>4, <1>12, <2>1, <2>3, <2>4, SinkStays
<1>13. ToldAfter(pipe', {"pipe"}) /\ ToldAfter(log', {"pipe", "log"})
  BY <1>12 DEF NamesTold
<1>14. QED
  BY <1>8, <1>10, <1>11, <1>13, ToldAfterStep DEF NamesTold

\* What both emissions do to the ids and names that threads are about to send.
LEMMA EmitRenamesOwn ==
  ASSUME RenamesOwn, OuterRenames, NEW t \in Thread, UNCHANGED objects_,
         \A u \in Thread \ {t} : call'[u] = call[u],
         ~Inserting(t)',
         \/ /\ Renaming(t)' <=> Renaming(t)
            /\ call'[t].ev = call[t].ev /\ call'[t].self = call[t].self
            /\ call'[t].next = call[t].next /\ call[t].pc \in {"pipe", "log"}
         \/ call'[t].pc \notin {"pipe", "log"}
  PROVE  RenamesOwn' /\ OuterRenames'
<1>1. \A u \in Thread \ {t} : /\ Renaming(u)' <=> Renaming(u)
                              /\ Inserting(u)' <=> Inserting(u)
  BY DEF Renaming, Inserting
<1>2. Renaming(t)' => /\ Renaming(t) /\ call'[t].ev = call[t].ev
                      /\ call'[t].self = call[t].self
  BY DEF Renaming
<1>3. RenamesOwn'
  <2> SUFFICES ASSUME NEW u \in Thread, Renaming(u)'
               PROVE  /\ call'[u].ev.id # 0
                      /\ \A a \in Addr : objects_[a].id = call'[u].ev.id =>
                           a = call'[u].self /\ objects_[a].name = call'[u].ev.full
                      /\ \A w \in Thread : call'[w].ev.id = call'[u].ev.id =>
                           ~Inserting(w)' /\ (Renaming(w)' => w = u)
    BY DEF RenamesOwn
  <2>1. Renaming(u) /\ call'[u].ev = call[u].ev /\ call'[u].self = call[u].self
    BY <1>1, <1>2
  <2>2. /\ call[u].ev.id # 0
        /\ \A a \in Addr : objects_[a].id = call[u].ev.id =>
             a = call[u].self /\ objects_[a].name = call[u].ev.full
        /\ \A w \in Thread : call[w].ev.id = call[u].ev.id =>
             ~Inserting(w) /\ (Renaming(w) => w = u)
    BY <2>1 DEF RenamesOwn
  <2>3. ASSUME NEW w \in Thread, call'[w].ev.id = call[u].ev.id
        PROVE  ~Inserting(w)' /\ (Renaming(w)' => w = u)
    BY <1>1, <1>2, <2>2, <2>3
  <2>4. QED
    BY <2>1, <2>2, <2>3
<1>4. OuterRenames'
  BY <1>1 DEF OuterRenames, Renaming
<1>5. QED
  BY <1>3, <1>4

LEMMA EmitPipeNames ==
  ASSUME TypeInv, NamesTold, NEW t \in Thread, EmitPipe(t)
  PROVE  NamesTold'
<1>a. /\ call \in [Thread -> Frame] /\ call[t].ev \in Event /\ pipe \in Seq(Event)
      /\ call[t].pc = "pipe"
  BY DEF TypeInv, TypeOK, Frame, EmitPipe
<1>1. /\ call'[t].pc = "log" /\ call'[t].ev = call[t].ev /\ call'[t].self = call[t].self
      /\ call'[t].next = call[t].next
      /\ \A u \in Thread \ {t} : call'[u] = call[u]
  BY <1>a, GotoFields, KeptFields DEF EmitPipe
<1>2. pipe' = Append(pipe, call[t].ev) /\ UNCHANGED <<log, objects_>>
  BY DEF EmitPipe, trackVars
<1>3. (Renaming(t)' <=> Renaming(t)) /\ ~Inserting(t)'
  BY <1>a, <1>1 DEF Renaming, Inserting
<1>4. NamesAlone(t)
  BY <1>a, <1>1 DEF NamesAlone, InNamingCall, NamingPC
<1>5. OneNamer' /\ RenamesOwn' /\ OuterRenames'
  BY <1>a, <1>1, <1>2, <1>3, <1>4, OneNamerStep, EmitRenamesOwn DEF NamesTold
<1>6. ToldAfter(Append(pipe, call[t].ev), {"pipe"})
  BY <1>a, <1>1, <1>2, <1>3, SinkSpeaks DEF NamesTold
<1>7. ToldAfter(log, {"pipe", "log"})
  <2>1. DueOf(t, {"pipe", "log"})' <=> DueOf(t, {"pipe", "log"})
    BY <1>a, <1>1, <1>3 DEF DueOf
  <2>2. DueOf(t, {"pipe", "log"}) =>
          \E n \in AnyName : n # call[t].ev.full /\ Says(log, call[t].ev.id, n)
    BY DEF NamesTold, Told, TellsNew, DueOf
  <2>3. QED
    BY <1>1, <1>2, <1>3, <2>1, <2>2, SinkStays DEF NamesTold
<1>8. QED
  BY <1>2, <1>5, <1>6, <1>7, ToldAfterStep DEF NamesTold

LEMMA EmitLogNames ==
  ASSUME TypeInv, NamesTold, NEW t \in Thread, EmitLog(t)
  PROVE  NamesTold'
<1>a. /\ call \in [Thread -> Frame] /\ call[t].ev \in Event /\ log \in Seq(Event)
      /\ call[t].pc = "log" /\ call[t].next \in {"idle", "outer"}
  BY DEF TypeInv, TypeOK, Frame, EmitLog
<1>1. /\ \A u \in Thread \ {t} : call'[u] = call[u]
      /\ \/ call'[t].pc = "idle"
         \/ call'[t].pc = "outer" /\ call'[t].self = call[t].self /\ Renaming(t)
  <2>1. CASE call[t].next = "idle"
    BY <1>a, <2>1, ReturnFields DEF EmitLog
  <2>2. CASE call[t].next # "idle"
    <3>1. Renaming(t)
      BY <1>a, <2>2 DEF NamesTold, OuterRenames
    <3>2. Goto(t, "outer")
      BY <1>a, <2>2 DEF EmitLog
    <3>3. QED
      BY <1>a, <3>1, <3>2, GotoFields
  <2>3. QED
    BY <2>1, <2>2
<1>2. log' = Append(log, call[t].ev) /\ UNCHANGED <<pipe, objects_>>
  BY DEF EmitLog, trackVars
<1>3. ~Renaming(t)' /\ ~Inserting(t)' /\ call'[t].pc \notin {"pipe", "log"}
  BY <1>1 DEF Renaming, Inserting
<1>4. NamesAlone(t)
  BY <1>a, <1>1 DEF NamesAlone, InNamingCall, NamingPC, Renaming
<1>5. OneNamer' /\ RenamesOwn' /\ OuterRenames'
  BY <1>1, <1>2, <1>3, <1>4, OneNamerStep, EmitRenamesOwn DEF NamesTold
<1>6. ToldAfter(Append(log, call[t].ev), {"pipe", "log"})
  BY <1>a, <1>1, <1>2, <1>3, SinkSpeaks DEF NamesTold
<1>7. ToldAfter(pipe, {"pipe"})
  <2>1. ~DueOf(t, {"pipe"})' /\ ~DueOf(t, {"pipe"})
    BY <1>a, <1>3 DEF DueOf
  <2>2. QED
    BY <1>1, <1>2, <1>3, <2>1, SinkStays DEF NamesTold
<1>8. QED
  BY <1>2, <1>5, <1>6, <1>7, ToldAfterStep DEF NamesTold

-----------------------------------------------------------------------------
(* Names: the invariant is inductive *)

\* A step of t to a label at which nothing is sent and no id is taken.
LEMMA CalmNames ==
  ASSUME TypeInv, IdInv, NamesTold, NEW t \in Thread,
         \A u \in Thread \ {t} : call'[u] = call[u],
         UNCHANGED <<pipe, log>>,
         \A a \in Addr :
           \/ objects_'[a].id = 0
           \/ objects_'[a].id = objects_[a].id /\ objects_'[a].name = objects_[a].name,
         call[t].pc \notin {"pipe", "log"}, call'[t].pc \notin {"insert", "pipe", "log"},
         \/ call'[t].pc \notin NamingPC
         \/ call[t].pc \in NamingPC /\ call'[t].self = call[t].self
         \/ \A u \in Thread \ {t} : ~InNamingCall(u, call'[t].self)
  PROVE  NamesTold'
<1>1. ~Renaming(t) /\ ~Renaming(t)' /\ ~Inserting(t)'
  BY DEF Renaming, Inserting
<1>2. NamesAlone(t)
  BY DEF NamesAlone, InNamingCall
<1>3. QED
  BY <1>1, <1>2, QuietNames

\* What the application may start on a thread.
LEMMA AppStepNames ==
  ASSUME TypeInv, IdInv, NamesTold, NEW t \in Thread, AppStep(t), "naming" \notin seen'
  PROVE  NamesTold'
<1> DEFINE Frames == \A u \in Thread \ {t} : call'[u] = call[u]
           Calm == {"heapid", "patch", "relLookup", "residency"}
<1>a. call \in [Thread -> Frame]
  BY DEF TypeInv, TypeOK
<1>b. UNCHANGED objects_ /\ UNCHANGED pipe /\ UNCHANGED log /\ call[t] = Idle
  BY DEF AppStep, RuntimeCreate, HookCreate, HookCreateShared, ReleaseUnhooked,
     HookRelease, CallSetResidencyPriority, AddRef, CallSetName,
     CallSetPrivateData, trackVars, sinkVars
<1>c. /\ call[t].pc = "idle"
      /\ Calm \cap (NamingPC \cup {"insert", "pipe", "log"}) = {}
  BY <1>b DEF Idle, NamingPC
<1>d. ASSUME NEW f, Become(t, f),
             \/ f.pc \in Calm
             \/ /\ f.pc \in {"nameLookup", "spdCall"}
                /\ \A u \in Thread \ {t} : ~InNamingCall(u, f.self)
      PROVE  NamesTold'
  <2>1. call'[t] = f /\ Frames
    BY <1>a, <1>d DEF Become
  <2>2. call[t].pc \notin {"pipe", "log"} /\ call'[t].pc \notin {"insert", "pipe", "log"}
    BY <1>c, <1>d, <2>1
  <2>3. \/ call'[t].pc \notin NamingPC
        \/ \A u \in Thread \ {t} : ~InNamingCall(u, call'[t].self)
    BY <1>c, <1>d, <2>1
  <2>4. QED
    BY <1>b, <2>1, <2>2, <2>3, CalmNames
<1>1. ASSUME UNCHANGED call
      PROVE  NamesTold'
  BY <1>b, <1>c, <1>1, CalmNames DEF NamingPC
<1>2. ASSUME NEW a \in Addr, NEW v \in VTable, NEW h \in Addr \cup {NoAddr},
             HookCreate(t, a, v, h)
      PROVE  NamesTold'
  <2> DEFINE p == IF h = NoAddr THEN "patch" ELSE "heapid"
             f == [Idle EXCEPT !.pc = p, !.self = a, !.heap = h,
                               !.ev = CreatedEvent(a, born + 1)]
  <2>1. f.pc = p
    BY DEF Idle
  <2>2. Become(t, f)
    BY <1>2 DEF HookCreate
  <2> HIDE DEF f
  <2>3. QED
    BY <1>d, <2>1, <2>2
<1>3. ASSUME NEW a \in Addr, HookCreateShared(t, a)
      PROVE  NamesTold'
  <2> DEFINE f == [Idle EXCEPT !.pc = "patch", !.self = a,
                               !.ev = CreatedEvent(a, serial[a])]
  <2>1. f.pc = "patch"
    BY DEF Idle
  <2>2. Become(t, f)
    BY <1>3 DEF HookCreateShared
  <2> HIDE DEF f
  <2>3. QED
    BY <1>d, <2>1, <2>2
<1>4. ASSUME NEW a \in Addr, HookRelease(t, a) \/ CallSetResidencyPriority(t, a)
      PROVE  NamesTold'
  <2>1. /\ [Idle EXCEPT !.pc = "relLookup", !.self = a].pc = "relLookup"
        /\ [Idle EXCEPT !.pc = "residency", !.self = a].pc = "residency"
    BY DEF Idle
  <2>2. PICK f : Become(t, f) /\ f.pc \in Calm
    BY <1>4, <2>1 DEF HookRelease, CallSetResidencyPriority
  <2>3. QED
    BY <1>d, <2>2
<1>5. ASSUME NEW a \in Addr, NamingQuirks(t, a) \subseteq seen'
      PROVE  \A u \in Thread \ {t} : ~InNamingCall(u, a)
  BY <1>5 DEF NamingQuirks
<1>6. ASSUME NEW a \in Addr, NEW n \in AnyName, CallSetName(t, a, n)
      PROVE  NamesTold'
  <2> DEFINE p == IF Hooked(a, "SetName") THEN "nameLookup" ELSE "spdCall"
             f == [Idle EXCEPT !.pc = p, !.self = a, !.name = n,
                               !.outer = Hooked(a, "SetName")]
  <2>1. f.pc = p /\ f.self = a
    BY DEF Idle
  <2>2. Become(t, f) /\ NamingQuirks(t, a) \subseteq seen'
    BY <1>6 DEF CallSetName, Observe
  <2> HIDE DEF f
  <2>3. QED
    BY <1>5, <1>d, <2>1, <2>2
<1>7. ASSUME NEW a \in Addr, NEW n \in AnyName, CallSetPrivateData(t, a, n)
      PROVE  NamesTold'
  <2> DEFINE f == [Idle EXCEPT !.pc = "spdCall", !.self = a, !.name = n]
  <2>1. f.pc = "spdCall" /\ f.self = a
    BY DEF Idle
  <2>2. Become(t, f) /\ NamingQuirks(t, a) \subseteq seen'
    BY <1>7 DEF CallSetPrivateData, Observe
  <2> HIDE DEF f
  <2>3. QED
    BY <1>5, <1>d, <2>1, <2>2
<1>8. ASSUME NEW a \in Addr, NEW v \in VTable, RuntimeCreate(t, a, v)
      PROVE  NamesTold'
  BY <1>8, <1>1 DEF RuntimeCreate
<1>9. ASSUME NEW a \in Addr, NEW u \in Thread, ReleaseUnhooked(t, a) \/ AddRef(t, u, a)
      PROVE  NamesTold'
  BY <1>9, <1>1 DEF ReleaseUnhooked, AddRef
<1>10. QED
  BY <1>2, <1>3, <1>4, <1>6, <1>7, <1>8, <1>9 DEF AppStep

\* The rest of a call that has started.
LEMMA HookStepNames ==
  ASSUME TypeInv, DeathInv, IdInv, LifeInv, NamesTold, NEW t \in Thread, HookStep(t)
  PROVE  NamesTold'
<1> DEFINE Frames == \A u \in Thread \ {t} : call'[u] = call[u]
           Sinks == UNCHANGED pipe /\ UNCHANGED log
           Calm == PC \ {"insert", "pipe", "log"}
           Plain == Calm \ NamingPC
           NoNew == \A a \in Addr :
                      \/ objects_'[a].id = 0
                      \/ /\ objects_'[a].id = objects_[a].id
                         /\ objects_'[a].name = objects_[a].name
<1>a. /\ call \in [Thread -> Frame] /\ objects_ \in [Addr -> Record]
      /\ call[t].pc \in PC /\ next_id_ \in Nat
  BY DEF TypeInv, TypeOK, Frame
<1>b. /\ Calm \cap {"insert", "pipe", "log"} = {} /\ Plain \cap NamingPC = {} /\ Plain \subseteq Calm
      /\ "idle" \in Plain
      /\ {"heapid", "patch", "fetch", "relLookup", "relReal", "erase", "residency"} \subseteq Plain
      /\ PatchPC \subseteq Plain
      /\ NamingPC \subseteq Calm /\ NamingPC \cap {"insert", "pipe", "log"} = {}
  BY DEF PC, NamingPC, PatchPC
<1> HIDE DEF Calm, Plain
<1>c. ASSUME Sinks, UNCHANGED objects_, NEW p \in Plain, Goto(t, p) \/ Return(t),
             call[t].pc \in Calm
      PROVE  NamesTold'
  <2>1. call'[t].pc \in Plain /\ Frames
    BY <1>a, <1>b, <1>c, GotoFields, ReturnFields
  <2>2. /\ call[t].pc \notin {"pipe", "log"} /\ call'[t].pc \notin {"insert", "pipe", "log"}
        /\ call'[t].pc \notin NamingPC
    BY <1>b, <1>c, <2>1
  <2>3. QED
    BY <1>c, <2>1, <2>2, CalmNames
<1>d. ASSUME Sinks, UNCHANGED objects_, NEW p \in NamingPC, Goto(t, p) \/ Return(t),
             call[t].pc \in NamingPC
      PROVE  NamesTold'
  <2>1. CASE Return(t)
    BY <1>b, <1>c, <1>d, <2>1
  <2>2. CASE Goto(t, p)
    <3>1. call'[t].pc = p /\ call'[t].self = call[t].self /\ Frames
      BY <1>a, <2>2, GotoFields
    <3>2. /\ call[t].pc \notin {"pipe", "log"} /\ call'[t].pc \notin {"insert", "pipe", "log"}
      BY <1>b, <1>d, <3>1
    <3>3. QED
      BY <1>d, <3>1, <3>2, CalmNames
  <2>3. QED
    BY <1>d, <2>1, <2>2
\* A destroyed or a residency event is going to be sent.
<1>e. ASSUME Sinks, NoNew, NEW e, e.kind # "Renamed", Emit(t, e, "idle"),
             call[t].pc \in Plain
      PROVE  NamesTold'
  <2>1. /\ call'[t].pc = "pipe" /\ call'[t].ev = e /\ call'[t].next = "idle" /\ Frames
        /\ call'[t].self = call[t].self
    BY <1>a, <1>e, EmitFields, KeptFields
  <2>2. call[t].pc \notin {"pipe", "log"} /\ call[t].pc \notin NamingPC
    BY <1>b, <1>e
  <2>3. ~Renaming(t) /\ ~Renaming(t)' /\ ~Inserting(t)'
    BY <1>e, <2>1, <2>2 DEF Renaming, Inserting
  <2>4. NamesAlone(t)
    BY <1>e, <2>1 DEF NamesAlone, InNamingCall, NamingPC
  <2>5. QED
    BY <1>e, <2>1, <2>3, <2>4, QuietNames
<1>1. ASSUME LookupHeapId(t)
      PROVE  NamesTold'
  <2> DEFINE f == [call[t] EXCEPT !.pc = "patch",
                     !.ev = [@ EXCEPT !.ref = objects_[call[t].heap].id]]
  <2>1. f.pc = "patch"
    BY <1>a DEF Frame
  <2>2. call'[t] = f /\ Frames
    BY <1>1, <1>a DEF LookupHeapId, Become
  <2> HIDE DEF f
  <2>3. UNCHANGED objects_ /\ Sinks /\ call[t].pc = "heapid"
    BY <1>1 DEF LookupHeapId, trackVars, sinkVars
  <2>4. /\ call[t].pc \notin {"pipe", "log"} /\ call'[t].pc \notin {"insert", "pipe", "log"}
        /\ call'[t].pc \notin NamingPC
    BY <2>1, <2>2, <2>3 DEF NamingPC
  <2>5. QED
    BY <2>2, <2>3, <2>4, CalmNames
<1>2. ASSUME PatchVTableIfNew(t)
      PROVE  NamesTold'
  <2>1. /\ UNCHANGED objects_ /\ Sinks /\ call[t].pc \in Calm
        /\ Goto(t, "fetch") \/ Goto(t, "Release")
    BY <1>2, <1>b DEF PatchVTableIfNew, trackVars, sinkVars
  <2>2. QED
    BY <1>b, <1>c, <2>1 DEF PatchPC
<1>3. ASSUME NEW s \in Slot, PatchSlot(t, s)
      PROVE  NamesTold'
  <2>1. /\ UNCHANGED objects_ /\ Sinks /\ call[t].pc = s
        /\ Goto(t, AfterSlot(s))
    BY <1>3 DEF PatchSlot, trackVars, sinkVars
  <2>2. call[t].pc \in Calm /\ AfterSlot(s) \in Plain
    BY <1>b, <2>1 DEF Slot, AfterSlot, PatchPC
  <2>3. QED
    BY <1>c, <2>1, <2>2
<1>4. ASSUME Emplace(t)
      PROVE  NamesTold'
  <2>1. UNCHANGED objects_ /\ Sinks /\ call[t].pc \in Calm /\ Goto(t, "fetch")
    BY <1>4, <1>b DEF Emplace, trackVars, sinkVars, PatchPC
  <2>2. QED
    BY <1>b, <1>c, <2>1
<1>5. ASSUME FetchId(t)
      PROVE  NamesTold'
  <2> DEFINE f == [call[t] EXCEPT !.pc = "insert", !.ev = [@ EXCEPT !.id = next_id_]]
  <2>1. f.pc = "insert" /\ f.ev.id = next_id_
    BY <1>a DEF Frame, Event
  <2>2. call'[t] = f /\ Frames
    BY <1>5, <1>a DEF FetchId, Become
  <2> HIDE DEF f
  <2>3. UNCHANGED objects_ /\ Sinks /\ call[t].pc = "fetch"
    BY <1>5 DEF FetchId, sinkVars
  <2>4. ~Renaming(t) /\ ~Renaming(t)' /\ call'[t].pc \notin {"pipe", "log"}
    BY <2>1, <2>2, <2>3 DEF Renaming
  <2>5. NamesAlone(t)
    BY <2>1, <2>2 DEF NamesAlone, InNamingCall, NamingPC
  <2>6. QED
    BY <2>1, <2>2, <2>3, <2>4, <2>5, QuietNames
<1>6. ASSUME Insert(t)
      PROVE  NamesTold'
  BY <1>6, InsertNames
<1>7. ASSUME EmitPipe(t) \/ EmitLog(t)
      PROVE  NamesTold'
  BY <1>7, EmitPipeNames, EmitLogNames
<1>8. ASSUME ReleaseLookup(t) \/ ReleaseReal(t)
      PROVE  NamesTold'
  <2>1. /\ UNCHANGED objects_ /\ Sinks /\ call[t].pc \in Calm
        /\ Goto(t, "relReal") \/ Goto(t, "erase") \/ Return(t)
    BY <1>8, <1>b DEF ReleaseLookup, ReleaseReal, trackVars, sinkVars
  <2>2. QED
    BY <1>b, <1>c, <2>1
<1>9. ASSUME OnReleaseToZero(t)
      PROVE  NamesTold'
  <2>1. CASE objects_[call[t].self].id = 0
    <3>1. UNCHANGED objects_ /\ Sinks /\ call[t].pc \in Calm /\ Return(t)
      BY <1>9, <1>b, <2>1 DEF OnReleaseToZero, sinkVars
    <3>2. QED
      BY <1>b, <1>c, <3>1
  <2>2. CASE objects_[call[t].self].id # 0
    <3>1. /\ objects_' = [objects_ EXCEPT ![call[t].self] = NoRecord]
          /\ Emit(t, DestroyedEvent(objects_[call[t].self]), "idle")
          /\ Sinks /\ call[t].pc \in Plain
      BY <1>9, <1>b, <2>2 DEF OnReleaseToZero, sinkVars
    <3>2. NoNew
      BY <1>a, <3>1 DEF NoRecord
    <3>3. DestroyedEvent(objects_[call[t].self]).kind # "Renamed"
      BY DEF DestroyedEvent, NoEvent
    <3>4. QED
      BY <1>e, <3>1, <3>2, <3>3
  <2>3. QED
    BY <2>1, <2>2
<1>10. ASSUME \/ SetNameLookup(t) \/ SetPrivateDataDispatch(t) \/ SetPrivateDataLookup(t)
              \/ HookSetPrivateData(t)
       PROVE  NamesTold'
  <2>1. /\ UNCHANGED objects_ /\ Sinks /\ call[t].pc \in NamingPC
        /\ \E p \in NamingPC : Goto(t, p) \/ Return(t)
    BY <1>10 DEF SetNameLookup, SetPrivateDataDispatch, SetPrivateDataLookup,
       HookSetPrivateData, AfterSetPrivateData, trackVars, sinkVars, NamingPC
  <2>2. QED
    BY <1>d, <2>1
<1>11. ASSUME NEW done \in {"idle", "outer"}, OnSetName(t, done),
              call[t].pc \in {"onSetName", "outer"}
       PROVE  NamesTold'
  <2> DEFINE r == objects_[call[t].self]
             n == call[t].name
  <2>1. CASE r.id = 0 \/ r.name = n
    <3>1. /\ UNCHANGED objects_ /\ Sinks /\ call[t].pc \in NamingPC
          /\ Goto(t, "outer") \/ Return(t)
      BY <1>11, <2>1 DEF OnSetName, sinkVars, NamingPC
    <3>2. QED
      BY <1>d, <3>1 DEF NamingPC
  <2>2. CASE ~(r.id = 0 \/ r.name = n)
    <3>1. /\ objects_' = [objects_ EXCEPT ![call[t].self].name = n]
          /\ Emit(t, RenamedEvent(r, n), done) /\ Sinks
      BY <1>11, <2>2 DEF OnSetName, sinkVars
    <3>2. Behind(t)
      BY <1>11 DEF Behind
    <3>3. QED
      BY <2>2, <3>1, <3>2, RenameNames
  <2>3. QED
    BY <2>1, <2>2
<1>12. ASSUME InnerOnSetName(t) \/ OuterOnSetName(t)
       PROVE  NamesTold'
  BY <1>11, <1>12 DEF InnerOnSetName, OuterOnSetName
<1>13. ASSUME ResidencyLookup(t)
       PROVE  NamesTold'
  <2>1. /\ UNCHANGED objects_ /\ Sinks /\ call[t].pc \in Plain
        /\ Emit(t, ResidencyEvent(call[t].self, objects_[call[t].self]), "idle")
    BY <1>13, <1>b DEF ResidencyLookup, trackVars, sinkVars
  <2>2. ResidencyEvent(call[t].self, objects_[call[t].self]).kind # "Renamed"
    BY DEF ResidencyEvent, NoEvent
  <2>3. QED
    BY <1>e, <2>1, <2>2
<1>14. QED
  BY <1>1, <1>2, <1>3, <1>4, <1>5, <1>6, <1>7, <1>8, <1>9, <1>10, <1>12, <1>13 DEF HookStep

LEMMA InitNames == Init => NameInv
<1> SUFFICES ASSUME Init PROVE NamesTold
  BY DEF NameInv, NamesTold
<1>1. \A t \in Thread : call[t].pc = "idle"
  BY DEF Init, Idle
<1>2. OneNamer /\ RenamesOwn /\ OuterRenames
  BY <1>1 DEF OneNamer, InNamingCall, NamingPC, RenamesOwn, OuterRenames, Renaming
<1>3. \A a \in Addr : objects_[a].id = 0
  BY DEF Init, NoRecord
<1>4. Len(pipe) = 0 /\ Len(log) = 0
  BY DEF Init
<1>5. Told(pipe, {"pipe"})
  BY <1>1, <1>3, <1>4 DEF Told, Mirrored, TellsNew, Unheard, NoEcho, Renaming, Inserting
<1>6. Told(log, {"pipe", "log"})
  BY <1>1, <1>3, <1>4 DEF Told, Mirrored, TellsNew, Unheard, NoEcho, Renaming, Inserting
<1>7. QED
  BY <1>2, <1>5, <1>6 DEF NamesTold

LEMMA NameStep == SettledInv /\ NameInv /\ [Next]_vars => NameInv'
<1> SUFFICES ASSUME SettledInv, NameInv, [Next]_vars, "naming" \notin seen'
             PROVE  NamesTold'
  BY DEF NameInv, NamesTold
<1>a. TypeInv /\ DeathInv /\ IdInv /\ LifeInv
  BY DEF SettledInv, PatchInv
<1>1. CASE UNCHANGED vars
  <2>1. UNCHANGED <<objects_, call, pipe, log, seen>>
    BY <1>1 DEF vars, trackVars, sinkVars
  <2>2. NamesTold
    BY <2>1 DEF NameInv, NamesTold
  <2>3. OneNamer' /\ RenamesOwn' /\ OuterRenames'
    BY <2>1, <2>2 DEF NamesTold, OneNamer, InNamingCall, RenamesOwn, OuterRenames, Renaming, Inserting
  <2>4. Told(pipe, {"pipe"})'
    BY <2>1, <2>2 DEF NamesTold, Told, Mirrored, TellsNew, Unheard, Renaming, Inserting
  <2>5. Told(log, {"pipe", "log"})'
    BY <2>1, <2>2 DEF NamesTold, Told, Mirrored, TellsNew, Unheard, Renaming, Inserting
  <2>6. QED
    BY <2>3, <2>4, <2>5 DEF NamesTold
<1>2. ASSUME NEW t \in Thread, AppStep(t) \/ HookStep(t)
      PROVE  NamesTold'
  <2>1. NamesTold
    BY <1>2, SeenGrows DEF NameInv, NamesTold
  <2>2. QED
    BY <1>a, <1>2, <2>1, AppStepNames, HookStepNames
<1>3. QED
  BY <1>1, <1>2 DEF Next

\* SetName runs OnSetName twice, once for the SetPrivateData call it forwards
\* to, and the record's name lets only one of them report: two renamed events
\* of an id in a row stand for different names on the pipe and in the log, even
\* where EmitRenamed cuts both to the same beginning.
THEOREM NoEchoes == Spec => []NoRenameEcho
<1>1. NameInv => NoRenameEcho
  BY DEF NameInv, Told, NoEcho, NoRenameEcho
<1>2. QED
  BY <1>1, InitNames, InitSettled, NameStep, SettledStep, PTL DEF Spec

-----------------------------------------------------------------------------
(* Names of objects: the inductive invariant *)

\* A vtable with an entry has all its hooks, and a vtable that is being patched
\* has them in the slots dealt with.
AllHooked ==
  /\ \A v \in VTable, s \in Slot : vtable_patches_[v] # Unpatched => slot[v][s] = "hook"
  /\ \A t \in Thread : call[t].pc \in PatchPC =>
       \A s \in Done(call[t].pc) : Hooked(call[t].self, s)

\* There is an entry for the vtable of every object with a record.
Patched(a) == vtable_patches_[vt[a]] # Unpatched
RecordsPatched ==
  /\ \A a \in Addr : objects_[a].id # 0 /\ refs[a] # {} => Patched(a)
  /\ \A t \in Thread : call[t].pc \in {"fetch", "insert"} => Patched(call[t].self)

\* The record of an object has the object's name, or OnSetName follows.
NamesFollow ==
  \A a \in Addr : objects_[a].id # 0 =>
    \/ objects_[a].name = rname[a]
    \/ \E t \in Thread : Behind(t) /\ call[t].self = a

\* t is inside a naming call.
InNaming(t) == InNamingCall(t, call[t].self)

\* The name that a thread has set is the object's; removing one goes through
\* SetName, which runs OnSetName; and an object under registration has no name.
NamesKnown ==
  \A t \in Thread :
    /\ Behind(t) \/ Renaming(t) => rname[call[t].self] = call[t].name
    /\ InNaming(t) /\ call[t].name = NoName =>
         call[t].outer \/ objects_[call[t].self].id = 0
    /\ call[t].pc \in RegisterPC => rname[call[t].self] = NoName

NamesKept == AllHooked /\ RecordsPatched /\ NamesFollow /\ NamesKnown

KeepInv == seen = {} => NamesKept

-----------------------------------------------------------------------------
(* Names of objects: what a step does *)

\* What Goto and Emit do to the rest of a frame.
LEMMA NameFields ==
  ASSUME NEW t \in Thread, call \in [Thread -> Frame]
  PROVE  /\ \A p : Goto(t, p) => call'[t].name = call[t].name /\ call'[t].outer = call[t].outer
         /\ \A e, n : Emit(t, e, n) =>
              call'[t].name = call[t].name /\ call'[t].outer = call[t].outer
<1>1. call[t] \in Frame
  OBVIOUS
<1>2. ASSUME NEW p, Goto(t, p)
      PROVE  call'[t].name = call[t].name /\ call'[t].outer = call[t].outer
  <2> DEFINE f == [call[t] EXCEPT !.pc = p]
  <2>1. f.name = call[t].name /\ f.outer = call[t].outer
    BY <1>1 DEF Frame
  <2>2. call'[t] = f
    BY <1>2 DEF Goto, Become
  <2>3. QED
    BY <2>1, <2>2
<1>3. ASSUME NEW e, NEW n, Emit(t, e, n)
      PROVE  call'[t].name = call[t].name /\ call'[t].outer = call[t].outer
  <2> DEFINE f == [call[t] EXCEPT !.pc = "pipe", !.ev = e, !.next = n]
  <2>1. f.name = call[t].name /\ f.outer = call[t].outer
    BY <1>1 DEF Frame
  <2>2. call'[t] = f
    BY <1>3 DEF Emit, Become
  <2>3. QED
    BY <2>1, <2>2
<1>4. QED
  BY <1>2, <1>3

LEMMA StepIsClean ==
  ASSUME PatchInv, NEW t \in Thread, AppStep(t) \/ HookStep(t), "shared" \notin seen'
  PROVE  CleanStep(t) /\ \A u \in Thread \ {t} : call'[u] = call[u]
<1>a. call \in [Thread -> Frame] /\ refs \in [Addr -> SUBSET Thread]
  BY DEF PatchInv, TypeInv, TypeOK
<1>1. ASSUME AppStep(t)
      PROVE  CleanStep(t)
  <2>1. ASSUME NEW a \in Addr, NEW v \in VTable, NEW h \in Addr \cup {NoAddr},
               RuntimeCreate(t, a, v) \/ HookCreate(t, a, v, h)
        PROVE  CleanStep(t)
    BY <2>1 DEF RuntimeCreate, HookCreate, CleanStep, Allocate, Observe
  <2>2. ASSUME NEW a \in Addr, HookCreateShared(t, a)
        PROVE  CleanStep(t)
    BY <2>2 DEF HookCreateShared, Observe
  <2>3. ASSUME NEW a \in Addr, ReleaseUnhooked(t, a)
        PROVE  CleanStep(t)
    BY <2>3 DEF ReleaseUnhooked, CleanStep
  <2>4. ASSUME NEW a \in Addr, NEW u \in Thread, AddRef(t, u, a)
        PROVE  CleanStep(t)
    BY <2>4 DEF AddRef, CleanStep
  <2>5. ASSUME NEW a \in Addr, NEW n \in AnyName,
               \/ HookRelease(t, a) \/ CallSetResidencyPriority(t, a)
               \/ CallSetName(t, a, n) \/ CallSetPrivateData(t, a, n)
        PROVE  CleanStep(t)
    BY <2>5 DEF HookRelease, CallSetResidencyPriority, CallSetName, CallSetPrivateData,
       CleanStep, Observe, runtimeVars
  <2>6. NoName \in AnyName /\ NoAddr \in Addr \cup {NoAddr}
    BY DEF AnyName
  <2>7. QED
    BY <1>1, <2>1, <2>2, <2>3, <2>4, <2>5, <2>6 DEF AppStep
<1>2. ASSUME HookStep(t)
      PROVE  CleanStep(t)
  <2>1. CASE ReleaseReal(t)
    <3>1. RealRelease(t, call[t].self) /\ call[t].pc = "relReal" /\ seen' = seen
      BY <2>1 DEF ReleaseReal
    <3>2. t \in refs[call[t].self] /\ call[t].self \in Addr
      BY <3>1 DEF PatchInv, Held, HeldPC, PC, TypeInv, CallOK
    <3>3. QED
      BY <3>1, <3>2 DEF CleanStep
  <2>2. CASE ~ReleaseReal(t)
    BY <1>2, <2>2 DEF HookStep, LookupHeapId, PatchVTableIfNew, PatchSlot, Emplace, FetchId,
       Insert, EmitPipe, EmitLog, ReleaseLookup, OnReleaseToZero, SetNameLookup,
       SetPrivateDataLookup, SetPrivateDataDispatch, HookSetPrivateData, RealSetPrivateData,
       InnerOnSetName, OuterOnSetName, OnSetName, ResidencyLookup, Observe, runtimeVars, CleanStep
  <2>3. QED
    BY <2>1, <2>2
<1>3. ASSUME NEW u \in Thread \ {t}
      PROVE  call'[u] = call[u]
  <2>1. ASSUME NEW f, Become(t, f)
        PROVE  call'[u] = call[u]
    BY <1>a, <2>1 DEF Become
  <2>2. UNCHANGED call \/ \E f : Become(t, f)
    <3>1. ASSUME AppStep(t) PROVE UNCHANGED call \/ \E f : Become(t, f)
      BY <3>1 DEF AppStep, RuntimeCreate, HookCreate, HookCreateShared, ReleaseUnhooked,
         HookRelease, CallSetResidencyPriority, AddRef, CallSetName, CallSetPrivateData
    <3>2. ASSUME HookStep(t) PROVE UNCHANGED call \/ \E f : Become(t, f)
      BY <3>2 DEF HookStep, LookupHeapId, PatchVTableIfNew, PatchSlot, Emplace, FetchId,
         Insert, EmitPipe, EmitLog, ReleaseLookup, ReleaseReal, OnReleaseToZero, SetNameLookup,
         SetPrivateDataLookup, SetPrivateDataDispatch, HookSetPrivateData, AfterSetPrivateData,
         InnerOnSetName, OuterOnSetName, OnSetName, ResidencyLookup, Goto, Return, Emit
    <3>3. QED
      BY <3>1, <3>2
  <2>3. QED
    BY <2>1, <2>2
<1>4. QED
  BY <1>1, <1>2, <1>3

\* A record and the references to its object while no quirk happens.
LEMMA RecordedStays ==
  ASSUME SettledInv, NEW t \in Thread, AppStep(t) \/ HookStep(t), seen' = {}
  PROVE  /\ seen = {}
         /\ \A u \in Thread \ {t} : call'[u] = call[u]
         /\ \A a \in Addr :
              /\ refs[a] # {} => vt'[a] = vt[a]
              /\ objects_[a].id # 0 => vt'[a] = vt[a] /\ (refs'[a] # {} => refs[a] # {})
              /\ refs[a] = {} /\ (\E v \in VTable : Allocate(t, a, v)) => objects_[a].id = 0
<1>1. seen = {} /\ Undisturbed /\ Undisturbed' /\ "shared" \notin seen' /\ "reuse" \notin seen'
  BY SeenGrows DEF Undisturbed
<1>2. CleanStep(t) /\ \A u \in Thread \ {t} : call'[u] = call[u]
  BY <1>1, StepIsClean DEF SettledInv
<1>3. RefStep(t) /\ \A a \in Addr : Keeps(a)
  BY <1>1, <1>2, CleanStepFacts DEF SettledInv, PatchInv, DeathInv, SettleInv
<1>4. \A a \in Addr : objects_[a].id # 0 /\ refs[a] = {} => InReleaseWindow(a)
  BY <1>1 DEF SettledInv, SettleInv, RecordsTracked
<1>5. \A a \in Addr : refs[a] # {} \/ objects_[a].id # 0 => vt'[a] = vt[a]
  BY <1>3, <1>4 DEF Keeps
<1>6. ASSUME NEW a \in Addr, objects_[a].id # 0, refs[a] = {}
      PROVE  refs'[a] = {}
  BY <1>1, <1>3, <1>4, <1>6 DEF RefStep
<1>7. ASSUME NEW a \in Addr, refs[a] = {}, NEW v \in VTable, Allocate(t, a, v)
      PROVE  objects_[a].id = 0
  BY <1>1, <1>4, <1>7 DEF Allocate, Observe
<1>8. QED
  BY <1>1, <1>2, <1>5, <1>6, <1>7

\* The runtime's SetPrivateData names the object of t's call.
SetsName(t) ==
  \/ call[t].pc = "spdCall" /\ ~Hooked(call[t].self, "SetPrivateData")
  \/ call[t].pc = "spdReal"

LEMMA RuntimeNames ==
  ASSUME SettledInv, NEW t \in Thread, AppStep(t) \/ HookStep(t), seen' = {}, NEW a \in Addr
  PROVE  \/ rname'[a] = rname[a]
         \/ refs[a] = {} /\ objects_[a].id = 0 /\ rname'[a] = NoName
         \/ call[t].self = a /\ SetsName(t) /\ rname'[a] = call[t].name
<1>a. rname \in [Addr -> AnyName]
  BY DEF SettledInv, PatchInv, TypeInv, TypeOK
<1>1. ASSUME NEW b \in Addr, NEW v \in VTable, Allocate(t, b, v)
      PROVE  \/ rname'[a] = rname[a]
             \/ refs[a] = {} /\ objects_[a].id = 0 /\ rname'[a] = NoName
  <2>1. rname' = [rname EXCEPT ![b] = NoName] /\ refs[b] = {}
    BY <1>1 DEF Allocate
  <2>2. objects_[b].id = 0
    BY <1>1, <2>1, RecordedStays
  <2>3. QED
    BY <1>a, <2>1, <2>2
<1>2. ASSUME RealSetPrivateData(t), SetsName(t)
      PROVE  \/ rname'[a] = rname[a]
             \/ call[t].self = a /\ SetsName(t) /\ rname'[a] = call[t].name
  BY <1>a, <1>2 DEF RealSetPrivateData
<1>3. \/ UNCHANGED rname
      \/ \E b \in Addr, v \in VTable : Allocate(t, b, v)
      \/ RealSetPrivateData(t) /\ SetsName(t)
  <2>1. ASSUME AppStep(t)
        PROVE  UNCHANGED rname \/ \E b \in Addr, v \in VTable : Allocate(t, b, v)
    BY <2>1 DEF AppStep, RuntimeCreate, HookCreate, HookCreateShared, ReleaseUnhooked,
       HookRelease, CallSetResidencyPriority, AddRef, CallSetName, CallSetPrivateData,
       RealRelease, runtimeVars
  <2>2. ASSUME HookStep(t)
        PROVE  \/ UNCHANGED rname
               \/ RealSetPrivateData(t) /\ SetsName(t)
    BY <2>2 DEF HookStep, LookupHeapId, PatchVTableIfNew, PatchSlot, Emplace, FetchId, Insert,
       EmitPipe, EmitLog, ReleaseLookup, ReleaseReal, RealRelease, OnReleaseToZero, SetNameLookup,
       SetPrivateDataLookup, SetPrivateDataDispatch, HookSetPrivateData, SetsName,
       InnerOnSetName, OuterOnSetName, OnSetName, ResidencyLookup, runtimeVars
  <2>3. QED
    BY <2>1, <2>2
<1>4. QED
  BY <1>1, <1>2, <1>3

\* The runtime names an object through the thread that is in a call on it.
LEMMA SetsNameHolds ==
  ASSUME SettledInv, NEW t \in Thread, SetsName(t)
  PROVE  /\ call[t].pc \in NamingPC /\ InNamingCall(t, call[t].self)
         /\ call[t].self \in Addr /\ t \in refs[call[t].self]
  BY DEF SettledInv, PatchInv, TypeInv, CallOK, Held, HeldPC, PC, SetsName, NamingPC, InNamingCall

\* How a step treats the id and the name of the record at a.
LEMMA RecordNames ==
  ASSUME SettledInv, NEW t \in Thread, AppStep(t) \/ HookStep(t), NEW a \in Addr
  PROVE  \/ objects_'[a].id = 0
         \/ objects_'[a].id = objects_[a].id /\ objects_'[a].name = objects_[a].name
         \/ Insert(t) /\ call[t].self = a /\ objects_'[a].name = NoName
         \/ /\ Behind(t) /\ call[t].self = a
            /\ objects_'[a].id = objects_[a].id /\ objects_'[a].name = call[t].name
<1>a. objects_ \in [Addr -> Record]
  BY DEF SettledInv, PatchInv, TypeInv, TypeOK
<1>1. CASE UNCHANGED objects_
  BY <1>1
<1>2. CASE Insert(t)
  <2>1. objects_' = [objects_ EXCEPT ![call[t].self] =
          [id |-> call[t].ev.id, name |-> NoName, obj |-> call[t].ev.obj]]
    BY <1>2 DEF Insert
  <2>2. QED
    BY <1>a, <1>2, <2>1
<1>3. CASE OnReleaseToZero(t)
  <2>1. \/ UNCHANGED objects_
        \/ objects_' = [objects_ EXCEPT ![call[t].self] = NoRecord]
    BY <1>3 DEF OnReleaseToZero
  <2>2. QED
    BY <1>a, <2>1 DEF NoRecord
<1>4. CASE InnerOnSetName(t) \/ OuterOnSetName(t)
  <2>1. Behind(t)
    BY <1>4 DEF InnerOnSetName, OuterOnSetName, Behind
  <2>2. \/ UNCHANGED objects_
        \/ objects_' = [objects_ EXCEPT ![call[t].self].name = call[t].name]
    BY <1>4 DEF InnerOnSetName, OuterOnSetName, OnSetName
  <2>3. QED
    BY <1>a, <2>1, <2>2 DEF Record
<1>5. UNCHANGED objects_ \/ Insert(t) \/ OnReleaseToZero(t) \/ InnerOnSetName(t) \/ OuterOnSetName(t)
  <2>1. ASSUME AppStep(t) PROVE UNCHANGED objects_
    BY <2>1 DEF AppStep, RuntimeCreate, HookCreate, HookCreateShared, ReleaseUnhooked,
       HookRelease, CallSetResidencyPriority, AddRef, CallSetName,
       CallSetPrivateData, trackVars
  <2>2. ASSUME HookStep(t)
        PROVE  UNCHANGED objects_ \/ Insert(t) \/ OnReleaseToZero(t)
                 \/ InnerOnSetName(t) \/ OuterOnSetName(t)
    BY <2>2 DEF HookStep, LookupHeapId, PatchVTableIfNew, PatchSlot, Emplace, FetchId,
       EmitPipe, EmitLog, ReleaseLookup, ReleaseReal, SetNameLookup, SetPrivateDataLookup,
       SetPrivateDataDispatch, HookSetPrivateData, RealSetPrivateData, ResidencyLookup, trackVars
  <2>3. QED
    BY <2>1, <2>2
<1>6. QED
  BY <1>1, <1>2, <1>3, <1>4, <1>5

\* A step hooks more slots, and remembers vtables at the end of a patch.
LEMMA SlotsHooked ==
  ASSUME SettledInv, NEW t \in Thread, AppStep(t) \/ HookStep(t), NEW v \in VTable
  PROVE  /\ \A s \in Slot : slot[v][s] = "hook" => slot'[v][s] = "hook"
         /\ \/ vtable_patches_'[v] = vtable_patches_[v]
            \/ Emplace(t) /\ v = vt[call[t].self]
<1>a. /\ slot \in [VTable -> [Slot -> {"real", "hook"}]]
      /\ vtable_patches_ \in [VTable -> [Slot -> {"absent", "real", "null"}]]
  BY DEF SettledInv, PatchInv, TypeInv, TypeOK
<1>1. ASSUME AppStep(t) PROVE UNCHANGED slot /\ UNCHANGED vtable_patches_
  BY <1>1 DEF AppStep, RuntimeCreate, HookCreate, HookCreateShared, ReleaseUnhooked,
     HookRelease, CallSetResidencyPriority, AddRef, CallSetName, CallSetPrivateData, patchVars
<1>2. ASSUME HookStep(t)
      PROVE  \/ UNCHANGED slot /\ UNCHANGED vtable_patches_
             \/ Emplace(t)
             \/ \E s \in Slot : PatchSlot(t, s)
  BY <1>2 DEF HookStep, LookupHeapId, PatchVTableIfNew, FetchId, Insert,
     EmitPipe, EmitLog, ReleaseLookup, ReleaseReal, OnReleaseToZero, SetNameLookup,
     SetPrivateDataLookup, SetPrivateDataDispatch, HookSetPrivateData,
     InnerOnSetName, OuterOnSetName, OnSetName, ResidencyLookup, patchVars
<1>3. CASE Emplace(t)
  BY <1>a, <1>3 DEF Emplace
<1>4. ASSUME NEW s \in Slot, PatchSlot(t, s)
      PROVE  /\ UNCHANGED vtable_patches_
             /\ \A r \in Slot : slot[v][r] = "hook" => slot'[v][r] = "hook"
  <2>1. /\ UNCHANGED vtable_patches_
        /\ \/ slot' = [slot EXCEPT ![vt[call[t].self]][s] = "hook"]
           \/ UNCHANGED slot
    BY <1>4 DEF PatchSlot
  <2>2. QED
    BY <1>a, <2>1
<1>5. QED
  BY <1>1, <1>2, <1>3, <1>4

\* How t gets to the labels of Register.
LEMMA RegisterMoves ==
  ASSUME TypeInv, NEW t \in Thread, AppStep(t) \/ HookStep(t), seen' = {},
         call'[t].pc \in RegisterPC
  PROVE  \/ \E v \in VTable : /\ Allocate(t, call'[t].self, v)
                              /\ call'[t].self \in Addr
                              /\ call'[t].pc \in {"heapid", "patch"}
         \/ call'[t].pc \in {"heapid", "patch"} /\ call'[t] = call[t]
         \/ /\ call[t].pc \in RegisterPC /\ call'[t].self = call[t].self
            /\ UNCHANGED <<refs, vt, rname>>
            /\ \/ call'[t].pc \in {"patch", "Release"}
               \/ \E s \in Slot : PatchSlot(t, s) /\ call'[t].pc = AfterSlot(s)
               \/ Emplace(t) /\ call'[t].pc = "fetch"
               \/ Patched(call[t].self) /\ call'[t].pc = "fetch"
               \/ FetchId(t) /\ call'[t].pc = "insert"
<1> DEFINE Other == NamingPC \cup {"idle", "relLookup", "residency", "relReal", "erase", "pipe", "log"}
<1>a. call \in [Thread -> Frame] /\ call[t] \in Frame
  BY DEF TypeInv, TypeOK
<1>b. Other \cap RegisterPC = {}
  BY DEF NamingPC, RegisterPC, PatchPC
<1> HIDE DEF Other
<1>c. ASSUME NEW f, Become(t, f), f.pc \in Other
      PROVE  FALSE
  BY <1>a, <1>b, <1>c DEF Become
<1>d. ASSUME \/ Return(t) \/ \E p \in Other : Goto(t, p)
             \/ \E e, n : Emit(t, e, n)
      PROVE  FALSE
  <2>1. call'[t].pc \in Other
    BY <1>a, <1>d, ReturnFields, GotoFields, EmitFields DEF Other
  <2>2. QED
    BY <1>b, <2>1
<1>1. CASE AppStep(t)
  <2>1. call[t] = Idle
    BY <1>1 DEF AppStep, RuntimeCreate, HookCreate, HookCreateShared, ReleaseUnhooked,
       HookRelease, CallSetResidencyPriority, AddRef, CallSetName, CallSetPrivateData
  <2>2. ~UNCHANGED call
    BY <2>1 DEF Idle, RegisterPC, PatchPC
  <2>3. ASSUME NEW a \in Addr, NEW v \in VTable, NEW h \in Addr \cup {NoAddr},
               HookCreate(t, a, v, h)
        PROVE  /\ Allocate(t, call'[t].self, v) /\ call'[t].self \in Addr
               /\ call'[t].pc \in {"heapid", "patch"}
    <3> DEFINE p == IF h = NoAddr THEN "patch" ELSE "heapid"
               f == [Idle EXCEPT !.pc = p, !.self = a, !.heap = h,
                                 !.ev = CreatedEvent(a, born + 1)]
    <3>1. f.pc = p /\ f.self = a
      BY DEF Idle
    <3>2. Become(t, f) /\ Allocate(t, a, v)
      BY <2>3 DEF HookCreate
    <3> HIDE DEF f
    <3>3. call'[t] = f
      BY <1>a, <3>2 DEF Become
    <3>4. QED
      BY <3>1, <3>2, <3>3
  <2>4. ASSUME NEW a \in Addr, HookRelease(t, a) \/ CallSetResidencyPriority(t, a)
        PROVE  FALSE
    <3>1. /\ [Idle EXCEPT !.pc = "relLookup", !.self = a].pc = "relLookup"
          /\ [Idle EXCEPT !.pc = "residency", !.self = a].pc = "residency"
      BY DEF Idle
    <3>2. PICK f : Become(t, f) /\ f.pc \in {"relLookup", "residency"}
      BY <2>4, <3>1 DEF HookRelease, CallSetResidencyPriority
    <3>3. f.pc \in Other
      BY <3>2 DEF Other
    <3>4. QED
      BY <1>c, <3>2, <3>3
  <2>5. ASSUME NEW a \in Addr, NEW n \in AnyName, CallSetName(t, a, n)
        PROVE  FALSE
    <3> DEFINE p == IF Hooked(a, "SetName") THEN "nameLookup" ELSE "spdCall"
               f == [Idle EXCEPT !.pc = p, !.self = a, !.name = n,
                                 !.outer = Hooked(a, "SetName")]
    <3>1. f.pc = p
      BY DEF Idle
    <3>2. Become(t, f)
      BY <2>5 DEF CallSetName
    <3>3. p \in Other
      BY DEF Other, NamingPC
    <3> HIDE DEF f, p
    <3>4. QED
      BY <1>c, <3>1, <3>2, <3>3
  <2>6. ASSUME NEW a \in Addr, NEW n \in AnyName, CallSetPrivateData(t, a, n)
        PROVE  FALSE
    <3> DEFINE f == [Idle EXCEPT !.pc = "spdCall", !.self = a, !.name = n]
    <3>1. f.pc = "spdCall"
      BY DEF Idle
    <3>2. Become(t, f)
      BY <2>6 DEF CallSetPrivateData
    <3>3. f.pc \in Other
      BY <3>1 DEF Other, NamingPC
    <3> HIDE DEF f
    <3>4. QED
      BY <1>c, <3>2, <3>3
  <2>7. ASSUME NEW a \in Addr, HookCreateShared(t, a)
        PROVE  FALSE
    BY <2>7 DEF HookCreateShared, Observe
  <2>8. ASSUME NEW a \in Addr, NEW v \in VTable, RuntimeCreate(t, a, v)
        PROVE  FALSE
    BY <2>2, <2>8 DEF RuntimeCreate
  <2>9. ASSUME NEW a \in Addr, NEW u \in Thread, ReleaseUnhooked(t, a) \/ AddRef(t, u, a)
        PROVE  FALSE
    BY <2>2, <2>9 DEF ReleaseUnhooked, AddRef
  <2>10. QED
    BY <1>1, <2>3, <2>4, <2>5, <2>6, <2>7, <2>8, <2>9 DEF AppStep
<1>2. CASE HookStep(t)
  <2>1. ASSUME LookupHeapId(t)
        PROVE  /\ call[t].pc \in RegisterPC /\ call'[t].self = call[t].self
               /\ UNCHANGED <<refs, vt, rname>> /\ call'[t].pc = "patch"
    <3> DEFINE f == [call[t] EXCEPT !.pc = "patch",
                       !.ev = [@ EXCEPT !.ref = objects_[call[t].heap].id]]
    <3>1. f.pc = "patch" /\ f.self = call[t].self
      BY <1>a DEF Frame
    <3>2. call'[t] = f
      BY <2>1, <1>a DEF LookupHeapId, Become
    <3> HIDE DEF f
    <3>3. QED
      BY <2>1, <3>1, <3>2 DEF LookupHeapId, RegisterPC, runtimeVars
  <2>2. ASSUME FetchId(t)
        PROVE  /\ call[t].pc \in RegisterPC /\ call'[t].self = call[t].self
               /\ UNCHANGED <<refs, vt, rname>> /\ call'[t].pc = "insert"
    <3> DEFINE f == [call[t] EXCEPT !.pc = "insert", !.ev = [@ EXCEPT !.id = next_id_]]
    <3>1. f.pc = "insert" /\ f.self = call[t].self
      BY <1>a DEF Frame
    <3>2. call'[t] = f
      BY <2>2, <1>a DEF FetchId, Become
    <3> HIDE DEF f
    <3>3. QED
      BY <2>2, <3>1, <3>2 DEF FetchId, RegisterPC, runtimeVars
  <2>3. ASSUME PatchVTableIfNew(t)
        PROVE  /\ call[t].pc \in RegisterPC /\ call'[t].self = call[t].self
               /\ UNCHANGED <<refs, vt, rname>>
               /\ \/ Patched(call[t].self) /\ call'[t].pc = "fetch"
                  \/ call'[t].pc = "Release"
    <3>1. /\ call[t].pc = "patch" /\ UNCHANGED runtimeVars
          /\ \/ Goto(t, "Release")
             \/ Patched(call[t].self) /\ Goto(t, "fetch")
      BY <2>3 DEF PatchVTableIfNew, Patched
    <3>2. QED
      BY <1>a, <3>1, GotoFields DEF RegisterPC, runtimeVars
  <2>4. ASSUME NEW s \in Slot, PatchSlot(t, s)
        PROVE  /\ call[t].pc \in RegisterPC /\ call'[t].self = call[t].self
               /\ UNCHANGED <<refs, vt, rname>> /\ call'[t].pc = AfterSlot(s)
    <3>1. call[t].pc = s /\ UNCHANGED runtimeVars /\ Goto(t, AfterSlot(s))
      BY <2>4 DEF PatchSlot
    <3>2. QED
      BY <1>a, <3>1, GotoFields DEF RegisterPC, PatchPC, Slot, runtimeVars
  <2>5. ASSUME Emplace(t)
        PROVE  /\ call[t].pc \in RegisterPC /\ call'[t].self = call[t].self
               /\ UNCHANGED <<refs, vt, rname>> /\ call'[t].pc = "fetch"
    <3>1. call[t].pc = "emplace" /\ UNCHANGED runtimeVars /\ Goto(t, "fetch")
      BY <2>5 DEF Emplace
    <3>2. QED
      BY <1>a, <3>1, GotoFields DEF RegisterPC, PatchPC, runtimeVars
  <2>6. ASSUME Insert(t) \/ EmitPipe(t) \/ EmitLog(t)
        PROVE  FALSE
    <3>1. Return(t) \/ \E p \in {"pipe", "log", "outer"} : Goto(t, p)
      BY <2>6, <1>a DEF Insert, EmitPipe, EmitLog, Frame
    <3>2. QED
      BY <1>d, <3>1 DEF Other, NamingPC
  <2>7. ASSUME ReleaseLookup(t) \/ ReleaseReal(t) \/ OnReleaseToZero(t) \/ ResidencyLookup(t)
        PROVE  FALSE
    <3>1. \/ Return(t) \/ \E p \in {"relReal", "erase"} : Goto(t, p)
          \/ \E e, n : Emit(t, e, n)
      BY <2>7 DEF ReleaseLookup, ReleaseReal, OnReleaseToZero, ResidencyLookup
    <3>2. QED
      BY <1>d, <3>1 DEF Other
  <2>8. ASSUME \/ SetNameLookup(t) \/ SetPrivateDataDispatch(t) \/ SetPrivateDataLookup(t)
               \/ HookSetPrivateData(t) \/ InnerOnSetName(t) \/ OuterOnSetName(t)
        PROVE  FALSE
    <3>1. \/ Return(t) \/ \E p \in NamingPC : Goto(t, p)
          \/ \E e, n : Emit(t, e, n)
      BY <2>8 DEF SetNameLookup, SetPrivateDataDispatch, SetPrivateDataLookup,
         HookSetPrivateData, AfterSetPrivateData, InnerOnSetName, OuterOnSetName, OnSetName, NamingPC
    <3>2. QED
      BY <1>d, <3>1 DEF Other
  <2>9. QED
    BY <1>2, <2>1, <2>2, <2>3, <2>4, <2>5, <2>6, <2>7, <2>8 DEF HookStep
<1>3. QED
  BY <1>1, <1>2

\* The invariant's parts about hooks.
LEMMA HookedStep ==
  ASSUME SettledInv, AllHooked, NEW t \in Thread, AppStep(t) \/ HookStep(t), seen' = {}
  PROVE  AllHooked'
<1>a. /\ call \in [Thread -> Frame] /\ TypeInv
      /\ \A u \in Thread \ {t} : call'[u] = call[u]
      /\ \A a \in Addr : refs[a] # {} => vt'[a] = vt[a]
      /\ \A u \in Thread : call[u].pc \in RegisterPC \cup PatchPC =>
           call[u].self \in Addr /\ vt[call[u].self] \in VTable /\ refs[call[u].self] # {}
  <2>1. \A u \in Thread : call[u].pc \in RegisterPC \cup PatchPC =>
           call[u].self \in Addr /\ u \in refs[call[u].self]
    BY DEF SettledInv, PatchInv, Held, HeldPC, PC, TypeInv, CallOK, RegisterPC, PatchPC
  <2>2. QED
    BY <2>1, RecordedStays DEF SettledInv, PatchInv, TypeInv, TypeOK
<1>1. ASSUME NEW v \in VTable, vtable_patches_'[v] # Unpatched, NEW s \in Slot
      PROVE  slot'[v][s] = "hook"
  <2>1. CASE vtable_patches_[v] # Unpatched
    BY <2>1, SlotsHooked DEF AllHooked
  <2>2. CASE vtable_patches_[v] = Unpatched
    <3>1. Emplace(t) /\ v = vt[call[t].self]
      BY <1>1, <2>2, SlotsHooked
    <3>2. call[t].pc = "emplace" /\ Done("emplace") = Slot
      BY <3>1 DEF Emplace, Done
    <3>3. slot[v][s] = "hook"
      BY <3>1, <3>2 DEF AllHooked, PatchPC, Hooked
    <3>4. QED
      BY <3>3, SlotsHooked
  <2>3. QED
    BY <2>1, <2>2
<1>2. ASSUME NEW u \in Thread, call'[u].pc \in PatchPC, NEW s \in Done(call'[u].pc)
      PROVE  slot'[vt'[call'[u].self]][s] = "hook"
  <2>a. s \in Slot
    BY <1>2 DEF Done, Slot, PatchPC
  <2>1. CASE u # t
    <3>1. call'[u] = call[u] /\ slot[vt[call[u].self]][s] = "hook"
      BY <1>2, <1>a, <2>1 DEF AllHooked, Hooked
    <3>2. QED
      BY <1>2, <1>a, <2>a, <3>1, SlotsHooked
  <2>2. CASE u = t
    <3>1. /\ call[t].pc \in RegisterPC /\ call'[t].self = call[t].self
          /\ UNCHANGED vt
          /\ \/ call'[t].pc \in {"patch", "Release"}
             \/ \E r \in Slot : PatchSlot(t, r) /\ call'[t].pc = AfterSlot(r)
      <4>1. call'[t].pc \in RegisterPC /\ call'[t].pc \notin {"heapid", "patch", "fetch", "insert"}
        BY <1>2, <2>2 DEF RegisterPC, PatchPC
      <4>2. QED
        BY <1>a, <4>1, RegisterMoves
    <3>2. PICK r \in Slot : PatchSlot(t, r) /\ call'[t].pc = AfterSlot(r)
      BY <1>2, <2>2, <3>1 DEF Done
    <3>3. /\ call[t].pc = r /\ Done(AfterSlot(r)) = Done(r) \cup {r} /\ r \in PatchPC
      BY <3>2 DEF PatchSlot, Done, AfterSlot, Slot, PatchPC
    <3>4. slot' = [slot EXCEPT ![vt[call[t].self]][r] = "hook"]
      BY <3>2 DEF PatchSlot, Observe
    <3>5. slot'[vt[call[t].self]][r] = "hook"
      <4>1. slot \in [VTable -> [Slot -> {"real", "hook"}]] /\ vt[call[t].self] \in VTable
        BY <1>a, <3>1 DEF TypeInv, TypeOK
      <4>2. QED
        BY <3>4, <4>1
    <3>6. s # r => slot[vt[call[t].self]][s] = "hook"
      BY <1>2, <2>2, <3>2, <3>3 DEF AllHooked, Hooked
    <3>7. s # r => slot'[vt[call[t].self]][s] = "hook"
      BY <1>a, <2>a, <3>1, <3>6, SlotsHooked
    <3>8. QED
      BY <2>2, <3>1, <3>5, <3>7
  <2>3. QED
    BY <2>1, <2>2
<1>3. QED
  BY <1>1, <1>2 DEF AllHooked, Hooked

LEMMA PatchedStep ==
  ASSUME SettledInv, AllHooked, RecordsPatched,
         NEW t \in Thread, AppStep(t) \/ HookStep(t), seen' = {}
  PROVE  RecordsPatched'
<1>a. /\ call \in [Thread -> Frame] /\ TypeInv
      /\ \A u \in Thread \ {t} : call'[u] = call[u]
      /\ \A a \in Addr : vt[a] \in VTable
      /\ \A u \in Thread : call[u].pc \in RegisterPC =>
           call[u].self \in Addr /\ refs[call[u].self] # {}
  <2>1. \A u \in Thread : call[u].pc \in RegisterPC =>
           call[u].self \in Addr /\ u \in refs[call[u].self]
    BY DEF SettledInv, PatchInv, Held, HeldPC, PC, TypeInv, CallOK, RegisterPC, PatchPC
  <2>2. QED
    BY <2>1, RecordedStays DEF SettledInv, PatchInv, TypeInv, TypeOK
\* The entry that Emplace makes holds the originals of all three slots.
<1>b. ASSUME Emplace(t)
      PROVE  vtable_patches_'[vt[call[t].self]] # Unpatched
  <2>1. /\ call[t].pc = "emplace" /\ call[t].pc \in PatchPC /\ call[t].self \in Addr
        /\ Done("emplace") = Slot /\ "Release" \in Slot
        /\ vtable_patches_' = [vtable_patches_ EXCEPT
             ![vt[call[t].self]] = [s \in Slot |-> Unselfref(cap[s])]]
    BY <1>a, <1>b DEF Emplace, PatchPC, RegisterPC, Done, Slot
  <2>2. slot[vt[call[t].self]]["Release"] = "hook"
    BY <2>1 DEF AllHooked, Hooked
  <2>3. vtable_patches_[vt[call[t].self]] = Unpatched /\ mu_ = t /\ mu_ # NoThread
    BY <2>1, ConstantsAssumption DEF SettledInv, PatchInv, PatchesOnce, Mutex
  <2>4. Unpatched["Release"] = "absent"
    BY DEF Unpatched, Slot
  <2>5. cap["Release"] = "real"
    BY <1>a, <2>1, <2>2, <2>3, <2>4 DEF SettledInv, PatchInv, HookHasOriginal
  <2>6. vtable_patches_'[vt[call[t].self]]["Release"] = "real"
    <3>1. vtable_patches_ \in [VTable -> [Slot -> {"absent", "real", "null"}]]
      BY <1>a DEF TypeInv, TypeOK
    <3>2. QED
      BY <1>a, <2>1, <2>5, <3>1 DEF Unselfref
  <2>7. QED
    BY <2>4, <2>6
<1>c. ASSUME NEW v \in VTable, vtable_patches_[v] # Unpatched
      PROVE  vtable_patches_'[v] # Unpatched
  BY <1>b, <1>c, SlotsHooked
<1>1. ASSUME NEW a \in Addr, objects_'[a].id # 0, refs'[a] # {}
      PROVE  vtable_patches_'[vt'[a]] # Unpatched
  <2>1. CASE objects_'[a].id = objects_[a].id
    <3>1. refs[a] # {} /\ vt'[a] = vt[a]
      BY <1>1, <2>1, RecordedStays
    <3>2. QED
      BY <1>1, <1>a, <1>c, <2>1, <3>1 DEF RecordsPatched, Patched
  <2>2. CASE Insert(t) /\ call[t].self = a
    <3>1. call[t].pc = "insert" /\ UNCHANGED vt
      BY <2>2 DEF Insert, runtimeVars
    <3>2. QED
      BY <1>a, <1>c, <2>2, <3>1 DEF RecordsPatched, Patched
  <2>3. QED
    BY <1>1, <2>1, <2>2, RecordNames
<1>2. ASSUME NEW u \in Thread, call'[u].pc \in {"fetch", "insert"}
      PROVE  vtable_patches_'[vt'[call'[u].self]] # Unpatched
  <2>1. CASE u # t
    <3>1. /\ call'[u] = call[u] /\ call[u].pc \in {"fetch", "insert"} /\ call[u].self \in Addr
          /\ vt'[call[u].self] = vt[call[u].self]
      BY <1>2, <1>a, <2>1, RecordedStays DEF RegisterPC
    <3>2. QED
      BY <1>a, <1>c, <3>1 DEF RecordsPatched, Patched
  <2>2. CASE u = t
    <3>1. /\ call[t].pc \in RegisterPC /\ call'[t].self = call[t].self
          /\ UNCHANGED vt
          /\ \/ \E s \in Slot : call'[t].pc = AfterSlot(s)
             \/ Emplace(t)
             \/ Patched(call[t].self)
             \/ FetchId(t)
      <4>1. call'[t].pc \in RegisterPC /\ call'[t].pc \notin {"heapid", "patch", "Release"}
        BY <1>2, <2>2 DEF RegisterPC
      <4>2. QED
        BY <1>a, <4>1, RegisterMoves
    <3>2. \A s \in Slot : AfterSlot(s) \notin {"fetch", "insert"}
      BY DEF Slot, AfterSlot
    <3>3. FetchId(t) => call[t].pc = "fetch"
      BY DEF FetchId
    <3>4. Emplace(t) \/ Patched(call[t].self)
      BY <1>2, <2>2, <3>1, <3>2, <3>3 DEF RecordsPatched
    <3>5. QED
      BY <1>a, <1>b, <1>c, <2>2, <3>1, <3>4 DEF Patched
  <2>3. QED
    BY <2>1, <2>2
<1>3. QED
  BY <1>1, <1>2 DEF RecordsPatched, Patched

\* How a thread starts to name an object.
LEMMA NamingStarts ==
  ASSUME TypeInv, NEW t \in Thread, AppStep(t)
  PROVE  /\ call[t] = Idle /\ ~Behind(t)' /\ call'[t].pc \notin {"pipe", "log"}
         /\ call'[t].pc \in NamingPC => \E n \in AnyName :
              /\ call'[t].self \in Addr /\ t \in refs[call'[t].self]
              /\ call'[t].name = n
              /\ \/ call'[t].outer = Hooked(call'[t].self, "SetName")
                 \/ n = NoName => "clear" \in seen'
<1> DEFINE Calm == {"idle", "heapid", "patch", "relLookup", "residency"}
           Goal == /\ ~Behind(t)' /\ call'[t].pc \notin {"pipe", "log"}
                   /\ call'[t].pc \in NamingPC => \E n \in AnyName :
                        /\ call'[t].self \in Addr /\ t \in refs[call'[t].self]
                        /\ call'[t].name = n
                        /\ \/ call'[t].outer = Hooked(call'[t].self, "SetName")
                           \/ n = NoName => "clear" \in seen'
<1>a. call \in [Thread -> Frame]
  BY DEF TypeInv, TypeOK
<1>b. call[t] = Idle
  BY DEF AppStep, RuntimeCreate, HookCreate, HookCreateShared, ReleaseUnhooked,
     HookRelease, CallSetResidencyPriority, AddRef, CallSetName, CallSetPrivateData
<1>c. ASSUME call'[t].pc \in Calm
      PROVE  Goal
  BY <1>c DEF Behind, NamingPC
<1>d. ASSUME NEW f, Become(t, f)
      PROVE  call'[t] = f
  BY <1>a, <1>d DEF Become
<1>e. ASSUME UNCHANGED call
      PROVE  Goal
  BY <1>b, <1>c, <1>e DEF Idle
<1> HIDE DEF Goal
<1>1. ASSUME NEW a \in Addr, NEW v \in VTable, NEW h \in Addr \cup {NoAddr},
             HookCreate(t, a, v, h)
      PROVE  Goal
  <2> DEFINE p == IF h = NoAddr THEN "patch" ELSE "heapid"
             f == [Idle EXCEPT !.pc = p, !.self = a, !.heap = h,
                               !.ev = CreatedEvent(a, born + 1)]
  <2>1. f.pc = p
    BY DEF Idle
  <2>2. Become(t, f)
    BY <1>1 DEF HookCreate
  <2> HIDE DEF f
  <2>3. QED
    BY <1>c, <1>d, <2>1, <2>2
<1>2. ASSUME NEW a \in Addr, HookCreateShared(t, a)
      PROVE  Goal
  <2> DEFINE f == [Idle EXCEPT !.pc = "patch", !.self = a,
                               !.ev = CreatedEvent(a, serial[a])]
  <2>1. f.pc = "patch"
    BY DEF Idle
  <2>2. Become(t, f)
    BY <1>2 DEF HookCreateShared
  <2> HIDE DEF f
  <2>3. QED
    BY <1>c, <1>d, <2>1, <2>2
<1>3. ASSUME NEW a \in Addr, HookRelease(t, a) \/ CallSetResidencyPriority(t, a)
      PROVE  Goal
  <2>1. /\ [Idle EXCEPT !.pc = "relLookup", !.self = a].pc = "relLookup"
        /\ [Idle EXCEPT !.pc = "residency", !.self = a].pc = "residency"
    BY DEF Idle
  <2>2. PICK f : Become(t, f) /\ f.pc \in {"relLookup", "residency"}
    BY <1>3, <2>1 DEF HookRelease, CallSetResidencyPriority
  <2>3. QED
    BY <1>c, <1>d, <2>2
<1>4. ASSUME NEW a \in Addr, NEW n \in AnyName, CallSetName(t, a, n)
      PROVE  Goal
  <2> DEFINE p == IF Hooked(a, "SetName") THEN "nameLookup" ELSE "spdCall"
             f == [Idle EXCEPT !.pc = p, !.self = a, !.name = n,
                               !.outer = Hooked(a, "SetName")]
  <2>1. f.pc = p /\ f.self = a /\ f.name = n /\ f.outer = Hooked(a, "SetName")
    BY DEF Idle
  <2>2. Become(t, f) /\ t \in refs[a]
    BY <1>4 DEF CallSetName
  <2> HIDE DEF f
  <2>3. call'[t] = f /\ f.pc \in {"nameLookup", "spdCall"}
    BY <1>d, <2>1, <2>2
  <2>4. ~Behind(t)' /\ call'[t].pc \notin {"pipe", "log"}
    BY <2>3 DEF Behind
  <2>5. /\ call'[t].self \in Addr /\ t \in refs[call'[t].self] /\ call'[t].name = n
        /\ call'[t].outer = Hooked(call'[t].self, "SetName")
    BY <2>1, <2>2, <2>3, Zenon
  <2>6. QED
    BY <2>4, <2>5, Zenon DEF Goal
<1>5. ASSUME NEW a \in Addr, NEW n \in AnyName, CallSetPrivateData(t, a, n)
      PROVE  Goal
  <2> DEFINE f == [Idle EXCEPT !.pc = "spdCall", !.self = a, !.name = n]
  <2>1. f.pc = "spdCall" /\ f.self = a /\ f.name = n
    BY DEF Idle
  <2>2. Become(t, f) /\ t \in refs[a] /\ (n = NoName => "clear" \in seen')
    BY <1>5 DEF CallSetPrivateData, Observe
  <2> HIDE DEF f
  <2>3. call'[t] = f
    BY <1>d, <2>2
  <2>4. ~Behind(t)' /\ call'[t].pc \notin {"pipe", "log"}
    BY <2>1, <2>3 DEF Behind
  <2>5. /\ call'[t].self \in Addr /\ t \in refs[call'[t].self] /\ call'[t].name = n
        /\ (n = NoName => "clear" \in seen')
    BY <2>1, <2>2, <2>3
  <2>6. QED
    BY <2>4, <2>5, Zenon DEF Goal
<1>6. ASSUME NEW a \in Addr, NEW v \in VTable, RuntimeCreate(t, a, v)
      PROVE  Goal
  BY <1>6, <1>e DEF RuntimeCreate
<1>7. ASSUME NEW a \in Addr, NEW u \in Thread, ReleaseUnhooked(t, a) \/ AddRef(t, u, a)
      PROVE  Goal
  BY <1>7, <1>e DEF ReleaseUnhooked, AddRef
<1>8. Goal
  BY <1>1, <1>2, <1>3, <1>4, <1>5, <1>6, <1>7 DEF AppStep
<1>9. QED
  BY <1>b, <1>8 DEF Goal

SameCall(t) == /\ call'[t].self = call[t].self /\ call'[t].name = call[t].name
               /\ call'[t].outer = call[t].outer

\* How a thread goes on to name it.
LEMMA NamingMoves ==
  ASSUME SettledInv, OuterRenames, NEW t \in Thread, HookStep(t),
         InNaming(t)'
  PROVE  /\ SameCall(t) /\ InNaming(t)
         /\ Behind(t)' \/ Renaming(t)' =>
              \/ Behind(t) \/ Renaming(t)
              \/ SetsName(t) /\ rname'[call[t].self] = call[t].name
<1> DEFINE Goal == /\ SameCall(t) /\ InNaming(t)
                   /\ Behind(t)' \/ Renaming(t)' =>
                        \/ Behind(t) \/ Renaming(t)
                        \/ SetsName(t) /\ rname'[call[t].self] = call[t].name
           Other == {"idle", "patch", "Release", "SetPrivateData", "SetName", "emplace",
                     "fetch", "insert", "relReal", "erase"}
<1>a. /\ TypeInv /\ call \in [Thread -> Frame] /\ call[t] \in Frame
      /\ rname \in [Addr -> AnyName]
  BY DEF SettledInv, PatchInv, TypeInv, TypeOK
<1>b. call'[t].pc \in NamingPC \/ (call'[t].pc \in {"pipe", "log"} /\ call'[t].ev.kind = "Renamed")
  BY DEF InNaming, InNamingCall
<1>c. call'[t].pc \notin Other
  BY <1>b DEF NamingPC
<1>d. ~Return(t) /\ \A p \in Other : ~Goto(t, p)
  BY <1>a, <1>c, ReturnFields, GotoFields
<1>e. \A p : Goto(t, p) => SameCall(t) /\ call'[t].pc = p /\ call'[t].ev = call[t].ev
  BY <1>a, GotoFields, NameFields DEF SameCall
<1>f. \A e, n : Emit(t, e, n) => SameCall(t) /\ call'[t].pc = "pipe" /\ call'[t].ev = e
  BY <1>a, EmitFields, NameFields DEF SameCall
<1>g. call[t].pc \in NamingPC => InNaming(t)
  BY DEF InNaming, InNamingCall
<1>1. ASSUME LookupHeapId(t)
      PROVE  FALSE
  <2> DEFINE f == [call[t] EXCEPT !.pc = "patch",
                     !.ev = [@ EXCEPT !.ref = objects_[call[t].heap].id]]
  <2>1. f.pc = "patch"
    BY <1>a DEF Frame
  <2>2. call'[t] = f
    BY <1>1, <1>a DEF LookupHeapId, Become
  <2> HIDE DEF f
  <2>3. QED
    BY <1>c, <2>1, <2>2
<1>2. ASSUME FetchId(t)
      PROVE  FALSE
  <2> DEFINE f == [call[t] EXCEPT !.pc = "insert", !.ev = [@ EXCEPT !.id = next_id_]]
  <2>1. f.pc = "insert"
    BY <1>a DEF Frame
  <2>2. call'[t] = f
    BY <1>2, <1>a DEF FetchId, Become
  <2> HIDE DEF f
  <2>3. QED
    BY <1>c, <2>1, <2>2
<1>3. ASSUME NEW s \in Slot,
             \/ PatchVTableIfNew(t) \/ PatchSlot(t, s) \/ Emplace(t)
             \/ ReleaseLookup(t) \/ ReleaseReal(t)
      PROVE  FALSE
  <2>1. Return(t) \/ \E p \in Other : Goto(t, p)
    BY <1>3 DEF PatchVTableIfNew, PatchSlot, Emplace, ReleaseLookup, ReleaseReal, AfterSlot, Slot
  <2>2. QED
    BY <1>d, <2>1
<1>4. ASSUME Insert(t)
      PROVE  FALSE
  <2>1. call[t].pc = "insert" /\ Goto(t, "pipe")
    BY <1>4 DEF Insert
  <2>2. call[t].ev.kind = "Created"
    BY <2>1 DEF SettledInv, DeathInv, RegistersItsObject, RegisterPC
  <2>3. QED
    BY <1>b, <1>e, <2>1, <2>2 DEF NamingPC
<1>5. ASSUME OnReleaseToZero(t) \/ ResidencyLookup(t)
      PROVE  FALSE
  <2>1. \E e : e.kind # "Renamed" /\ Emit(t, e, "idle")
    BY <1>5, <1>d DEF OnReleaseToZero, ResidencyLookup, DestroyedEvent, ResidencyEvent, NoEvent
  <2>2. QED
    BY <1>b, <1>f, <2>1 DEF NamingPC
<1>6. ASSUME EmitPipe(t)
      PROVE  Goal
  <2>1. call[t].pc = "pipe" /\ Goto(t, "log")
    BY <1>6 DEF EmitPipe
  <2>2. SameCall(t) /\ call'[t].pc = "log" /\ call'[t].ev = call[t].ev
    BY <1>e, <2>1
  <2>3. Renaming(t)
    BY <1>b, <2>1, <2>2 DEF Renaming, NamingPC
  <2>4. QED
    BY <2>1, <2>2, <2>3 DEF Renaming, InNaming, InNamingCall
<1>7. ASSUME EmitLog(t)
      PROVE  Goal
  <2>1. call[t].pc = "log" /\ call[t].next # "idle" /\ Goto(t, call[t].next)
    BY <1>7, <1>d DEF EmitLog
  <2>2. Renaming(t)
    BY <2>1 DEF OuterRenames
  <2>3. SameCall(t)
    BY <1>e, <2>1
  <2>4. QED
    BY <2>2, <2>3 DEF Renaming, InNaming, InNamingCall
<1>8. ASSUME SetNameLookup(t) \/ SetPrivateDataLookup(t)
      PROVE  Goal
  <2>1. call[t].pc \in NamingPC /\ \E p \in {"spdCall", "spdReal"} : Goto(t, p)
    <3>1. CASE SetNameLookup(t)
      BY <1>d, <3>1 DEF SetNameLookup, NamingPC
    <3>2. CASE SetPrivateDataLookup(t)
      <4>1. call[t].pc = "spdLookup" /\ Free /\ call[t].self \in Addr
        BY <3>2, <1>a DEF SetPrivateDataLookup, CallOK, TypeInv
      <4>2. slot[vt[call[t].self]]["SetPrivateData"] = "hook"
        BY <4>1 DEF SettledInv, PatchInv, LookupIsHooked, LookupSlot
      <4>3. RealOf(call[t].self, "SetPrivateData") = "real"
        BY <1>a, <4>1, <4>2 DEF SettledInv, PatchInv, HookHasOriginal, Free, RealOf, TypeInv, TypeOK, Slot
      <4>4. QED
        BY <3>2, <4>1, <4>3 DEF SetPrivateDataLookup, NamingPC
    <3>3. QED
      BY <1>8, <3>1, <3>2
  <2>2. SameCall(t) /\ call'[t].pc \in {"spdCall", "spdReal"}
    BY <1>e, <2>1
  <2>3. ~Behind(t)' /\ ~Renaming(t)'
    BY <2>2 DEF Behind, Renaming
  <2>4. QED
    BY <1>g, <2>1, <2>2, <2>3
<1>9. ASSUME SetPrivateDataDispatch(t) \/ HookSetPrivateData(t)
      PROVE  Goal
  <2>1. call[t].pc \in {"spdCall", "spdReal"} /\ call[t].self \in Addr
    BY <1>9, <1>a DEF SetPrivateDataDispatch, HookSetPrivateData, CallOK, TypeInv
  <2>2. \/ Goto(t, "spdLookup")
        \/ /\ SetsName(t) /\ RealSetPrivateData(t)
           /\ \E p \in {"outer", "onSetName"} : Goto(t, p)
    BY <1>9, <1>d DEF SetPrivateDataDispatch, HookSetPrivateData, AfterSetPrivateData, SetsName
  <2>3. SameCall(t) /\ InNaming(t)
    BY <1>e, <1>g, <2>1, <2>2 DEF NamingPC
  <2>4. CASE Goto(t, "spdLookup")
    <3>1. ~Behind(t)' /\ ~Renaming(t)'
      BY <1>e, <2>4 DEF Behind, Renaming
    <3>2. QED
      BY <2>3, <3>1
  <2>5. CASE SetsName(t) /\ RealSetPrivateData(t)
    <3>1. rname'[call[t].self] = call[t].name
      BY <1>a, <2>1, <2>5 DEF RealSetPrivateData
    <3>2. QED
      BY <2>3, <2>5, <3>1
  <2>6. QED
    BY <2>2, <2>4, <2>5
<1>10. ASSUME InnerOnSetName(t) \/ OuterOnSetName(t)
       PROVE  Goal
  <2>1. Behind(t) /\ call[t].pc \in NamingPC
    BY <1>10 DEF InnerOnSetName, OuterOnSetName, Behind, NamingPC
  <2>2. (\E p : Goto(t, p)) \/ \E e, n : Emit(t, e, n)
    BY <1>10, <1>d DEF InnerOnSetName, OuterOnSetName, OnSetName
  <2>3. QED
    BY <1>e, <1>f, <1>g, <2>1, <2>2
<1>11. QED
  <2>1. "Release" \in Slot
    BY DEF Slot
  <2>2. QED
    BY <1>1, <1>2, <1>3, <1>4, <1>5, <1>6, <1>7, <1>8, <1>9, <1>10, <2>1 DEF HookStep

-----------------------------------------------------------------------------
(* Names of objects: the invariant is inductive *)

\* OnSetName leaves the name that was set in the record.
LEMMA OnSetNameSets ==
  ASSUME TypeInv, NEW t \in Thread, Behind(t), AppStep(t) \/ HookStep(t),
         objects_[call[t].self].id # 0
  PROVE  objects_'[call[t].self].name = call[t].name
<1>a. /\ objects_ \in [Addr -> Record] /\ call[t].self \in Addr
      /\ call[t].pc \in {"onSetName", "outer"} /\ call[t] # Idle
  BY DEF TypeInv, TypeOK, CallOK, Behind, Idle
<1>1. HookStep(t)
  BY <1>a, NamingStarts
<1>2. InnerOnSetName(t) \/ OuterOnSetName(t)
  BY <1>1, <1>a DEF HookStep, LookupHeapId, PatchVTableIfNew, PatchSlot, Slot, Emplace, FetchId,
     Insert, EmitPipe, EmitLog, ReleaseLookup, ReleaseReal, OnReleaseToZero, SetNameLookup,
     SetPrivateDataLookup, SetPrivateDataDispatch, HookSetPrivateData, ResidencyLookup
<1>3. \/ objects_[call[t].self].name = call[t].name /\ UNCHANGED objects_
      \/ objects_' = [objects_ EXCEPT ![call[t].self].name = call[t].name]
  BY <1>2 DEF InnerOnSetName, OuterOnSetName, OnSetName
<1>4. QED
  BY <1>a, <1>3 DEF Record

LEMMA FollowStep ==
  ASSUME SettledInv, NamesKept, NEW t \in Thread, AppStep(t) \/ HookStep(t), seen' = {}
  PROVE  NamesFollow'
<1>a. /\ TypeInv /\ call \in [Thread -> Frame] /\ \A u \in Thread \ {t} : call'[u] = call[u]
  BY RecordedStays DEF SettledInv, PatchInv, TypeInv, TypeOK
<1> SUFFICES ASSUME NEW a \in Addr, objects_'[a].id # 0
             PROVE  \/ objects_'[a].name = rname'[a]
                    \/ \E u \in Thread : Behind(u)' /\ call'[u].self = a
  BY DEF NamesFollow
<1>1. ASSUME Behind(t), call[t].self = a, objects_[a].id # 0
      PROVE  objects_'[a].name = rname'[a]
  <2>1. objects_'[a].name = call[t].name /\ rname[a] = call[t].name
    BY <1>a, <1>1, OnSetNameSets DEF NamesKept, NamesKnown
  <2>2. ~SetsName(t)
    BY <1>1 DEF Behind, SetsName
  <2>3. QED
    BY <1>1, <2>1, <2>2, RuntimeNames
<1>2. CASE Insert(t) /\ call[t].self = a /\ objects_'[a].name = NoName
  BY <1>2 DEF Insert, NamesKept, NamesKnown, RegisterPC, runtimeVars
<1>3. CASE objects_'[a].id = objects_[a].id /\ objects_'[a].name = objects_[a].name
  <2>1. CASE rname'[a] = rname[a]
    <3>1. ASSUME NEW u \in Thread, Behind(u), call[u].self = a, u # t
          PROVE  Behind(u)' /\ call'[u].self = a
      BY <1>a, <3>1 DEF Behind
    <3>2. \/ objects_[a].name = rname[a]
          \/ \E u \in Thread : Behind(u) /\ call[u].self = a
      BY <1>3 DEF NamesKept, NamesFollow
    <3>3. QED
      BY <1>1, <1>3, <2>1, <3>1, <3>2
  <2>2. CASE rname'[a] # rname[a]
    <3>1. call[t].self = a /\ SetsName(t)
      BY <1>3, <2>2, RuntimeNames
    <3>2. call[t].pc \in NamingPC /\ InNaming(t) /\ t \in refs[a] /\ refs[a] # {}
      BY <3>1, SetsNameHolds DEF InNaming
    <3>3. Hooked(a, "SetPrivateData")
      BY <1>a, <1>3, <3>2 DEF NamesKept, RecordsPatched, Patched, AllHooked, Hooked, Slot,
         TypeInv, TypeOK
    <3>4. call[t].pc = "spdReal"
      BY <3>1, <3>3 DEF SetsName
    <3>5. HookSetPrivateData(t)
      <4>1. call[t] # Idle
        BY <3>4 DEF Idle
      <4>2. HookStep(t)
        BY <1>a, <4>1, NamingStarts
      <4>3. QED
        BY <3>4, <4>2 DEF HookStep, LookupHeapId, PatchVTableIfNew, PatchSlot, Slot, Emplace,
           FetchId, Insert, EmitPipe, EmitLog, ReleaseLookup, ReleaseReal, OnReleaseToZero,
           SetNameLookup, SetPrivateDataLookup, SetPrivateDataDispatch, InnerOnSetName,
           OuterOnSetName, ResidencyLookup
    <3>6. call[t].name = NoName => call[t].outer
      BY <1>3, <3>1, <3>2 DEF NamesKept, NamesKnown
    <3>7. \E p \in {"outer", "onSetName"} : Goto(t, p)
      BY <2>2, <3>5, <3>6 DEF HookSetPrivateData, AfterSetPrivateData, runtimeVars
    <3>8. call'[t].pc \in {"outer", "onSetName"} /\ call'[t].self = a
      BY <1>a, <3>1, <3>7, GotoFields
    <3>9. QED
      BY <3>8 DEF Behind
  <2>3. QED
    BY <2>1, <2>2
<1>4. CASE Behind(t) /\ call[t].self = a /\ objects_'[a].id = objects_[a].id
  BY <1>1, <1>4
<1>5. QED
  BY <1>2, <1>3, <1>4, RecordNames

LEMMA KnownStep ==
  ASSUME SettledInv, NamesTold, NamesKept,
         NEW t \in Thread, AppStep(t) \/ HookStep(t), seen' = {}
  PROVE  NamesKnown'
<1>a. /\ TypeInv /\ call \in [Thread -> Frame] /\ \A u \in Thread \ {t} : call'[u] = call[u]
      /\ OneNamer /\ OuterRenames /\ NamesKnown /\ seen = {} /\ Orderly
      /\ \A u \in Thread : FrameOK(u)
  BY RecordedStays DEF SettledInv, PatchInv, LifeInv, TypeInv, TypeOK, NamesTold, NamesKept, Orderly
\* A thread that names or registers an object has a reference to it.
<1>b. ASSUME NEW u \in Thread, InNaming(u) \/ call[u].pc \in RegisterPC
      PROVE  call[u].self \in Addr /\ u \in refs[call[u].self]
  BY <1>a, <1>b DEF FrameOK, Uses, Destroying, InNaming, InNamingCall, NamingPC, RegisterPC,
     PatchPC, TypeInv, CallOK
<1>c. \A u \in Thread : Behind(u) \/ Renaming(u) => InNaming(u)
  BY DEF Behind, Renaming, InNaming, InNamingCall, NamingPC
<1>d. \A u \in Thread : call[u].pc \in RegisterPC =>
        Registering(u) /\ refs[call[u].self] = {u} /\ ~InNaming(u)
  BY <1>a DEF Registering, FrameOK, InNaming, InNamingCall, NamingPC, RegisterPC, PatchPC
\* The name of an object changes through the one thread that names it.
<1>e. ASSUME NEW u \in Thread \ {t}, InNaming(u) \/ call[u].pc \in RegisterPC
      PROVE  rname'[call[u].self] = rname[call[u].self]
  <2>1. SUFFICES ASSUME SetsName(t), call[t].self = call[u].self
                 PROVE  FALSE
    BY <1>b, <1>e, RuntimeNames
  <2>2. InNaming(t) /\ t \in refs[call[t].self]
    BY <2>1, SetsNameHolds DEF InNaming
  <2>3. ~(call[u].pc \in RegisterPC)
    BY <1>d, <2>1, <2>2
  <2>4. InNamingCall(t, call[t].self) /\ InNamingCall(u, call[t].self) /\ call[t].self \in Addr
    BY <1>b, <1>e, <2>1, <2>2, <2>3 DEF InNaming
  <2>5. QED
    BY <1>a, <2>4 DEF OneNamer
<1>f. ASSUME NEW u \in Thread, InNaming(u), objects_[call[u].self].id = 0
      PROVE  objects_'[call[u].self].id = 0
  <2>1. SUFFICES ASSUME Insert(t), call[t].self = call[u].self
                 PROVE  FALSE
    BY <1>b, <1>f, RecordNames
  <2>2. call[t].pc \in RegisterPC
    BY <2>1 DEF Insert, RegisterPC
  <2>3. QED
    BY <1>b, <1>d, <1>f, <2>1, <2>2
<1>1. ASSUME NEW u \in Thread \ {t}
      PROVE  /\ Behind(u)' \/ Renaming(u)' => rname'[call'[u].self] = call'[u].name
             /\ InNaming(u)' /\ call'[u].name = NoName =>
                  call'[u].outer \/ objects_'[call'[u].self].id = 0
             /\ call'[u].pc \in RegisterPC => rname'[call'[u].self] = NoName
  <2>1. /\ call'[u] = call[u] /\ (Behind(u)' <=> Behind(u)) /\ (Renaming(u)' <=> Renaming(u))
        /\ (InNaming(u)' <=> InNaming(u))
    BY <1>a DEF Behind, Renaming, InNaming, InNamingCall
  <2>2. /\ Behind(u) \/ Renaming(u) => rname[call[u].self] = call[u].name
        /\ InNaming(u) /\ call[u].name = NoName =>
             call[u].outer \/ objects_[call[u].self].id = 0
        /\ call[u].pc \in RegisterPC => rname[call[u].self] = NoName
    BY <1>a DEF NamesKnown
  <2>3. Behind(u) \/ Renaming(u) => rname'[call[u].self] = call[u].name
    BY <1>c, <1>e, <2>2
  <2>4. InNaming(u) /\ call[u].name = NoName =>
             call[u].outer \/ objects_'[call[u].self].id = 0
    BY <1>f, <2>2
  <2>5. call[u].pc \in RegisterPC => rname'[call[u].self] = NoName
    BY <1>e, <2>2
  <2>6. QED
    BY <2>1, <2>3, <2>4, <2>5
<1>2. ASSUME AppStep(t), InNaming(t)'
      PROVE  /\ ~Behind(t)' /\ ~Renaming(t)'
             /\ call'[t].name = NoName =>
                  call'[t].outer \/ objects_'[call'[t].self].id = 0
  <2>1. /\ ~Behind(t)' /\ call'[t].pc \notin {"pipe", "log"}
        /\ call'[t].pc \in NamingPC
    BY <1>2, <1>a, NamingStarts DEF InNaming, InNamingCall
  <2>2. /\ call'[t].self \in Addr /\ t \in refs[call'[t].self]
        /\ \/ call'[t].outer = Hooked(call'[t].self, "SetName")
           \/ call'[t].name = NoName => "clear" \in seen'
    BY <1>2, <1>a, <2>1, NamingStarts
  <2>3. UNCHANGED objects_
    BY <1>2 DEF AppStep, RuntimeCreate, HookCreate, HookCreateShared, ReleaseUnhooked,
       HookRelease, CallSetResidencyPriority, AddRef, CallSetName,
       CallSetPrivateData, trackVars
  <2>4. ASSUME ~Hooked(call'[t].self, "SetName")
        PROVE  objects_[call'[t].self].id = 0
    <3> DEFINE a == call'[t].self
    <3>1. a \in Addr /\ refs[a] # {} /\ vt[a] \in VTable /\ "SetName" \in Slot
      BY <1>a, <2>2 DEF TypeInv, TypeOK, Slot
    <3>2. ~Patched(a)
      BY <2>4, <3>1 DEF NamesKept, AllHooked, Patched, Hooked
    <3> HIDE DEF a
    <3>3. objects_[a].id = 0
      BY <3>1, <3>2 DEF NamesKept, RecordsPatched
    <3>4. QED
      BY <3>3 DEF a
  <2>5. ASSUME call'[t].name = NoName, Hooked(call'[t].self, "SetName")
        PROVE  call'[t].outer
    BY <2>2, <2>5, Zenon
  <2>6. ~Renaming(t)'
    BY <2>1 DEF Renaming
  <2>7. QED
    BY <2>1, <2>3, <2>4, <2>5, <2>6
<1>3. ASSUME HookStep(t), InNaming(t)'
      PROVE  /\ Behind(t)' \/ Renaming(t)' => rname'[call'[t].self] = call'[t].name
             /\ call'[t].name = NoName =>
                  call'[t].outer \/ objects_'[call'[t].self].id = 0
  <2>1. /\ SameCall(t) /\ InNaming(t)
        /\ Behind(t)' \/ Renaming(t)' =>
              \/ Behind(t) \/ Renaming(t)
              \/ SetsName(t) /\ rname'[call[t].self] = call[t].name
    BY <1>3, <1>a, NamingMoves
  <2>2. ASSUME Behind(t) \/ Renaming(t)
        PROVE  rname'[call[t].self] = call[t].name
    <3>1. ~SetsName(t)
      BY <2>2 DEF Behind, Renaming, SetsName
    <3>2. rname'[call[t].self] = rname[call[t].self]
      BY <1>b, <2>1, <3>1, RuntimeNames
    <3>3. QED
      BY <1>a, <2>2, <3>2 DEF NamesKnown
  <2>3. call[t].name = NoName => call[t].outer \/ objects_[call[t].self].id = 0
    BY <1>a, <2>1 DEF NamesKnown
  <2>4. call[t].name = NoName => call[t].outer \/ objects_'[call[t].self].id = 0
    BY <1>f, <2>1, <2>3
  <2>5. QED
    BY <2>1, <2>2, <2>4 DEF SameCall
<1>4. ASSUME call'[t].pc \in RegisterPC
      PROVE  rname'[call'[t].self] = NoName
  <2>1. ASSUME NEW v \in VTable, Allocate(t, call'[t].self, v), call'[t].self \in Addr
        PROVE  rname'[call'[t].self] = NoName
    BY <1>a, <2>1 DEF Allocate, TypeInv, TypeOK
  <2>2. CASE call'[t] = call[t]
    <3>1. rname'[call[t].self] = rname[call[t].self]
      BY <1>4, <1>b, <1>d, <2>2, RuntimeNames, SetsNameHolds DEF InNaming
    <3>2. QED
      BY <1>4, <1>a, <2>2, <3>1 DEF NamesKnown
  <2>3. CASE call[t].pc \in RegisterPC /\ call'[t].self = call[t].self /\ UNCHANGED rname
    BY <1>a, <2>3 DEF NamesKnown
  <2>4. QED
    BY <1>4, <1>a, <2>1, <2>2, <2>3, RegisterMoves
<1>5. \A u \in Thread : Behind(u)' \/ Renaming(u)' => InNaming(u)'
  BY DEF Behind, Renaming, InNaming, InNamingCall, NamingPC
<1>6. QED
  BY <1>1, <1>2, <1>3, <1>4, <1>5 DEF NamesKnown

LEMMA InitKept == Init => KeepInv
<1> SUFFICES ASSUME Init PROVE NamesKept
  BY DEF KeepInv
<1>1. \A t \in Thread : call[t].pc = "idle"
  BY DEF Init, Idle
<1>2. AllHooked
  BY <1>1 DEF Init, AllHooked, PatchPC
<1>3. \A a \in Addr : objects_[a].id = 0
  BY DEF Init, NoRecord
<1>4. RecordsPatched /\ NamesFollow
  BY <1>1, <1>3 DEF RecordsPatched, NamesFollow
<1>5. NamesKnown
  BY <1>1 DEF NamesKnown, Behind, Renaming, InNaming, InNamingCall, NamingPC, RegisterPC, PatchPC
<1>6. QED
  BY <1>2, <1>4, <1>5 DEF NamesKept

LEMMA KeepStep == SettledInv /\ NameInv /\ KeepInv /\ [Next]_vars => KeepInv'
<1> SUFFICES ASSUME SettledInv, NameInv, KeepInv, [Next]_vars, seen' = {}
             PROVE  NamesKept'
  BY DEF KeepInv
<1>1. CASE UNCHANGED vars
  <2>1. UNCHANGED <<refs, vt, rname, slot, vtable_patches_, objects_, call, seen>>
    BY <1>1 DEF vars, runtimeVars, patchVars, trackVars
  <2>2. AllHooked /\ RecordsPatched /\ NamesFollow /\ NamesKnown
    BY <2>1 DEF KeepInv, NamesKept
  <2>3. AllHooked' /\ RecordsPatched'
    BY <2>1, <2>2 DEF AllHooked, Hooked, RecordsPatched, Patched
  <2>4. NamesFollow' /\ NamesKnown'
    BY <2>1, <2>2 DEF NamesFollow, NamesKnown, Behind, Renaming, InNaming, InNamingCall
  <2>5. QED
    BY <2>3, <2>4 DEF NamesKept
<1>2. ASSUME NEW t \in Thread, AppStep(t) \/ HookStep(t)
      PROVE  NamesKept'
  <2>1. seen = {}
    BY <1>2, SeenGrows
  <2>2. NamesTold /\ NamesKept
    BY <2>1 DEF NameInv, NamesTold, KeepInv
  <2>3. AllHooked /\ RecordsPatched
    BY <2>2 DEF NamesKept
  <2>4. QED
    BY <1>2, <2>2, <2>3, HookedStep, PatchedStep, FollowStep, KnownStep DEF NamesKept
<1>3. QED
  BY <1>1, <1>2 DEF Next

\* Once no call is running, the last renamed event of each tracked object's id,
\* on the pipe and in the log, carries the name the runtime has for the object,
\* as far as EmitRenamed has room for it (Hook_SetName, Hook_SetPrivateData, OnSetName and Register), for any number
\* of threads and objects, as long as none of the quirks has happened.
THEOREM NamesReported == Spec => []NamesSettle
<1>1. SettledInv /\ NameInv /\ KeepInv => NamesSettle
  <2> SUFFICES ASSUME SettledInv, NameInv, KeepInv, seen = {}, AllIdle,
                      NEW a \in Addr, objects_[a].id # 0
               PROVE  /\ NameIn(pipe, objects_[a].id) = Shown(rname[a])
                      /\ NameIn(log, objects_[a].id) = Shown(rname[a])
    BY DEF NamesSettle, NamesMirrorLastCall
  <2>1. \A t \in Thread : call[t].pc = "idle"
    <3>1. Idle.pc = "idle"
      BY DEF Idle
    <3>2. QED
      BY <3>1 DEF AllIdle
  <2>2. objects_[a].name = rname[a]
    BY <2>1 DEF KeepInv, NamesKept, NamesFollow, Behind
  <2>3. /\ Says(pipe, objects_[a].id, objects_[a].name)
        /\ Says(log, objects_[a].id, objects_[a].name)
    BY <2>1 DEF NameInv, Told, Mirrored, Renaming
  <2>4. pipe \in Seq(Event) /\ log \in Seq(Event)
    BY DEF SettledInv, PatchInv, TypeInv, TypeOK
  <2>5. QED
    BY <2>2, <2>3, <2>4, SaysNameIn
<1>2. QED
  BY <1>1, InitSettled, SettledStep, InitNames, NameStep, InitKept, KeepStep, PTL DEF Spec
==============================================================================
