----------------------------- MODULE EtwSettles -----------------------------
(***************************************************************************)
(* That the join of EtwJoin finds every object, for any plan, clock slack, *)
(* graveyard and history: JoinSettles.                                     *)
(*                                                                         *)
(* Settling follows what is still on its way.  Of the records: which of a  *)
(* library id are waiting tells how far the Model has got with it (Chain). *)
(* Of the messages: an object that is alive for its application is either  *)
(* known to the Model or about to be (Posted), and the one at its address  *)
(* is found there (Present), early enough to be bound by its ETW object    *)
(* (Found).  With both feeds drained, nothing is left to wait for.         *)
(***************************************************************************)
EXTENDS EtwJoinProofs

-----------------------------------------------------------------------------
(* The inductive invariant.                                                *)

\* No record has been lost, and the game still runs.
Whole == left.lost = plan.lost /\ Running
\* ... ETW runs behind the pipe, and no death is stamped too late.
Fair == behind /\ Whole /\ Punctual

\* The records not yet handled.  Q stands for such a set.
Pending == {etwq[n] : n \in DOMAIN etwq}
AddressOf(r) == [r EXCEPT !.op = "address"]
Before(r, s) == r.ts < s.ts \/ (r.ts = s.ts /\ r.op = "create" /\ s = AddressOf(r))
Sorted == \A n, k \in DOMAIN etwq : n < k => Before(etwq[n], etwq[k])

\* An object is tracked until its destroy record is handled.
Tracked(Q, o) == Begun(o) /\ (obj[o].freed = 0 \/ \E r \in Q : r.op = "destroy" /\ r.id = o)
Waits(Q, op, l) == \E r \in Q : r.op = op /\ r.lib = l
Silent(Q, o) == \A r \in Q : r.id # o
Latest(Q, r) == \A s \in Q : s.id = r.id => s.ts <= r.ts

\* Two objects at one address, one after the other.
Apart(i, j) == obj[i].freed # 0 /\ obj[i].freed < obj[j].made
Lifetimes ==
  /\ \A i \in Ids : Begun(i) =>
       /\ obj[i].libs # {}
       /\ obj[i].freed # 0 => obj[i].made < obj[i].freed
       /\ obj[i].group = "Unknown" <=> ~HasMemory(i)
  /\ \A i \in Ids :
       /\ obj[i].libs \subseteq 1 .. nlib
       /\ obj[i].phase = "new" => obj[i].libs = {} /\ obj[i].freed = 0
       /\ obj[i].phase = "sent" => obj[i].freed = 0
       /\ obj[i].phase = "made" /\ Hooked(i) => obj[i].freed = 0
       /\ obj[i].phase # "gone" => obj[i].died = 0
       /\ obj[i].phase \in {"sent", "dying", "gone"} => Hooked(i)
  /\ \A i, j \in Ids : i # j => obj[i].libs \intersect obj[j].libs = {}
  /\ \A i, j \in Ids : i # j /\ Begun(i) /\ Begun(j) /\ obj[i].addr = obj[j].addr =>
       Apart(i, j) \/ Apart(j, i)

\* What a record in Q says of its object.
RecordOk(Q, r) ==
  /\ r.lib \in obj[r.id].libs /\ Tracked(Q, r.id) /\ obj[r.id].made <= r.ts
  /\ r.op = "destroy" => r.ts = obj[r.id].freed
  /\ r.op # "destroy" => /\ obj[r.id].freed = 0 \/ r.ts < obj[r.id].freed
                         /\ r.group = "Unknown" <=> ~HasMemory(r.id)
  /\ r.op = "create" => AddressOf(r) \in Q
  /\ obj[r.id].freed = 0 /\ Latest(Q, r) => r.group = obj[r.id].group
  /\ r.op = "group" => \A s \in Q : s.op = "address" /\ s.lib = r.lib => s.ts < r.ts
Single(r, s) ==
  /\ r.op = s.op
  /\ \/ r.op = "destroy" /\ r.id = s.id
     \/ r.op \in {"create", "address"} /\ r.lib = s.lib
  => r = s
Queue(Q) == (\A r \in Q : RecordOk(Q, r)) /\ (\A r, s \in Q : Single(r, s))

\* What an ETW object is known to be.
EntryOk(Q, M, k) == LET e == M.etw[k] IN
  /\ Tracked(Q, e.obj)
  /\ e.aliases \union {k} \subseteq obj[e.obj].libs
  /\ e.type = TypeOf(e.obj)
  /\ e.address \in {NoAddr, obj[e.obj].addr}
  /\ obj[e.obj].made <= e.created
  /\ \A r \in Q : e.created <= r.ts
  /\ e.group = "Unknown" <=> ~HasMemory(e.obj)
Entries(Q, M) == \A k \in Libs : KnownIn(M, k) => EntryOk(Q, M, k)

\* How far a library id of a tracked object has got: nothing is known of it, or
\* all but the address, or it names the ETW object at the address.
Handled(Q, M, o, l) ==
  /\ Waits(Q, "create", l) => M.alias[l] = 0
  /\ Waits(Q, "address", l) /\ ~Waits(Q, "create", l) =>
       /\ M.alias[l] = l /\ KnownIn(M, l)
       /\ M.etw[l].obj = o /\ M.etw[l].address = NoAddr
       /\ \A r \in Q : r.op = "address" /\ r.lib = l => M.etw[l].group = r.group
  /\ ~Waits(Q, "address", l) =>
       /\ M.byAddr[obj[o].addr] # 0
       /\ M.alias[l] = M.byAddr[obj[o].addr]
       /\ M.etw[M.byAddr[obj[o].addr]].obj = o
Progress(Q, M) ==
  /\ \A o \in Ids : Tracked(Q, o) => \A l \in obj[o].libs : Handled(Q, M, o, l)
  /\ \A o \in Ids : Begun(o) /\ obj[o].freed = 0 /\ Silent(Q, o) =>
       M.etw[M.byAddr[obj[o].addr]].group = obj[o].group

Dies(n, i) == pipeq[n].op = "destroyed" /\ pipeq[n].id = i
Posted ==
  /\ \A n \in DOMAIN pipeq, i \in Ids : Dies(n, i) =>
       /\ obj[i].phase = "gone" /\ obj[i].died = pipeq[n].ts
       /\ \A k \in DOMAIN pipeq : Creates(k, i) => k < n
  /\ \A i \in Ids : obj[i].phase = "sent" =>
       In(m, i) \/ \E n \in DOMAIN pipeq : Creates(n, i)
  /\ \A i \in Ids : /\ obj[i].phase = "gone"
                    /\ In(m, i) \/ \E n \in DOMAIN pipeq : Creates(n, i)
       => \E n \in DOMAIN pipeq : Dies(n, i)
  /\ \A i, j \in Ids, n \in DOMAIN pipeq :
       i # j /\ Creates(n, i) /\ obj[j].phase = "sent" /\ obj[i].addr = obj[j].addr =>
         ~In(m, j) /\ \A k \in DOMAIN pipeq : Creates(k, j) => n < k

\* The dead of an address have died there.
Buried(M) == \A p \in plan.addrs : \A n \in DOMAIN M.dead[p] : \E i \in Ids :
  /\ obj[i].phase = "gone" /\ obj[i].addr = p
  /\ obj[i].died = M.dead[p][n].destroyed
\* A bound object has the location of its ETW object for its own.
Owned(M) == \A i \in Ids : In(M, i) /\ M.live[i].key # 0 =>
  M.live[i].own = M.etw[M.live[i].key].group

\* An object that the pipe has told of is found by its address, and its ETW object
\* is bound to it as soon as the address is known.
Present(M) == \A j \in Ids : obj[j].phase = "sent" /\ In(M, j) =>
  M.ptr[obj[j].addr] = j /\ M.live[j].prev <= obj[j].made + Slack
FoundBy(M, k) == LET j == M.etw[k].obj IN
  /\ Hooked(j) => obj[j].phase # "made"
  /\ obj[j].phase = "sent" =>
       /\ In(M, j) /\ ~M.etw[k].orphan
       /\ M.etw[k].address # NoAddr => M.etw[k].bound = j
Found(M) == \A k \in Libs : KnownIn(M, k) => FoundBy(M, k)

Chain == Sorted /\ Queue(Pending) /\ Entries(Pending, m) /\ Progress(Pending, m)
Settling ==
  /\ left.lost <= plan.lost
  /\ Lifetimes /\ Posted /\ Buried(m) /\ Owned(m)
  /\ Whole => Chain
  /\ Fair => Present(m) /\ Found(m)
-----------------------------------------------------------------------------
(* Facts about the types.                                                  *)

LEMMA ObjectFacts ==
  ASSUME TypesOK
  PROVE  /\ obj \in [Ids -> Objects]
         /\ \A i \in Ids :
              /\ obj[i].phase \in {"new", "made", "sent", "dying", "gone"}
              /\ obj[i].made \in Nat /\ obj[i].freed \in Nat /\ obj[i].died \in Nat
              /\ obj[i].made <= now /\ obj[i].freed <= now
              /\ obj[i].libs \subseteq Libs /\ obj[i].group \in Locs
         /\ now \in Nat /\ nlib \in Nat /\ Slack \in Nat /\ Libs \subseteq Nat
<1>1. obj \in [Ids -> Objects] /\ now \in Nat /\ nlib \in Nat
  BY DEF TypesOK
<1>2. \A i \in Ids : obj[i] \in Objects
  BY <1>1
<1>3. \A t \in Stamps : t \in Nat /\ t <= now
  BY <1>1 DEF Stamps
<1>4. QED
  BY <1>1, <1>2, <1>3, Numbers, JoinConstants DEF Objects

LEMMA PendingFacts ==
  ASSUME TypesOK
  PROVE  \A r \in Pending :
           /\ r \in Records /\ r.op \in {"create", "address", "destroy", "group"}
           /\ r.id \in Ids /\ r.lib \in Libs /\ r.group \in Locs
           /\ r.ts \in Nat /\ r.ts <= now
           /\ AddressOf(r).op = "address" /\ AddressOf(r).id = r.id
           /\ AddressOf(r).lib = r.lib /\ AddressOf(r).group = r.group
           /\ AddressOf(r).ts = r.ts
<1>1. \A r \in Pending : r \in Records
  BY DEF TypesOK, Pending
<1>2. \A t \in Stamps : t \in Nat /\ t <= now
  BY DEF TypesOK, Stamps
<1>3. QED
  BY <1>1, <1>2 DEF Records, AddressOf

-----------------------------------------------------------------------------
(* The first record.                                                       *)

\* h is the first of Q.
Foremost(Q, h) ==
  /\ Q \subseteq Pending /\ h \in Q
  /\ \A r \in Q \ {h} : Before(h, r)

LEMMA HeadIsForemost ==
  ASSUME TypesOK, Sorted, etwq # <<>>, etwq' = Tail(etwq)
  PROVE  /\ Foremost(Pending, Head(etwq))
         /\ Pending' = Pending \ {Head(etwq)} /\ Sorted'
<1> DEFINE h == Head(etwq)
<1>1. /\ h = etwq[1] /\ 1 \in DOMAIN etwq
      /\ \A n \in DOMAIN etwq' : n + 1 \in DOMAIN etwq /\ etwq'[n] = etwq[n + 1]
                                 /\ n \in Nat /\ n >= 1
  BY TailOf DEF TypesOK
<1>2. \A n \in DOMAIN etwq : n # 1 => n - 1 \in DOMAIN etwq' /\ n \in Nat /\ n > 1
  <2>1. etwq \in Seq(Records) /\ Len(etwq) \in Nat /\ Len(etwq) > 0
    BY DEF TypesOK
  <2>2. Len(etwq') = Len(etwq) - 1 /\ etwq' \in Seq(Records)
    BY <2>1
  <2>3. QED
    BY <2>1, <2>2
<1>3. \A n \in DOMAIN etwq : n # 1 => Before(h, etwq[n])
  BY <1>1, <1>2 DEF Sorted
<1>4. ~Before(h, h)
  <2>1. h \in Pending
    BY <1>1 DEF Pending
  <2>2. h.ts \in Nat /\ AddressOf(h).op = "address"
    BY <2>1, PendingFacts
  <2> HIDE DEF h
  <2>3. QED
    BY <2>2 DEF Before
<1> HIDE DEF h
<1>5. Pending' = Pending \ {h}
  <2>1. \A r \in Pending' : r \in Pending \ {h}
    <3> SUFFICES ASSUME NEW n \in DOMAIN etwq'
                 PROVE  etwq'[n] \in Pending \ {h}
      BY DEF Pending
    <3>1. n + 1 \in DOMAIN etwq /\ n + 1 # 1 /\ etwq'[n] = etwq[n + 1]
      BY <1>1
    <3>2. QED
      BY <1>3, <1>4, <3>1 DEF Pending
  <2>2. \A r \in Pending \ {h} : r \in Pending'
    <3> SUFFICES ASSUME NEW n \in DOMAIN etwq, etwq[n] # h
                 PROVE  etwq[n] \in Pending'
      BY DEF Pending
    <3>1. n - 1 \in DOMAIN etwq' /\ n \in Nat
      BY <1>1, <1>2
    <3>2. etwq'[n - 1] = etwq[n]
      BY <1>1, <3>1
    <3>3. QED
      BY <3>1, <3>2 DEF Pending
  <2>3. QED
    BY <2>1, <2>2
<1>6. \A r \in Pending \ {h} : Before(h, r)
  BY <1>1, <1>3 DEF Pending
<1>7. Sorted'
  <2> SUFFICES ASSUME NEW n \in DOMAIN etwq', NEW k \in DOMAIN etwq', n < k
               PROVE  Before(etwq'[n], etwq'[k])
    BY DEF Sorted, Before, AddressOf
  <2>1. n + 1 < k + 1
    BY <1>1
  <2>2. QED
    BY <1>1, <2>1 DEF Sorted
<1>8. QED
  BY <1>1, <1>5, <1>6, <1>7 DEF Foremost, h, Pending

\* What the handlers assume of the records and the objects.
Ordered(Q, h) == Foremost(Q, h) /\ Queue(Q) /\ Lifetimes

LEMMA BeforeTime ==
  ASSUME TypesOK, NEW Q, NEW h, Foremost(Q, h), NEW r \in Q
  PROVE  /\ h.ts <= r.ts
         /\ r # h /\ h.op # "create" => h.ts < r.ts
         /\ h.ts \in Nat /\ r.ts \in Nat
<1>1. h.ts \in Nat /\ r.ts \in Nat /\ h \in Pending /\ r \in Pending
  BY PendingFacts DEF Foremost
<1>2. AddressOf(h).ts = h.ts
  BY <1>1, PendingFacts
<1>3. r # h => Before(h, r)
  BY DEF Foremost
<1>4. QED
  BY <1>1, <1>2, <1>3 DEF Before

LEMMA TrackedRest ==
  ASSUME TypesOK, Game, NEW Q, NEW h, Ordered(Q, h), NEW o \in Ids
  PROVE  /\ Tracked(Q \ {h}, o) => Tracked(Q, o)
         /\ Tracked(Q, o) /\ (h.op # "destroy" \/ h.id # o) => Tracked(Q \ {h}, o)
         /\ h.op = "destroy" => ~Tracked(Q \ {h}, h.id)
<1>1. Tracked(Q \ {h}, o) => Tracked(Q, o)
  BY DEF Tracked
<1>2. Tracked(Q, o) /\ (h.op # "destroy" \/ h.id # o) => Tracked(Q \ {h}, o)
  BY DEF Tracked
<1>3. ASSUME h.op = "destroy" PROVE ~Tracked(Q \ {h}, h.id)
  <2>1. h \in Pending /\ h \in Q /\ RecordOk(Q, h) /\ \A r \in Q : Single(h, r)
    BY DEF Ordered, Foremost, Queue
  <2>2. h.id \in Ids /\ h.ts \in Nat
    BY <2>1, PendingFacts
  <2>3. obj[h.id].made <= h.ts /\ h.ts = obj[h.id].freed /\ Begun(h.id)
    BY <1>3, <2>1 DEF RecordOk, Tracked
  <2>4. obj[h.id].made # 0 /\ obj[h.id].made \in Nat
    BY <2>2, <2>3, ObjectFacts DEF Game
  <2>5. obj[h.id].freed # 0
    BY <2>2, <2>3, <2>4
  <2>6. \A r \in Q \ {h} : ~(r.op = "destroy" /\ r.id = h.id)
    BY <1>3, <2>1 DEF Single
  <2>7. QED
    BY <2>5, <2>6 DEF Tracked
<1>4. QED
  BY <1>1, <1>2, <1>3

LEMMA QueueRest ==
  ASSUME TypesOK, Game, NEW Q, NEW h, Ordered(Q, h)
  PROVE  Queue(Q \ {h})
<1> DEFINE Q2 == Q \ {h}
<1>0. Q \subseteq Pending /\ h \in Q /\ h \in Pending
  BY DEF Ordered, Foremost
<1>1. ASSUME NEW r \in Q2
      PROVE  RecordOk(Q2, r)
  <2>1. RecordOk(Q, r) /\ RecordOk(Q, h) /\ Single(h, r) /\ r \in Pending /\ r \in Q
    BY <1>0 DEF Ordered, Queue
  <2>2. h.ts <= r.ts /\ (h.op # "create" => h.ts < r.ts) /\ h.ts \in Nat /\ r.ts \in Nat
    BY <2>1, BeforeTime DEF Ordered
  <2>3. r.id \in Ids /\ obj[r.id].freed \in Nat
        /\ r.op \in {"create", "address", "destroy", "group"}
    BY <2>1, PendingFacts, ObjectFacts
  <2>4. Tracked(Q2, r.id)
    <3>1. h.op = "destroy" => h.id # r.id
      <4>1. SUFFICES ASSUME h.op = "destroy", h.id = r.id PROVE FALSE
        OBVIOUS
      <4>2. r.op # "destroy"
        BY <2>1, <4>1 DEF Single
      <4>3. h.ts = obj[r.id].freed
        BY <2>1, <4>1 DEF RecordOk
      <4>4. obj[r.id].freed = 0 \/ r.ts < obj[r.id].freed
        BY <2>1, <4>2 DEF RecordOk
      <4>5. obj[r.id].made \in Nat /\ obj[r.id].made # 0 /\ obj[r.id].made <= h.ts
        <5>1. Begun(r.id) /\ obj[h.id].made <= h.ts
          BY <2>1 DEF RecordOk, Tracked
        <5>2. QED
          BY <2>3, <4>1, <5>1, ObjectFacts DEF Game
      <4>6. QED
        BY <2>2, <2>3, <4>1, <4>3, <4>4, <4>5
    <3>2. Tracked(Q, r.id)
      BY <2>1 DEF RecordOk
    <3>3. QED
      BY <2>3, <3>1, <3>2, TrackedRest
  <2>5. r.op = "create" => AddressOf(r) \in Q2
    <3>1. SUFFICES ASSUME r.op = "create", AddressOf(r) = h PROVE FALSE
      BY <2>1 DEF RecordOk
    <3>2. h.op = "address" /\ h.ts = r.ts
      BY <2>1, <3>1, PendingFacts
    <3>3. QED
      BY <2>2, <3>2
  <2>6. Latest(Q2, r) => Latest(Q, r)
    BY <2>2 DEF Latest
  <2>7. QED
    BY <2>1, <2>4, <2>5, <2>6 DEF RecordOk
<1>2. QED
  BY <1>1 DEF Queue, Ordered

\* The library ids of an object are its own.
LEMMA OwnLibs ==
  ASSUME Lifetimes, NEW i \in Ids, NEW j \in Ids, NEW l \in obj[i].libs, l \in obj[j].libs
  PROVE  i = j
BY DEF Lifetimes

\* The first record is not about a library id that is still to be created, nor, if it
\* is about a group or an end, about one still to be given an address.
LEMMA FirstOfItsLib ==
  ASSUME TypesOK, Game, NEW Q, NEW h, Ordered(Q, h)
  PROVE  /\ h.op # "create" => ~Waits(Q, "create", h.lib)
         /\ h.op \in {"group", "destroy"} => ~Waits(Q, "address", h.lib)
         /\ h.op = "destroy" => \A l \in obj[h.id].libs :
              ~Waits(Q, "create", l) /\ ~Waits(Q, "address", l)
<1>0. /\ Q \subseteq Pending /\ h \in Q /\ RecordOk(Q, h)
      /\ \A r \in Q : RecordOk(Q, r) /\ Single(h, r) /\ r \in Pending
  BY DEF Ordered, Foremost, Queue
<1>1. ASSUME NEW r \in Q, r # h
      PROVE  h.ts \in Nat /\ r.ts \in Nat /\ h.ts <= r.ts /\ (h.op # "create" => h.ts < r.ts)
  BY <1>1, BeforeTime DEF Ordered
<1>2. ASSUME h.op = "destroy", NEW r \in Q, r.op # "destroy", r.id = h.id
      PROVE  FALSE
  <2>1. h.ts = obj[h.id].freed /\ obj[h.id].made <= h.ts /\ Begun(h.id)
    BY <1>0, <1>2 DEF RecordOk, Tracked
  <2>2. obj[h.id].freed = 0 \/ r.ts < obj[h.id].freed
    BY <1>0, <1>2 DEF RecordOk
  <2>3. h.ts < r.ts /\ h.ts \in Nat /\ r.ts \in Nat
    BY <1>1, <1>2
  <2>4. h.id \in Ids
    BY <1>0, PendingFacts
  <2>5. obj[h.id].freed = 0 /\ obj[h.id].made = 0
    BY <2>1, <2>2, <2>3, <2>4, ObjectFacts
  <2>6. QED
    BY <2>1, <2>4, <2>5 DEF Game
<1>3. ASSUME h.op = "destroy", NEW l \in obj[h.id].libs, NEW op \in {"create", "address"}
      PROVE  ~Waits(Q, op, l)
  <2>1. SUFFICES ASSUME NEW r \in Q, r.op = op, r.lib = l PROVE FALSE
    BY DEF Waits
  <2>2. r.lib \in obj[r.id].libs /\ r.id \in Ids /\ h.id \in Ids
    BY <1>0, PendingFacts DEF RecordOk
  <2>3. r.id = h.id
    BY <1>3, <2>1, <2>2, OwnLibs DEF Ordered
  <2>4. QED
    BY <1>2, <1>3, <2>1, <2>3
<1>4. ASSUME h.op = "group", NEW r \in Q, r.op = "address", r.lib = h.lib
      PROVE  FALSE
  <2>1. r.ts < h.ts /\ r # h
    BY <1>0, <1>4 DEF RecordOk
  <2>2. QED
    BY <1>1, <2>1
<1>5. ASSUME h.op \in {"group", "address"}, NEW r \in Q, r.op = "create", r.lib = h.lib
      PROVE  FALSE
  <2> DEFINE s == AddressOf(r)
  <2>1. s \in Q /\ s.op = "address" /\ s.lib = h.lib /\ s.ts = r.ts
    <3>1. s \in Q
      BY <1>0, <1>5 DEF RecordOk
    <3>2. s.op = "address" /\ s.lib = r.lib /\ s.ts = r.ts
      BY <1>0, PendingFacts
    <3>3. QED
      BY <1>5, <3>1, <3>2
  <2>2. r # h /\ h.ts < r.ts /\ h.ts \in Nat /\ r.ts \in Nat
    BY <1>1, <1>5
  <2> HIDE DEF s
  <2>3. CASE h.op = "group"
    BY <1>4, <2>1, <2>3
  <2>4. CASE h.op = "address"
    <3>1. s = h
      BY <1>0, <2>1, <2>4 DEF Single
    <3>2. QED
      BY <2>1, <2>2, <3>1
  <2>5. QED
    BY <1>5, <2>3, <2>4
<1>6. h.op \in {"create", "address", "destroy", "group"} /\ h.lib \in obj[h.id].libs
  BY <1>0, PendingFacts DEF RecordOk
<1>7. h.op # "create" => ~Waits(Q, "create", h.lib)
  BY <1>3, <1>5, <1>6 DEF Waits
<1>8. h.op \in {"group", "destroy"} => ~Waits(Q, "address", h.lib)
  BY <1>3, <1>4, <1>6 DEF Waits
<1>9. QED
  BY <1>3, <1>7, <1>8

\* What waits for the other library ids is not changed.
LEMMA WaitsRest ==
  ASSUME NEW Q, NEW h, h \in Q
  PROVE  /\ \A op, l : l # h.lib => (Waits(Q \ {h}, op, l) <=> Waits(Q, op, l))
         /\ \A op, l : Waits(Q \ {h}, op, l) => Waits(Q, op, l)
         /\ \A op, l : op # h.op => (Waits(Q \ {h}, op, l) <=> Waits(Q, op, l))
BY DEF Waits

\* An ETW object at the address of the first record is that record's object.
LEMMA EntryAtHead ==
  ASSUME TypesOK, Game, NEW Q, NEW h, Ordered(Q, h), NEW M, Entries(Q, M), M \in Models,
         NEW k \in Libs, KnownIn(M, k), M.etw[k].address = obj[h.id].addr
  PROVE  M.etw[k].obj = h.id
<1> DEFINE e == M.etw[k]
           i == e.obj
           j == h.id
<1>0. h \in Q /\ h \in Pending /\ RecordOk(Q, h) /\ \A r \in Q : RecordOk(Q, r)
  BY DEF Ordered, Foremost, Queue
<1>1. j \in Ids /\ h.ts \in Nat /\ h.op \in {"create", "address", "destroy", "group"}
  BY <1>0, PendingFacts
<1>2. e \in EtwRecords /\ EntryOk(Q, M, k)
  BY Fields DEF Entries
<1>3. i \in Ids /\ e.created \in Nat
  BY <1>2, Numbers DEF EtwRecords
<1>4. /\ Tracked(Q, i) /\ obj[i].made <= e.created /\ e.created <= h.ts
      /\ e.address \in {NoAddr, obj[i].addr}
  BY <1>0, <1>2 DEF EntryOk
<1>5. /\ Tracked(Q, j) /\ obj[j].made <= h.ts
      /\ (h.op = "destroy" => h.ts = obj[j].freed)
      /\ (h.op # "destroy" => obj[j].freed = 0 \/ h.ts < obj[j].freed)
  BY <1>0 DEF RecordOk
<1>6. Begun(i) /\ Begun(j)
  BY <1>4, <1>5 DEF Tracked
<1>7. obj[i].addr = obj[j].addr
  BY <1>1, <1>4, <1>6, Numbers DEF Game
<1> HIDE DEF e, i, j
<1>8. SUFFICES ASSUME i # j PROVE FALSE
  BY DEF i, j, e
<1>9. Apart(i, j) \/ Apart(j, i)
  BY <1>1, <1>3, <1>6, <1>7, <1>8 DEF Ordered, Lifetimes
<1>10. CASE Apart(i, j)
  <2>1. obj[i].freed # 0 /\ obj[i].freed < obj[j].made
    BY <1>10 DEF Apart
  <2>2. PICK d \in Q : d.op = "destroy" /\ d.id = i
    BY <1>4, <2>1 DEF Tracked
  <2>3. d.ts = obj[i].freed /\ h.ts <= d.ts /\ d.ts \in Nat
    BY <1>0, <2>2, BeforeTime DEF RecordOk, Ordered
  <2>4. QED
    BY <1>1, <1>3, <1>5, <2>1, <2>3, ObjectFacts
<1>11. CASE Apart(j, i)
  <2>1. obj[j].freed # 0 /\ obj[j].freed < obj[i].made
    BY <1>11 DEF Apart
  <2>2. h.ts <= obj[j].freed
    BY <1>1, <1>5, <2>1, ObjectFacts
  <2>3. QED
    BY <1>1, <1>3, <1>4, <2>1, <2>2, ObjectFacts
<1>12. QED
  BY <1>9, <1>10, <1>11

\* A Model that says the same of the ETW objects, but for what they are bound to.
SameEntries(M, R) ==
  /\ R.alias = M.alias /\ R.byAddr = M.byAddr
  /\ \A a \in Libs : /\ KnownIn(R, a) <=> KnownIn(M, a)
                     /\ KnownIn(M, a) => SameFacts(M.etw[a], R.etw[a])

\* An object none of whose records waits has its ETW object at its address.
LEMMA Settled ==
  ASSUME TypesOK, Game, Lifetimes, NEW Q, Q \subseteq Pending, Queue(Q), NEW M, Agree(M),
         Progress(Q, M), NEW o \in Ids, Tracked(Q, o), NEW l \in obj[o].libs,
         ~Waits(Q, "address", l), NEW k, k = M.byAddr[obj[o].addr]
  PROVE  /\ k \in Libs /\ KnownIn(M, k) /\ M.etw[k].obj = o /\ M.alias[l] = k
         /\ M.etw[k].address = obj[o].addr /\ obj[o].addr # NoAddr
<1> DEFINE p == obj[o].addr
<1>1. k # 0 /\ M.alias[l] = k /\ M.etw[k].obj = o
  BY DEF Progress, Handled
<1>2. p \in plan.addrs /\ p # NoAddr
  BY Numbers DEF Tracked, Game
<1>3. k \in Libs
  BY <1>1, <1>2, Fields DEF Agree
<1>4. KnownIn(M, k) /\ M.etw[k].address = p
  BY <1>1, <1>2 DEF Agree, Indexes, Addresses
<1>5. QED
  BY <1>1, <1>2, <1>3, <1>4

LEMMA SilentSettled ==
  ASSUME TypesOK, Game, Lifetimes, NEW Q, Q \subseteq Pending, Queue(Q), NEW M, Agree(M),
         Progress(Q, M), NEW o \in Ids, Begun(o), obj[o].freed = 0, Silent(Q, o),
         NEW k, k = M.byAddr[obj[o].addr]
  PROVE  /\ k \in Libs /\ KnownIn(M, k) /\ M.etw[k].obj = o
         /\ M.etw[k].address = obj[o].addr /\ obj[o].addr # NoAddr
<1>1. PICK l \in obj[o].libs : TRUE
  BY DEF Lifetimes
<1>2. \A r \in Q : r.lib # l
  <2>1. ASSUME NEW r \in Q, r.lib = l PROVE FALSE
    <3>1. RecordOk(Q, r) /\ r.id \in Ids /\ r.id # o
      BY PendingFacts DEF Queue, Silent
    <3>2. l \in obj[r.id].libs
      BY <2>1, <3>1 DEF RecordOk
    <3>3. QED
      BY <1>1, <3>1, <3>2, OwnLibs
  <2>2. QED
    BY <2>1
<1>3. ~Waits(Q, "address", l) /\ Tracked(Q, o)
  BY <1>2 DEF Waits, Tracked
<1>4. QED
  BY <1>3, Settled

LEMMA SameEntriesKeep ==
  ASSUME TypesOK, Game, Lifetimes, NEW Q, Q \subseteq Pending, Queue(Q), NEW M, Agree(M),
         Entries(Q, M), Progress(Q, M), NEW R, SameEntries(M, R)
  PROVE  Entries(Q, R) /\ Progress(Q, R)
<1>1. ASSUME NEW k \in Libs, KnownIn(R, k) PROVE EntryOk(Q, R, k)
  <2>1. KnownIn(M, k) /\ EntryOk(Q, M, k) /\ SameFacts(M.etw[k], R.etw[k])
    BY <1>1 DEF SameEntries, Entries
  <2>2. QED
    BY <2>1 DEF EntryOk, SameFacts
<1>2. ASSUME NEW o \in Ids, Tracked(Q, o), NEW l \in obj[o].libs
      PROVE  Handled(Q, R, o, l)
  <2>0. l \in Libs
    BY ObjectFacts
  <2>1. Handled(Q, M, o, l) /\ R.alias = M.alias /\ R.byAddr = M.byAddr
    BY <1>2 DEF Progress, SameEntries
  <2>2. Waits(Q, "create", l) => R.alias[l] = 0
    BY <2>1 DEF Handled
  <2>3. Waits(Q, "address", l) /\ ~Waits(Q, "create", l) =>
          /\ R.alias[l] = l /\ KnownIn(R, l)
          /\ R.etw[l].obj = o /\ R.etw[l].address = NoAddr
          /\ \A r \in Q : r.op = "address" /\ r.lib = l => R.etw[l].group = r.group
    BY <2>0, <2>1 DEF Handled, SameEntries, SameFacts
  <2>4. ASSUME ~Waits(Q, "address", l)
        PROVE  /\ R.byAddr[obj[o].addr] # 0
               /\ R.alias[l] = R.byAddr[obj[o].addr]
               /\ R.etw[R.byAddr[obj[o].addr]].obj = o
    <3> DEFINE k == M.byAddr[obj[o].addr]
    <3>1. k \in Libs /\ KnownIn(M, k) /\ M.etw[k].obj = o /\ M.alias[l] = k
      BY <1>2, <2>4, Settled
    <3> HIDE DEF k
    <3>2. R.etw[k].obj = o
      BY <3>1 DEF SameEntries, SameFacts
    <3>3. k # 0
      BY <3>1, Numbers
    <3>4. QED
      BY <2>1, <3>1, <3>2, <3>3 DEF k
  <2>5. QED
    BY <2>2, <2>3, <2>4 DEF Handled
<1>3. ASSUME NEW o \in Ids, Begun(o), obj[o].freed = 0, Silent(Q, o)
      PROVE  R.etw[R.byAddr[obj[o].addr]].group = obj[o].group
  <2> DEFINE k == M.byAddr[obj[o].addr]
  <2>1. k \in Libs /\ KnownIn(M, k)
    BY <1>3, SilentSettled
  <2>2. M.etw[k].group = obj[o].group
    BY <1>3 DEF Progress
  <2>3. R.byAddr[obj[o].addr] = k
    BY DEF SameEntries
  <2> HIDE DEF k
  <2>4. R.etw[k].group = M.etw[k].group
    BY <2>1 DEF SameEntries, SameFacts
  <2>5. QED
    BY <2>2, <2>3, <2>4
<1>4. QED
  BY <1>1, <1>2, <1>3 DEF Entries, Progress

-----------------------------------------------------------------------------
(* What the handlers of ETW records make of the entries.                   *)

ChainOf(Q, M) == Entries(Q, M) /\ Progress(Q, M)

\* What they assume of the Model.
Ready(Q, h, M) ==
  /\ TypesOK /\ Game /\ Ordered(Q, h)
  /\ Agree(M) /\ ChainOf(Q, M)

LEMMA HeadFacts ==
  ASSUME NEW Q, NEW h, NEW M, Ready(Q, h, M)
  PROVE  /\ h \in Q /\ h \in Pending /\ Q \subseteq Pending /\ RecordOk(Q, h) /\ Queue(Q)
         /\ Lifetimes
         /\ h.id \in Ids /\ h.lib \in Libs /\ h.ts \in Stamps /\ h.group \in Locs
         /\ h.lib \in obj[h.id].libs /\ Tracked(Q, h.id) /\ Begun(h.id)
         /\ obj[h.id].addr \in plan.addrs /\ obj[h.id].addr # NoAddr
         /\ M \in Models /\ Aliases(M) /\ Addresses(M) /\ Bindings(M)
<1>1. /\ h \in Q /\ h \in Pending /\ Q \subseteq Pending /\ RecordOk(Q, h) /\ Queue(Q)
      /\ Lifetimes
  BY DEF Ready, Ordered, Foremost, Queue
<1>2. h \in Records
  BY <1>1, PendingFacts DEF Ready
<1>3. h.id \in Ids /\ h.lib \in Libs /\ h.ts \in Stamps /\ h.group \in Locs
  BY <1>2 DEF Records
<1>4. h.lib \in obj[h.id].libs /\ Tracked(Q, h.id) /\ Begun(h.id)
  BY <1>1 DEF RecordOk, Tracked
<1>5. obj[h.id].addr \in plan.addrs /\ obj[h.id].addr # NoAddr
  BY <1>3, <1>4, Numbers DEF Ready, Game
<1>6. M \in Models /\ Aliases(M) /\ Addresses(M) /\ Bindings(M)
  BY DEF Ready, Agree, Indexes
<1>7. QED
  BY <1>1, <1>3, <1>4, <1>5, <1>6

\* A new ETW object.
NewEntry(r) ==
  [type |-> TypeOf(r.id), address |-> NoAddr, group |-> r.group,
   created |-> r.ts, bound |-> 0, orphan |-> FALSE, aliases |-> {}, obj |-> r.id]
WithEntry(M, r) == [M EXCEPT !.etw[r.lib] = NewEntry(r), !.alias[r.lib] = r.lib]

LEMMA NewEntryFacts ==
  ASSUME NEW Q, NEW h, NEW M, Ready(Q, h, M), h.op = "create",
         NEW l, l = h.lib, NEW R, R = WithEntry(M, h)
  PROVE  /\ M.alias[l] = 0 /\ ~KnownIn(M, l)
         /\ R.live = M.live /\ R.ptr = M.ptr /\ R.dead = M.dead /\ R.byAddr = M.byAddr
         /\ R.etw[l] = NewEntry(h) /\ R.alias[l] = l /\ KnownIn(R, l)
         /\ \A a \in Libs : a # l => /\ R.etw[a] = M.etw[a] /\ R.alias[a] = M.alias[a]
                                     /\ (KnownIn(R, a) <=> KnownIn(M, a))
<1> DEFINE e == NewEntry(h)
<1>1. /\ h \in Q /\ RecordOk(Q, h) /\ h.id \in Ids /\ h.lib \in Libs /\ h.ts \in Stamps
      /\ h.group \in Locs /\ h.lib \in obj[h.id].libs /\ Tracked(Q, h.id)
      /\ M \in Models /\ Aliases(M) /\ TypesOK
  BY HeadFacts DEF Ready
<1>2. M.alias[l] = 0
  <2>1. Handled(Q, M, h.id, h.lib)
    BY <1>1 DEF Ready, ChainOf, Progress
  <2>2. Waits(Q, "create", h.lib)
    BY <1>1 DEF Waits
  <2>3. QED
    BY <2>1, <2>2 DEF Handled
<1>3. ~KnownIn(M, l)
  BY <1>1, <1>2, Numbers DEF Aliases
<1>4. e \in EtwRecords /\ e # NoObj
  <2>1. TypeOf(h.id) \in Types
    BY DEF TypeOf, Types
  <2>2. e \in EtwRecords
    BY <1>1, <2>1, Numbers DEF EtwRecords, NewEntry
  <2>3. QED
    BY <1>1, <2>2, NoRecords
<1>5. M.etw \in [Libs -> {NoObj} \union EtwRecords] /\ M.alias \in [Libs -> {0} \union Libs]
  BY <1>1, Fields
<1>6. l \in Libs
  BY <1>1
<1> HIDE DEF e
<1>7. /\ R.live = M.live /\ R.ptr = M.ptr /\ R.dead = M.dead /\ R.byAddr = M.byAddr
      /\ R.etw = [M.etw EXCEPT ![l] = e] /\ R.alias = [M.alias EXCEPT ![l] = l]
  BY <1>1 DEF Models, e, WithEntry
<1>8. /\ R.etw[l] = e /\ R.alias[l] = l
      /\ \A a \in Libs : a # l => R.etw[a] = M.etw[a] /\ R.alias[a] = M.alias[a]
  BY <1>5, <1>6, <1>7
<1>9. KnownIn(R, l) /\ \A a \in Libs : a # l => (KnownIn(R, a) <=> KnownIn(M, a))
  BY <1>4, <1>8 DEF KnownIn
<1>10. QED
  BY <1>2, <1>3, <1>7, <1>8, <1>9 DEF e

LEMMA CreateChain ==
  ASSUME NEW Q, NEW h, NEW M, Ready(Q, h, M), h.op = "create",
         NEW l, l = h.lib, NEW R, R = WithEntry(M, h)
  PROVE  ChainOf(Q \ {h}, R)
<1> DEFINE e == NewEntry(h)
           Q2 == Q \ {h}
           a == AddressOf(h)
<1>1. /\ h \in Q /\ h \in Pending /\ Q \subseteq Pending /\ RecordOk(Q, h) /\ Queue(Q)
      /\ Lifetimes
      /\ h.id \in Ids /\ l \in Libs /\ l \in obj[h.id].libs /\ Tracked(Q, h.id)
      /\ M \in Models /\ TypesOK /\ Game /\ Ordered(Q, h) /\ Agree(M)
      /\ Entries(Q, M) /\ Progress(Q, M)
  BY HeadFacts DEF Ready, ChainOf
<1>2. /\ M.alias[l] = 0 /\ ~KnownIn(M, l) /\ R.byAddr = M.byAddr
      /\ R.etw[l] = e /\ R.alias[l] = l /\ KnownIn(R, l)
      /\ \A b \in Libs : b # l => /\ R.etw[b] = M.etw[b] /\ R.alias[b] = M.alias[b]
                                  /\ (KnownIn(R, b) <=> KnownIn(M, b))
  BY NewEntryFacts
<1>3. /\ e.type = TypeOf(h.id) /\ e.address = NoAddr /\ e.group = h.group /\ e.created = h.ts
      /\ e.aliases = {} /\ e.obj = h.id
  BY DEF NewEntry
<1>4. /\ a \in Q2 /\ a.op = "address" /\ a.id = h.id /\ a.lib = l /\ a.group = h.group
  <2>1. a \in Q
    BY <1>1 DEF RecordOk
  <2>2. a.op = "address" /\ a.id = h.id /\ a.lib = l /\ a.group = h.group
    BY <1>1, PendingFacts
  <2>3. QED
    BY <2>1, <2>2
<1> HIDE DEF e, a
<1>5. \A o \in Ids : Tracked(Q, o) <=> Tracked(Q2, o)
  BY <1>1, TrackedRest
<1>6. \A r \in Q2 : h.ts <= r.ts
  BY <1>1, BeforeTime DEF Ordered
<1>7. Entries(Q2, R)
  <2> SUFFICES ASSUME NEW k \in Libs, KnownIn(R, k)
               PROVE  EntryOk(Q2, R, k)
    BY DEF Entries
  <2>1. CASE k = l
    <3>1. h.group = "Unknown" <=> ~HasMemory(h.id)
      BY <1>1 DEF RecordOk
    <3>2. obj[h.id].made <= h.ts
      BY <1>1 DEF RecordOk
    <3>3. QED
      BY <1>1, <1>2, <1>3, <1>5, <1>6, <2>1, <3>1, <3>2 DEF EntryOk
  <2>2. CASE k # l
    <3>1. EntryOk(Q, M, k) /\ R.etw[k] = M.etw[k] /\ M.etw[k] \in EtwRecords
      BY <1>1, <1>2, <2>2, Fields DEF Entries
    <3>2. M.etw[k].obj \in Ids
      BY <3>1 DEF EtwRecords
    <3>3. QED
      BY <1>5, <3>1, <3>2 DEF EntryOk
  <2>3. QED
    BY <2>1, <2>2
<1>8. ASSUME NEW o \in Ids, Tracked(Q2, o), NEW b \in obj[o].libs
      PROVE  Handled(Q2, R, o, b)
  <2>0. b \in Libs /\ Handled(Q, M, o, b) /\ Tracked(Q, o)
    BY <1>1, <1>5, <1>8, ObjectFacts DEF Progress
  <2>1. CASE b = l
    <3>1. o = h.id
      BY <1>1, <2>1, OwnLibs
    <3>2. \A r \in Q2 : r.op = "create" => r.lib # l
      BY <1>1 DEF Queue, Single
    <3>3. \A r \in Q2 : r.op = "address" /\ r.lib = l => r = a
      BY <1>1, <1>4 DEF Queue, Single
    <3>4. Waits(Q2, "address", l) /\ ~Waits(Q2, "create", l)
      BY <1>4, <3>2 DEF Waits
    <3>5. QED
      BY <1>2, <1>3, <1>4, <2>1, <3>1, <3>3, <3>4 DEF Handled
  <2>2. CASE b # l
    <3>1. \A op : Waits(Q2, op, b) <=> Waits(Q, op, b)
      BY <1>1, <2>2, WaitsRest
    <3>2. R.alias[b] = M.alias[b] /\ R.etw[b] = M.etw[b] /\ (KnownIn(R, b) <=> KnownIn(M, b))
      BY <1>2, <2>0, <2>2
    <3>3. Waits(Q2, "create", b) => R.alias[b] = 0
      BY <2>0, <3>1, <3>2 DEF Handled
    <3>4. Waits(Q2, "address", b) /\ ~Waits(Q2, "create", b) =>
            /\ R.alias[b] = b /\ KnownIn(R, b)
            /\ R.etw[b].obj = o /\ R.etw[b].address = NoAddr
            /\ \A r \in Q2 : r.op = "address" /\ r.lib = b => R.etw[b].group = r.group
      BY <2>0, <3>1, <3>2 DEF Handled
    <3>5. ASSUME ~Waits(Q2, "address", b)
          PROVE  /\ R.byAddr[obj[o].addr] # 0
                 /\ R.alias[b] = R.byAddr[obj[o].addr]
                 /\ R.etw[R.byAddr[obj[o].addr]].obj = o
      <4> DEFINE k == M.byAddr[obj[o].addr]
      <4>1. k \in Libs /\ KnownIn(M, k) /\ M.etw[k].obj = o /\ M.alias[b] = k
        BY <1>1, <2>0, <3>1, <3>5, Settled
      <4>2. k # 0
        BY <1>1, <4>1, Numbers
      <4>3. R.byAddr[obj[o].addr] = k
        BY <1>2
      <4> HIDE DEF k
      <4>4. R.etw[k] = M.etw[k]
        BY <1>2, <4>1
      <4>5. QED
        BY <3>2, <4>1, <4>2, <4>3, <4>4
    <3>6. QED
      BY <3>3, <3>4, <3>5 DEF Handled
  <2>3. QED
    BY <2>1, <2>2
<1>9. ASSUME NEW o \in Ids, Begun(o), obj[o].freed = 0, Silent(Q2, o)
      PROVE  R.etw[R.byAddr[obj[o].addr]].group = obj[o].group
  <2>1. Silent(Q, o)
    BY <1>4, <1>9 DEF Silent
  <2> DEFINE k == M.byAddr[obj[o].addr]
  <2>2. k \in Libs /\ KnownIn(M, k)
    BY <1>1, <1>9, <2>1, SilentSettled
  <2>3. M.etw[k].group = obj[o].group
    BY <1>1, <1>9, <2>1 DEF Progress
  <2>4. R.byAddr[obj[o].addr] = k
    BY <1>2
  <2> HIDE DEF k
  <2>5. R.etw[k] = M.etw[k]
    BY <1>2, <2>2
  <2>6. QED
    BY <2>3, <2>4, <2>5
<1>10. QED
  BY <1>7, <1>8, <1>9 DEF ChainOf, Progress

\* The first record tells the group that its object has, if nothing else does.
LEMMA LastGroup ==
  ASSUME NEW Q, NEW h, NEW M, Ready(Q, h, M), obj[h.id].freed = 0, Silent(Q \ {h}, h.id)
  PROVE  h.group = obj[h.id].group
<1>1. h.ts \in Nat /\ RecordOk(Q, h)
  BY HeadFacts, PendingFacts DEF Ready
<1>2. Latest(Q, h)
  BY SMTT(30), <1>1 DEF Latest, Silent
<1>3. QED
  BY <1>1, <1>2 DEF RecordOk

\* What is known of a library id whose address comes first.
LEMMA AddressFacts ==
  ASSUME NEW Q, NEW h, NEW M, Ready(Q, h, M), h.op = "address",
         NEW l, l = h.lib, NEW old, old = M.byAddr[obj[h.id].addr]
  PROVE      /\ M.alias[l] = l /\ KnownIn(M, l) /\ M.etw[l] \in EtwRecords
             /\ M.etw[l].obj = h.id /\ M.etw[l].address = NoAddr /\ M.etw[l].group = h.group
             /\ M.etw[l].type = TypeOf(h.id) /\ M.etw[l].bound = 0
             /\ old # 0 => /\ old \in Libs /\ KnownIn(M, old) /\ M.etw[old].obj = h.id
                           /\ M.etw[old].type = TypeOf(h.id) /\ old # l
                           /\ M.etw[old].address = obj[h.id].addr
<1> DEFINE p == obj[h.id].addr
<1>1. /\ h \in Q /\ RecordOk(Q, h) /\ h.id \in Ids /\ l \in Libs
      /\ l \in obj[h.id].libs /\ Tracked(Q, h.id) /\ p \in plan.addrs /\ p # NoAddr
      /\ M \in Models /\ Aliases(M) /\ Addresses(M) /\ TypesOK /\ Game /\ Ordered(Q, h)
      /\ Entries(Q, M)
  BY HeadFacts DEF Ready, ChainOf
<1>2. Waits(Q, "address", l) /\ ~Waits(Q, "create", l)
  BY <1>1, FirstOfItsLib DEF Waits
<1>3. Handled(Q, M, h.id, l)
  BY <1>1 DEF Ready, ChainOf, Progress
<1>4. /\ M.alias[l] = l /\ KnownIn(M, l) /\ M.etw[l].obj = h.id /\ M.etw[l].address = NoAddr
      /\ M.etw[l].group = h.group
  BY <1>1, <1>2, <1>3 DEF Handled
<1>5. M.etw[l].type = TypeOf(h.id)
  BY <1>1, <1>4 DEF Entries, EntryOk
<1>6. M.etw[l].bound = 0 /\ M.etw[l] \in EtwRecords
  BY SMTT(30), <1>1, <1>4, Fields DEF Aliases
<1>7. ASSUME old # 0
      PROVE  /\ old \in Libs /\ KnownIn(M, old) /\ M.etw[old].obj = h.id
             /\ M.etw[old].type = TypeOf(h.id) /\ old # l /\ M.etw[old].address = p
  <2>1. old \in Libs
    BY <1>1, <1>7, Fields
  <2>2. KnownIn(M, old) /\ M.etw[old].address = p
    BY SMTT(30), <1>1, <1>7 DEF Addresses
  <2>3. M.etw[old].obj = h.id
    BY <1>1, <2>1, <2>2, EntryAtHead
  <2>4. M.etw[old].type = TypeOf(h.id)
    BY Zenon, <1>1, <2>1, <2>2, <2>3 DEF Entries, EntryOk
  <2>5. QED
    BY <1>1, <1>4, <2>1, <2>2, <2>3, <2>4
<1>8. QED
  BY <1>4, <1>5, <1>6, <1>7

\* An address at which nothing is known yet.
LEMMA TakeChain ==
  ASSUME NEW Q, NEW h, NEW M, Ready(Q, h, M), h.op = "address",
         M.byAddr[obj[h.id].addr] = 0,
         NEW N, Agree(N), N.alias = M.alias,
         NEW l, l = h.lib,
         N.byAddr = [M.byAddr EXCEPT ![obj[h.id].addr] = l],
         N.etw = [M.etw EXCEPT ![l] = [M.etw[l] EXCEPT !.address = obj[h.id].addr]]
  PROVE  ChainOf(Q \ {h}, N)
<1> DEFINE p == obj[h.id].addr
           Q2 == Q \ {h}
           e == M.etw[l]
           e2 == [e EXCEPT !.address = p]
<1>1. /\ h \in Q /\ h \in Pending /\ Q \subseteq Pending /\ RecordOk(Q, h) /\ Queue(Q)
      /\ Lifetimes
      /\ h.id \in Ids /\ l \in Libs /\ l \in obj[h.id].libs /\ Tracked(Q, h.id)
      /\ p \in plan.addrs /\ p # NoAddr
      /\ M \in Models /\ TypesOK /\ Game /\ Ordered(Q, h) /\ Agree(M)
      /\ Entries(Q, M) /\ Progress(Q, M)
  BY HeadFacts DEF Ready, ChainOf
<1>2. /\ M.alias[l] = l /\ KnownIn(M, l) /\ e \in EtwRecords
      /\ e.obj = h.id /\ e.address = NoAddr /\ e.group = h.group
  BY AddressFacts
<1>3. /\ SameFacts(e, [e2 EXCEPT !.address = NoAddr]) /\ e2.address = p /\ e2 # NoObj
      /\ e2.type = e.type /\ e2.group = e.group /\ e2.created = e.created
      /\ e2.aliases = e.aliases /\ e2.obj = e.obj
  <2>1. e2 \in EtwRecords /\ e2.address = p
        /\ e2.type = e.type /\ e2.group = e.group /\ e2.created = e.created
        /\ e2.aliases = e.aliases /\ e2.obj = e.obj
    BY <1>1, <1>2 DEF EtwRecords
  <2>2. SameFacts(e, [e2 EXCEPT !.address = NoAddr])
    BY <1>2 DEF EtwRecords, SameFacts
  <2>3. QED
    BY <1>1, <2>1, <2>2, NoRecords
<1>4. /\ N.etw[l] = e2
      /\ \A b \in Libs : b # l => N.etw[b] = M.etw[b]
      /\ N.byAddr[p] = l
      /\ \A q \in plan.addrs : q # p => N.byAddr[q] = M.byAddr[q]
  <2>1. M.etw \in [Libs -> {NoObj} \union EtwRecords]
        /\ M.byAddr \in [plan.addrs -> {0} \union Libs]
    BY <1>1, Fields
  <2>2. QED
    BY <1>1, <2>1
<1>5. \A b \in Libs : KnownIn(N, b) <=> KnownIn(M, b)
  BY <1>2, <1>3, <1>4 DEF KnownIn
<1>6. \A o \in Ids : Tracked(Q, o) <=> Tracked(Q2, o)
  BY <1>1, TrackedRest
<1>z. l # 0 /\ M.byAddr[p] = 0
  BY <1>1, Numbers
<1> HIDE DEF e, e2
<1>7. Entries(Q2, N)
  <2> SUFFICES ASSUME NEW k \in Libs, KnownIn(N, k)
               PROVE  EntryOk(Q2, N, k)
    BY DEF Entries
  <2>1. EntryOk(Q, M, k) /\ KnownIn(M, k) /\ M.etw[k] \in EtwRecords
    BY <1>1, <1>5, Fields DEF Entries
  <2>2. M.etw[k].obj \in Ids
    BY <2>1 DEF EtwRecords
  <2>3. CASE k = l
    <3>1. N.etw[k] = e2 /\ M.etw[k] = e /\ e.obj = h.id /\ e2.obj = e.obj /\ e2.address = p
          /\ e2.type = e.type /\ e2.group = e.group /\ e2.created = e.created
          /\ e2.aliases = e.aliases
      BY <1>2, <1>3, <1>4, <2>3 DEF e
    <3>2. Tracked(Q2, h.id)
      BY <1>1, <1>6
    <3>3. QED
      BY <2>1, <3>1, <3>2 DEF EntryOk
  <2>4. CASE k # l
    BY <1>4, <1>6, <2>1, <2>2, <2>4 DEF EntryOk
  <2>5. QED
    BY <2>3, <2>4
<1>8. ASSUME NEW o \in Ids, Tracked(Q2, o), NEW b \in obj[o].libs
      PROVE  Handled(Q2, N, o, b)
  <2>0. b \in Libs /\ Handled(Q, M, o, b) /\ Tracked(Q, o)
    BY <1>1, <1>6, <1>8, ObjectFacts DEF Progress
  <2>1. CASE b = l
    <3>1. o = h.id
      BY <1>1, <2>1, OwnLibs
    <3>2. ~Waits(Q2, "address", l) /\ ~Waits(Q2, "create", l)
      <4>1. ~Waits(Q, "create", l)
        BY <1>1, FirstOfItsLib
      <4>2. \A r \in Q2 : r.op = "address" => r.lib # l
        BY <1>1 DEF Queue, Single
      <4>3. QED
        BY <4>1, <4>2 DEF Waits
    <3>3. N.byAddr[p] # 0 /\ N.alias[l] = N.byAddr[p] /\ N.etw[N.byAddr[p]].obj = o
      BY <1>2, <1>3, <1>4, <1>z, <3>1
    <3>4. QED
      BY <2>1, <3>1, <3>2, <3>3 DEF Handled
  <2>2. CASE b # l
    <3>1. \A op : Waits(Q2, op, b) <=> Waits(Q, op, b)
      BY <1>1, <2>2, WaitsRest
    <3>2. N.alias[b] = M.alias[b] /\ N.etw[b] = M.etw[b] /\ (KnownIn(N, b) <=> KnownIn(M, b))
      BY <1>4, <1>5, <2>0, <2>2
    <3>3. Waits(Q2, "create", b) => N.alias[b] = 0
      BY <2>0, <3>1, <3>2 DEF Handled
    <3>4. Waits(Q2, "address", b) /\ ~Waits(Q2, "create", b) =>
            /\ N.alias[b] = b /\ KnownIn(N, b)
            /\ N.etw[b].obj = o /\ N.etw[b].address = NoAddr
            /\ \A r \in Q2 : r.op = "address" /\ r.lib = b => N.etw[b].group = r.group
      BY <2>0, <3>1, <3>2 DEF Handled
    <3>5. ASSUME ~Waits(Q2, "address", b)
          PROVE  /\ N.byAddr[obj[o].addr] # 0
                 /\ N.alias[b] = N.byAddr[obj[o].addr]
                 /\ N.etw[N.byAddr[obj[o].addr]].obj = o
      <4> DEFINE q == obj[o].addr
                 k == M.byAddr[q]
      <4>1. /\ k \in Libs /\ KnownIn(M, k) /\ M.etw[k].obj = o /\ M.alias[b] = k
            /\ M.etw[k].address = q /\ q # NoAddr
        BY SMTT(30), <1>1, <2>0, <3>1, <3>5, Settled
      <4>2. k # 0 /\ q \in plan.addrs
        BY <1>1, <2>0, <4>1, Numbers DEF Tracked, Game
      <4>3. q # p
        BY <1>z, <4>2
      <4>4. N.byAddr[q] = k
        BY <1>4, <4>2, <4>3
      <4>5. k # l
        BY <1>2, <4>1 DEF e
      <4> HIDE DEF k
      <4>6. N.etw[k] = M.etw[k]
        BY <1>4, <4>1, <4>5
      <4>7. QED
        BY <3>2, <4>1, <4>2, <4>4, <4>6
    <3>6. QED
      BY <3>3, <3>4, <3>5 DEF Handled
  <2>3. QED
    BY <2>1, <2>2
<1>9. ASSUME NEW o \in Ids, Begun(o), obj[o].freed = 0, Silent(Q2, o)
      PROVE  N.etw[N.byAddr[obj[o].addr]].group = obj[o].group
  <2>1. CASE o = h.id
    <3>1. h.group = obj[o].group
      BY <1>9, <2>1, LastGroup
    <3>2. N.byAddr[obj[o].addr] = l /\ N.etw[l].group = h.group
      BY <1>2, <1>3, <1>4, <2>1
    <3>3. QED
      BY <3>1, <3>2
  <2>2. CASE o # h.id
    <3>1. Silent(Q, o)
      BY <1>9, <2>2 DEF Silent
    <3> DEFINE q == obj[o].addr
               k == M.byAddr[q]
    <3>2. k \in Libs /\ KnownIn(M, k) /\ M.etw[k].address = q /\ q # NoAddr
      BY <1>1, <1>9, <3>1, SilentSettled
    <3>3. M.etw[k].group = obj[o].group
      BY <1>1, <1>9, <3>1 DEF Progress
    <3>4. q \in plan.addrs /\ k # 0
      BY <1>1, <1>9, <3>2, Numbers DEF Game
    <3>5. q # p
      BY <1>z, <3>4
    <3>6. N.byAddr[q] = k
      BY <1>4, <3>4, <3>5
    <3>7. k # l
      BY <1>2, <3>2 DEF e
    <3> HIDE DEF k
    <3>8. N.etw[k] = M.etw[k]
      BY SMTT(30), <1>4, <3>2, <3>7
    <3>9. QED
      BY <3>3, <3>6, <3>8
  <2>3. QED
    BY <2>1, <2>2
<1>10. QED
  BY <1>7, <1>8, <1>9 DEF ChainOf, Progress

\* What is known at the address of the first record.
LEMMA KnownHere ==
  ASSUME NEW Q, NEW h, NEW M, Ready(Q, h, M), NEW k, k = M.byAddr[obj[h.id].addr], k # 0
  PROVE  k \in Libs /\ KnownIn(M, k) /\ M.etw[k].address = obj[h.id].addr
         /\ M.etw[k].obj = h.id /\ M.etw[k].type = TypeOf(h.id)
<1> DEFINE p == obj[h.id].addr
<1>1. /\ p \in plan.addrs /\ M \in Models /\ Addresses(M) /\ TypesOK /\ Game
      /\ Ordered(Q, h) /\ Entries(Q, M)
  BY HeadFacts DEF Ready, ChainOf
<1>2. k = M.byAddr[p] /\ p = obj[h.id].addr
  OBVIOUS
<1> HIDE DEF p
<1>3. k \in Libs
  BY <1>1, <1>2, Fields
<1>4. KnownIn(M, k) /\ M.etw[k].address = p
  BY SMTT(30), <1>1, <1>2 DEF Addresses
<1>5. M.etw[k].obj = h.id
  BY <1>1, <1>2, <1>3, <1>4, EntryAtHead
<1>6. M.etw[k].type = TypeOf(h.id)
  BY ZenonT(60), <1>1, <1>3, <1>4, <1>5 DEF Entries, EntryOk
<1>7. QED
  BY <1>2, <1>3, <1>4, <1>5, <1>6

\* k takes the group of the record r, and the library id of r names it.
Renews(M, N, r, k) ==
  /\ N.byAddr = M.byAddr /\ N.alias[r.lib] = k
  /\ \A b \in Libs : b # r.lib => N.alias[b] = M.alias[b]
  /\ \A b \in Libs : b # k =>
       N.etw[b] = M.etw[b] \/ (b = r.lib /\ r.op = "address" /\ ~KnownIn(N, b))
  /\ KnownIn(N, k)
  /\ N.etw[k].type = M.etw[k].type /\ N.etw[k].address = M.etw[k].address
  /\ N.etw[k].created = M.etw[k].created /\ N.etw[k].obj = r.id /\ N.etw[k].group = r.group
  /\ N.etw[k].aliases \subseteq M.etw[k].aliases \union {r.lib}

LEMMA KnownChain ==
  ASSUME NEW Q, NEW h, NEW M, Ready(Q, h, M), h.op \in {"address", "group"},
         NEW l, l = h.lib, NEW k, k = M.byAddr[obj[h.id].addr], k # 0,
         NEW N, Renews(M, N, h, k)
  PROVE  ChainOf(Q \ {h}, N)
<1> DEFINE p == obj[h.id].addr
           Q2 == Q \ {h}
<1>1. /\ h \in Q /\ h \in Pending /\ Q \subseteq Pending /\ RecordOk(Q, h) /\ Queue(Q)
      /\ Lifetimes
      /\ h.id \in Ids /\ l \in Libs /\ l \in obj[h.id].libs /\ Tracked(Q, h.id)
      /\ p \in plan.addrs /\ p # NoAddr
      /\ M \in Models /\ Addresses(M) /\ TypesOK /\ Game /\ Ordered(Q, h) /\ Agree(M)
      /\ Entries(Q, M) /\ Progress(Q, M)
  BY HeadFacts DEF Ready, ChainOf
<1>2. k \in Libs /\ KnownIn(M, k) /\ M.etw[k].address = p /\ M.etw[k].obj = h.id
  BY SMTT(30), KnownHere
<1>3. ASSUME h.op = "address" PROVE M.etw[l].address = NoAddr /\ l # k
  <2>1. M.etw[l].address = NoAddr
    BY <1>3, AddressFacts
  <2>2. QED
    BY <1>1, <1>2, <2>1
<1>4. \A o \in Ids : Tracked(Q, o) <=> Tracked(Q2, o)
  BY <1>1, TrackedRest
<1>5. ~Waits(Q2, "address", l) /\ ~Waits(Q2, "create", l)
  <2>1. ~Waits(Q, "create", l) /\ (h.op = "group" => ~Waits(Q, "address", l))
    BY <1>1, FirstOfItsLib
  <2>2. h.op = "address" => \A r \in Q2 : r.op = "address" => r.lib # l
    BY <1>1 DEF Queue, Single
  <2>3. QED
    BY <2>1, <2>2 DEF Waits
<1>6. /\ \A b \in Libs : b # k /\ KnownIn(N, b) => N.etw[b] = M.etw[b]
      /\ \A b \in Libs : b # k /\ (b # l \/ h.op # "address") => N.etw[b] = M.etw[b]
      /\ \A b \in Libs : b # l => N.alias[b] = M.alias[b]
      /\ N.byAddr = M.byAddr /\ N.alias[l] = k
      /\ KnownIn(N, k) /\ N.etw[k].type = M.etw[k].type
      /\ N.etw[k].address = M.etw[k].address /\ N.etw[k].created = M.etw[k].created
      /\ N.etw[k].obj = h.id /\ N.etw[k].group = h.group
      /\ N.etw[k].aliases \subseteq M.etw[k].aliases \union {l}
  BY Zenon DEF Renews
<1>7. Entries(Q2, N)
  <2> SUFFICES ASSUME NEW b \in Libs, KnownIn(N, b)
               PROVE  EntryOk(Q2, N, b)
    BY DEF Entries
  <2>1. CASE b = k
    <3>1. EntryOk(Q, M, k)
      BY <1>1, <1>2 DEF Entries
    <3>2. h.group = "Unknown" <=> ~HasMemory(h.id)
      BY <1>1 DEF RecordOk
    <3>3. QED
      BY ZenonT(60), <1>1, <1>2, <1>4, <1>6, <2>1, <3>1, <3>2 DEF EntryOk
  <2>2. CASE b # k
    <3>1. N.etw[b] = M.etw[b] /\ KnownIn(M, b)
      BY Zenon, <1>6, <2>2 DEF KnownIn
    <3>2. EntryOk(Q, M, b) /\ M.etw[b] \in EtwRecords
      BY <1>1, <3>1, Fields DEF Entries
    <3>3. M.etw[b].obj \in Ids
      BY <3>2 DEF EtwRecords
    <3>4. QED
      BY Zenon, <1>4, <3>1, <3>2, <3>3 DEF EntryOk
  <2>3. QED
    BY <2>1, <2>2
<1>8. ASSUME NEW o \in Ids, Tracked(Q2, o), NEW b \in obj[o].libs
      PROVE  Handled(Q2, N, o, b)
  <2>0. b \in Libs /\ Handled(Q, M, o, b) /\ Tracked(Q, o)
    BY <1>1, <1>4, <1>8, ObjectFacts DEF Progress
  <2>1. CASE b = l
    <3>1. o = h.id
      BY <1>1, <2>1, OwnLibs
    <3>2. QED
      BY Zenon, <1>5, <1>6, <2>1, <3>1 DEF Handled
  <2>2. CASE b # l
    <3>1. \A op : Waits(Q2, op, b) <=> Waits(Q, op, b)
      BY <1>1, <2>2, WaitsRest
    <3>2. N.alias[b] = M.alias[b]
      BY Zenon, <1>6, <2>0, <2>2
    <3>3. Waits(Q2, "create", b) => N.alias[b] = 0
      BY <2>0, <3>1, <3>2 DEF Handled
    <3>4. ASSUME Waits(Q2, "address", b), ~Waits(Q2, "create", b)
          PROVE  /\ N.alias[b] = b /\ KnownIn(N, b)
                 /\ N.etw[b].obj = o /\ N.etw[b].address = NoAddr
                 /\ \A r \in Q2 : r.op = "address" /\ r.lib = b => N.etw[b].group = r.group
      <4>1. /\ M.alias[b] = b /\ KnownIn(M, b)
            /\ M.etw[b].obj = o /\ M.etw[b].address = NoAddr
            /\ \A r \in Q : r.op = "address" /\ r.lib = b => M.etw[b].group = r.group
        BY <2>0, <3>1, <3>4 DEF Handled
      <4>2. N.etw[b] = M.etw[b]
        BY Zenon, <1>1, <1>2, <1>6, <2>0, <2>2, <4>1
      <4>3. QED
        BY <3>2, <4>1, <4>2 DEF KnownIn
    <3>5. ASSUME ~Waits(Q2, "address", b)
          PROVE  /\ N.byAddr[obj[o].addr] # 0
                 /\ N.alias[b] = N.byAddr[obj[o].addr]
                 /\ N.etw[N.byAddr[obj[o].addr]].obj = o
      <4> DEFINE a == M.byAddr[obj[o].addr]
      <4>1. /\ a \in Libs /\ M.etw[a].obj = o /\ M.alias[b] = a
            /\ M.etw[a].address # NoAddr
        BY <1>1, <2>0, <3>1, <3>5, Settled
      <4>2. a # 0
        BY <1>1, <4>1, Numbers
      <4>3. N.byAddr[obj[o].addr] = a
        BY Zenon, <1>6
      <4> HIDE DEF a
      <4>4. N.etw[a].obj = o
        <5>1. CASE a = k
          BY Zenon, <1>2, <1>6, <4>1, <5>1
        <5>2. CASE a # k
          BY Zenon, <1>3, <1>6, <4>1, <5>2
        <5>3. QED
          BY <5>1, <5>2
      <4>5. QED
        BY <3>2, <4>1, <4>2, <4>3, <4>4
    <3>6. QED
      BY <3>3, <3>4, <3>5 DEF Handled
  <2>3. QED
    BY <2>1, <2>2
<1>9. ASSUME NEW o \in Ids, Begun(o), obj[o].freed = 0, Silent(Q2, o)
      PROVE  N.etw[N.byAddr[obj[o].addr]].group = obj[o].group
  <2>1. CASE o = h.id
    <3>1. h.group = obj[o].group
      BY <1>9, <2>1, LastGroup
    <3>2. QED
      BY Zenon, <1>6, <2>1, <3>1
  <2>2. CASE o # h.id
    <3>1. Silent(Q, o)
      BY <1>9, <2>2 DEF Silent
    <3> DEFINE a == M.byAddr[obj[o].addr]
    <3>2. a \in Libs /\ M.etw[a].obj = o /\ M.etw[a].address # NoAddr
      BY <1>1, <1>9, <3>1, SilentSettled
    <3>3. M.etw[a].group = obj[o].group
      BY <1>1, <1>9, <3>1 DEF Progress
    <3>4. N.byAddr[obj[o].addr] = a
      BY ZenonT(60), <1>6
    <3> HIDE DEF a
    <3>5. a # k
      BY <1>2, <2>2, <3>2
    <3>6. N.etw[a] = M.etw[a]
      BY Zenon, <1>3, <1>6, <3>2, <3>5
    <3>7. QED
      BY <3>3, <3>4, <3>6
  <2>3. QED
    BY <2>1, <2>2
<1>10. QED
  BY <1>7, <1>8, <1>9 DEF ChainOf, Progress

\* What is known of an object whose end comes first.
LEMMA EndFacts ==
  ASSUME NEW Q, NEW h, NEW M, Ready(Q, h, M), h.op \in {"group", "destroy"},
         NEW k, k = M.alias[h.lib]
  PROVE  /\ k = M.byAddr[obj[h.id].addr] /\ k # 0 /\ k \in Libs /\ KnownIn(M, k)
         /\ M.etw[k].obj = h.id /\ M.etw[k] \in EtwRecords
         /\ h.op = "destroy" => \A b \in obj[h.id].libs : M.alias[b] = k
<1>1. /\ Q \subseteq Pending /\ Queue(Q) /\ Lifetimes /\ h.id \in Ids /\ h.lib \in obj[h.id].libs
      /\ Tracked(Q, h.id) /\ TypesOK /\ Game /\ Ordered(Q, h) /\ Agree(M) /\ Progress(Q, M)
      /\ M \in Models
  BY HeadFacts DEF Ready, ChainOf
<1>2. ~Waits(Q, "address", h.lib)
  BY <1>1, FirstOfItsLib
<1>3. /\ k = M.byAddr[obj[h.id].addr] /\ k \in Libs /\ KnownIn(M, k) /\ M.etw[k].obj = h.id
  BY SMTT(30), <1>1, <1>2, Settled
<1>4. k # 0 /\ M.etw[k] \in EtwRecords
  BY SMTT(30), <1>1, <1>3, Numbers, Fields
<1>5. ASSUME h.op = "destroy", NEW b \in obj[h.id].libs
      PROVE  M.alias[b] = k
  <2>1. ~Waits(Q, "address", b)
    BY <1>1, <1>5, FirstOfItsLib
  <2>2. QED
    BY <1>1, <1>3, <2>1, Settled
<1>6. QED
  BY Zenon, <1>3, <1>4, <1>5

\* The end of an object: its ETW object and its library ids go with it.
LEMMA DestroyChain ==
  ASSUME NEW Q, NEW h, NEW M, Ready(Q, h, M), h.op = "destroy",
         NEW k, k = M.alias[h.lib], NEW R, Agree(R), Forgets(M, R, k)
  PROVE  ChainOf(Q \ {h}, R)
<1> DEFINE j == h.id
           Q2 == Q \ {h}
<1>1. /\ h \in Q /\ Q \subseteq Pending /\ Queue(Q) /\ Lifetimes
      /\ h.id \in Ids /\ Tracked(Q, h.id)
      /\ M \in Models /\ Aliases(M) /\ TypesOK /\ Game /\ Ordered(Q, h) /\ Agree(M)
      /\ Entries(Q, M) /\ Progress(Q, M)
  BY HeadFacts DEF Ready, ChainOf
<1>2. /\ k \in Libs /\ KnownIn(M, k) /\ M.etw[k].obj = j /\ M.etw[k] \in EtwRecords
      /\ k # 0 /\ \A b \in obj[j].libs : M.alias[b] = k
  BY EndFacts
<1>3. M.etw[k].aliases \union {k} \subseteq obj[j].libs
  BY <1>1, <1>2 DEF Entries, EntryOk
<1>4. /\ ~KnownIn(R, k)
      /\ \A b \in Libs : b # k => R.etw[b] = M.etw[b]
  <2>1. M.etw \in [Libs -> {NoObj} \union EtwRecords] /\ R.etw = [M.etw EXCEPT ![k] = NoObj]
    BY <1>1, Fields DEF Forgets
  <2>2. QED
    BY <1>2, <2>1 DEF KnownIn
<1>5. /\ \A a \in Libs : a \notin M.etw[k].aliases \union {k} => R.alias[a] = M.alias[a]
      /\ \A p \in plan.addrs : M.byAddr[p] # k => R.byAddr[p] = M.byAddr[p]
  BY DEF Forgets
<1>6. ~Tracked(Q2, j) /\ \A o \in Ids : o # j => (Tracked(Q, o) <=> Tracked(Q2, o))
  BY <1>1, TrackedRest
<1>7. ASSUME NEW o \in Ids, o # j, NEW b \in obj[o].libs
      PROVE  R.alias[b] = M.alias[b] /\ b # k /\ b \in Libs
  <2>1. b \notin obj[j].libs /\ b \in Libs
    BY <1>1, <1>7, OwnLibs, ObjectFacts
  <2>2. QED
    BY <1>3, <1>5, <2>1
<1>8. ASSUME NEW o \in Ids, o # j, Begun(o), NEW a \in Libs,
             a = M.byAddr[obj[o].addr], M.etw[a].obj = o
      PROVE  R.byAddr[obj[o].addr] = a /\ R.etw[a] = M.etw[a]
  <2>1. a # k /\ obj[o].addr \in plan.addrs
    BY <1>1, <1>2, <1>8 DEF Game
  <2>2. QED
    BY <1>4, <1>5, <1>8, <2>1
<1> HIDE DEF Q2, j
<1>9. Entries(Q2, R)
  <2> SUFFICES ASSUME NEW b \in Libs, KnownIn(R, b)
               PROVE  EntryOk(Q2, R, b)
    BY DEF Entries
  <2>1. b # k /\ R.etw[b] = M.etw[b] /\ KnownIn(M, b)
    BY <1>4 DEF KnownIn
  <2>2. EntryOk(Q, M, b) /\ M.etw[b] \in EtwRecords
    BY <1>1, <2>1, Fields DEF Entries
  <2>3. M.etw[b].obj \in Ids /\ b \in obj[M.etw[b].obj].libs /\ M.alias[b] = b
    BY <1>1, <2>1, <2>2 DEF EntryOk, EtwRecords, Aliases
  <2>4. M.etw[b].obj # j
    BY <1>2, <2>1, <2>3
  <2>5. Tracked(Q2, M.etw[b].obj)
    BY <1>6, <2>2, <2>3, <2>4 DEF EntryOk
  <2>6. Q2 \subseteq Q
    BY DEF Q2
  <2>7. QED
    BY <2>1, <2>2, <2>5, <2>6 DEF EntryOk
<1>10. ASSUME NEW o \in Ids, Tracked(Q2, o), NEW b \in obj[o].libs
       PROVE  Handled(Q2, R, o, b)
  <2>1. o # j /\ Tracked(Q, o) /\ Handled(Q, M, o, b) /\ Begun(o)
    BY <1>1, <1>6, <1>10 DEF Progress, Tracked
  <2>2. R.alias[b] = M.alias[b] /\ b # k /\ b \in Libs
    BY <1>7, <2>1
  <2>3. \A op \in {"create", "address"} : Waits(Q2, op, b) <=> Waits(Q, op, b)
    BY <1>1, WaitsRest DEF Q2
  <2>4. \A r \in Q2 : r \in Q
    BY DEF Q2
  <2>5. ASSUME ~Waits(Q2, "address", b)
        PROVE  /\ R.byAddr[obj[o].addr] # 0
               /\ R.alias[b] = R.byAddr[obj[o].addr]
               /\ R.etw[R.byAddr[obj[o].addr]].obj = o
    <3> DEFINE a == M.byAddr[obj[o].addr]
    <3>1. a \in Libs /\ M.etw[a].obj = o /\ M.alias[b] = a
      BY <1>1, <2>1, <2>3, <2>5, Settled
    <3>2. a # 0 /\ R.byAddr[obj[o].addr] = a /\ R.etw[a] = M.etw[a]
      BY <1>1, <1>8, <2>1, <3>1, Numbers
    <3> HIDE DEF a
    <3>3. QED
      BY <2>2, <3>1, <3>2
  <2>6. R.etw[b] = M.etw[b] /\ (KnownIn(R, b) <=> KnownIn(M, b))
    BY <1>4, <2>2 DEF KnownIn
  <2>7. QED
    BY <2>1, <2>2, <2>3, <2>4, <2>5, <2>6 DEF Handled
<1>11. ASSUME NEW o \in Ids, Begun(o), obj[o].freed = 0, Silent(Q2, o)
       PROVE  R.etw[R.byAddr[obj[o].addr]].group = obj[o].group
  <2>1. o # j
    BY <1>6, <1>11 DEF Tracked
  <2>2. Silent(Q, o)
    BY <1>11, <2>1 DEF Silent, Q2, j
  <2> DEFINE a == M.byAddr[obj[o].addr]
  <2>3. a \in Libs /\ M.etw[a].obj = o
    BY <1>1, <1>11, <2>2, SilentSettled
  <2>4. M.etw[a].group = obj[o].group
    BY <1>1, <1>11, <2>2 DEF Progress
  <2>5. R.byAddr[obj[o].addr] = a /\ R.etw[a] = M.etw[a]
    BY <1>8, <1>11, <2>1, <2>3
  <2> HIDE DEF a
  <2>6. QED
    BY <2>4, <2>5
<1>12. QED
  BY <1>9, <1>10, <1>11 DEF ChainOf, Progress, Q2

-----------------------------------------------------------------------------
(* Trying to bind: what it keeps.                                          *)

\* The Model says the same of who is where, and since when.
SamePlaces(M, R) == R.ptr = M.ptr /\ R.dead = M.dead /\ SameLive(M, R)

Orphaned(M, k) == [M EXCEPT !.etw[k] = [M.etw[k] EXCEPT !.orphan = TRUE]]

LEMMA OrphanedFacts ==
  ASSUME TypesOK, NEW M \in Models, NEW k \in Libs, KnownIn(M, k),
         NEW R, R = Orphaned(M, k)
  PROVE  /\ SameIndexes(M, R) /\ R.live = M.live
         /\ \A a \in Libs :
              /\ KnownIn(R, a) <=> KnownIn(M, a)
              /\ KnownIn(M, a) => /\ SameFacts(M.etw[a], R.etw[a])
                                  /\ R.etw[a].bound = M.etw[a].bound
              /\ a # k => R.etw[a] = M.etw[a]
<1> DEFINE e == M.etw[k]
           f == [e EXCEPT !.orphan = TRUE]
<1>1. M.etw \in [Libs -> {NoObj} \union EtwRecords] /\ e \in EtwRecords
  BY Fields
<1>2. f \in EtwRecords /\ SameFacts(e, f) /\ f.bound = e.bound
  BY <1>1 DEF EtwRecords, SameFacts
<1>3. f # NoObj /\ e # NoObj
  BY <1>1, <1>2, NoRecords
<1> HIDE DEF f
<1>4. R = [M EXCEPT !.etw[k] = f]
  BY DEF f, Orphaned
<1>5. SameIndexes(M, R) /\ R.live = M.live /\ R.etw = [M.etw EXCEPT ![k] = f]
  BY <1>4 DEF Models, SameIndexes
<1>6. R.etw[k] = f /\ \A a \in Libs : a # k => R.etw[a] = M.etw[a]
  BY <1>1, <1>5
<1>7. ASSUME NEW a \in Libs
      PROVE  /\ KnownIn(R, a) <=> KnownIn(M, a)
             /\ KnownIn(M, a) => /\ SameFacts(M.etw[a], R.etw[a])
                                 /\ R.etw[a].bound = M.etw[a].bound
  <2>1. CASE a = k
    BY <1>2, <1>3, <1>6, <2>1 DEF KnownIn
  <2>2. CASE a # k
    BY <1>6, <2>2 DEF KnownIn, SameFacts
  <2>3. QED
    BY <2>1, <2>2
<1>8. QED
  BY <1>5, <1>6, <1>7

LEMMA RebindsFacts ==
  ASSUME NEW M, NEW R, NEW k, NEW i, Rebinds(M, R, k, i)
  PROVE  SameEntries(M, R) /\ SamePlaces(M, R)
BY DEF Rebinds, SameEntries, SamePlaces, SameIndexes

LEMMA SameRefl == \A M : SameEntries(M, M) /\ SamePlaces(M, M)
BY DEF SameEntries, SamePlaces, SameLive, SameFacts

LEMMA TriedFacts ==
  ASSUME TypesOK, NEW M, Agree(M), NEW k \in Libs, KnownIn(M, k), NEW R, Tried(M, R, k)
  PROVE  SameEntries(M, R) /\ SamePlaces(M, R)
<1> DEFINE i == IF M.etw[k].address = NoAddr THEN 0 ELSE M.ptr[M.etw[k].address]
<1>1. \/ Rebinds(M, R, k, i)
      \/ R = M
      \/ R = Orphaned(M, k)
  BY Zenon DEF Tried, Orphaned
<1> HIDE DEF i
<1>2. CASE Rebinds(M, R, k, i)
  BY <1>2, RebindsFacts
<1>3. CASE R = M
  BY <1>3, SameRefl
<1>4. CASE R = Orphaned(M, k)
  <2>1. M \in Models
    BY DEF Agree
  <2>2. /\ SameIndexes(M, R) /\ R.live = M.live
        /\ \A a \in Libs : /\ KnownIn(R, a) <=> KnownIn(M, a)
                           /\ KnownIn(M, a) => SameFacts(M.etw[a], R.etw[a])
    BY <1>4, <2>1, OrphanedFacts
  <2>3. QED
    BY <2>2 DEF SameEntries, SamePlaces, SameIndexes, SameLive, In
<1>5. QED
  BY <1>1, <1>2, <1>3, <1>4

-----------------------------------------------------------------------------
(* An object has the location of its ETW object.                           *)

LEMMA RebindsOwned ==
  ASSUME NEW M, Agree(M), Owned(M), NEW k \in Libs, KnownIn(M, k), TypesOK,
         NEW i \in Ids, NEW R, Rebinds(M, R, k, i)
  PROVE  Owned(R)
<1> SUFFICES ASSUME NEW j \in Ids, In(R, j), R.live[j].key # 0
             PROVE  R.live[j].own = R.etw[R.live[j].key].group
  BY DEF Owned
<1>1. /\ In(M, j)
      /\ R.live[j].own = IF j = i THEN M.etw[k].group ELSE M.live[j].own
      /\ R.live[j].key = IF j = i THEN k ELSE M.live[j].key
  BY DEF Rebinds, SameLive, Owns
<1>2. \A a \in Libs : KnownIn(M, a) => R.etw[a].group = M.etw[a].group
  BY DEF Rebinds, SameFacts
<1>3. CASE j = i
  BY <1>1, <1>2, <1>3
<1>4. CASE j # i
  <2>1. M.live[j] \in LiveRecords
    BY <1>1, Fields DEF Agree
  <2>2. M.live[j].key \in Libs
    BY <1>1, <1>4, <2>1 DEF LiveRecords
  <2>3. KnownIn(M, M.live[j].key)
    BY <1>1, <1>4 DEF Agree, Bindings
  <2>4. QED
    BY <1>1, <1>2, <1>4, <2>2, <2>3 DEF Owned
<1>5. QED
  BY <1>3, <1>4

LEMMA RegroupsOwned ==
  ASSUME NEW M, Agree(M), Owned(M), NEW k \in Libs, KnownIn(M, k), TypesOK,
         NEW g \in Locs, NEW R, Regroups(M, R, k, g), R.etw = [M.etw EXCEPT ![k].group = g]
  PROVE  Owned(R)
<1> SUFFICES ASSUME NEW j \in Ids, In(R, j), R.live[j].key # 0
             PROVE  R.live[j].own = R.etw[R.live[j].key].group
  BY DEF Owned
<1> DEFINE i == M.etw[k].bound
           a == M.live[j].key
<1>1. /\ In(M, j)
      /\ R.live[j].own = IF j = i THEN g ELSE M.live[j].own
      /\ R.live[j].key = a
  BY DEF Regroups, SameLive, Owns
<1>2. M.live[j] \in LiveRecords /\ M.etw \in [Libs -> {NoObj} \union EtwRecords]
      /\ M.etw[k] \in EtwRecords
  BY <1>1, Fields DEF Agree
<1>3. a \in Libs /\ KnownIn(M, a) /\ M.etw[a].bound = j
  <2>1. a \in Libs
    BY <1>1, <1>2 DEF LiveRecords
  <2>2. QED
    BY <1>1, <2>1 DEF Agree, Bindings
<1>4. R.etw[k].group = g /\ \A b \in Libs : b # k => R.etw[b] = M.etw[b]
  <2>1. [M.etw[k] EXCEPT !.group = g].group = g
    BY <1>2 DEF EtwRecords
  <2>2. QED
    BY <1>2, <2>1
<1>5. CASE a = k
  BY <1>1, <1>3, <1>4, <1>5
<1>6. CASE a # k
  <2>1. j # i
    <3>1. SUFFICES ASSUME j = i PROVE FALSE
      OBVIOUS
    <3>2. i # 0
      BY <3>1, Numbers
    <3>3. M.live[i].key = k
      BY <3>2 DEF Agree, Bindings
    <3>4. QED
      BY <1>6, <3>1, <3>3
  <2>2. M.live[j].own = M.etw[a].group
    BY <1>1 DEF Owned
  <2>3. QED
    BY <1>1, <1>3, <1>4, <1>6, <2>1, <2>2
<1>7. QED
  BY <1>5, <1>6

\* Nothing but what is bound to nothing goes, and no group changes.
LEMMA SameGroupsOwned ==
  ASSUME NEW M, Agree(M), Owned(M), TypesOK, NEW R,
         \A j \in Ids : In(R, j) /\ R.live[j].key # 0 =>
           In(M, j) /\ R.live[j].key = M.live[j].key /\ R.live[j].own = M.live[j].own,
         \A j \in Ids, a \in Libs : In(M, j) /\ M.live[j].key = a /\ R.live[j].key = a =>
           R.etw[a].group = M.etw[a].group
  PROVE  Owned(R)
<1> SUFFICES ASSUME NEW j \in Ids, In(R, j), R.live[j].key # 0
             PROVE  R.live[j].own = R.etw[R.live[j].key].group
  BY DEF Owned
<1>1. In(M, j) /\ R.live[j].key = M.live[j].key /\ R.live[j].own = M.live[j].own
  OBVIOUS
<1>2. M.live[j] \in LiveRecords
  BY <1>1, Fields DEF Agree
<1>3. M.live[j].key \in Libs
  BY <1>1, <1>2 DEF LiveRecords
<1>4. QED
  BY <1>1, <1>3 DEF Owned

LEMMA TriedOwned ==
  ASSUME TypesOK, NEW M, Agree(M), Owned(M), NEW k \in Libs, KnownIn(M, k), NEW R,
         Tried(M, R, k)
  PROVE  Owned(R)
<1> DEFINE i == IF M.etw[k].address = NoAddr THEN 0 ELSE M.ptr[M.etw[k].address]
<1>1. \/ i # 0 /\ Rebinds(M, R, k, i)
      \/ R = M
      \/ R = Orphaned(M, k)
  BY Zenon DEF Tried, Orphaned
<1>2. i # 0 => i \in Ids
  <2>1. M.ptr \in [plan.addrs -> {0} \union Ids] /\ M.etw[k] \in EtwRecords
    BY Fields DEF Agree
  <2>2. M.etw[k].address # NoAddr => M.etw[k].address \in plan.addrs
    BY <2>1 DEF EtwRecords
  <2>3. QED
    BY <2>1, <2>2
<1> HIDE DEF i
<1>3. CASE i # 0 /\ Rebinds(M, R, k, i)
  BY <1>2, <1>3, RebindsOwned
<1>4. CASE R = M
  BY <1>4
<1>5. CASE R = Orphaned(M, k)
  <2>1. M \in Models
    BY DEF Agree
  <2>2. /\ R.live = M.live
        /\ \A a \in Libs : KnownIn(M, a) => SameFacts(M.etw[a], R.etw[a])
        /\ \A a \in Libs : a # k => R.etw[a] = M.etw[a]
    BY <1>5, <2>1, OrphanedFacts
  <2>3. \A a \in Libs : R.etw[a].group = M.etw[a].group
    BY <2>2 DEF SameFacts
  <2>4. QED
    BY <2>2, <2>3, SameGroupsOwned DEF In
<1>6. QED
  BY <1>1, <1>3, <1>4, <1>5

\* The ETW object that takes an address, before it is tried there.
Placing(M, N, k, p) ==
  /\ Agree(N)
  /\ N.live = M.live /\ N.ptr = M.ptr /\ N.dead = M.dead /\ N.alias = M.alias
  /\ N.byAddr = [M.byAddr EXCEPT ![p] = k]
  /\ N.etw = [M.etw EXCEPT ![k] = [M.etw[k] EXCEPT !.address = p]]
\* The ETW object that takes another one over, before it is tried again.
Joining(M, N, old, k) == \E M1 :
  LET g == M.etw[k].group
  IN  /\ Agree(M1) /\ Agree(N)
      /\ \/ M1 = M /\ (g = "Unknown" \/ g = M.etw[old].group)
         \/ /\ g # "Unknown"
            /\ Regroups(M, M1, old, g) /\ M1.etw = [M.etw EXCEPT ![old].group = g]
      /\ N.live = M1.live /\ N.ptr = M1.ptr /\ N.dead = M1.dead /\ N.byAddr = M1.byAddr
      /\ N.alias = [M1.alias EXCEPT ![k] = old]
      /\ N.etw = [M1.etw EXCEPT ![k] = NoObj,
                   ![old] = [M1.etw[old] EXCEPT !.aliases = @ \union {k}, !.obj = M.etw[k].obj]]

LEMMA TakesPlacing ==
  \A M, R, k, p : Takes(M, R, k, p) => \E N : Placing(M, N, k, p) /\ Tried(N, R, k)
BY DEF Takes, Placing

LEMMA MergesJoining ==
  ASSUME NEW M, NEW R, NEW old, NEW k, Merges(M, R, old, k)
  PROVE  \E N : Joining(M, N, old, k) /\ Tried(N, R, old)
<1> DEFINE g == M.etw[k].group
           Was(M1) == \/ M1 = M /\ (g = "Unknown" \/ g = M.etw[old].group)
                      \/ /\ g # "Unknown"
                         /\ Regroups(M, M1, old, g) /\ M1.etw = [M.etw EXCEPT ![old].group = g]
           Got(M1, N) ==
             /\ N.live = M1.live /\ N.ptr = M1.ptr /\ N.dead = M1.dead /\ N.byAddr = M1.byAddr
             /\ N.alias = [M1.alias EXCEPT ![k] = old]
             /\ N.etw = [M1.etw EXCEPT ![k] = NoObj,
                   ![old] = [M1.etw[old] EXCEPT !.aliases = @ \union {k}, !.obj = M.etw[k].obj]]
<1>1. \E M1, N : Agree(M1) /\ Agree(N) /\ Tried(N, R, old) /\ Was(M1) /\ Got(M1, N)
  BY Zenon DEF Merges
<1>2. ASSUME NEW M1, NEW N, Agree(M1), Agree(N), Was(M1), Got(M1, N)
      PROVE  Joining(M, N, old, k)
  <2>1. \E M2 : Agree(M2) /\ Agree(N) /\ Was(M2) /\ Got(M2, N)
    <3> HIDE DEF Was, Got
    <3>1. QED
      BY <1>2
  <2>2. QED
    BY Zenon, <2>1 DEF Joining
<1> HIDE DEF Was, Got
<1>3. QED
  BY <1>1, <1>2

LEMMA PlacingFacts ==
  ASSUME TypesOK, NEW M, Agree(M), NEW k \in Libs, KnownIn(M, k), M.etw[k].address = NoAddr,
         NEW p \in plan.addrs, NEW N, Placing(M, N, k, p)
  PROVE  /\ SamePlaces(M, N) /\ N.alias = M.alias /\ N.byAddr[p] = k
         /\ \A q \in plan.addrs : q # p => N.byAddr[q] = M.byAddr[q]
         /\ \A a \in Libs : (KnownIn(N, a) <=> KnownIn(M, a)) /\ (a # k => N.etw[a] = M.etw[a])
         /\ N.etw[k].address = p /\ N.etw[k].bound = 0
         /\ N.etw[k].orphan = M.etw[k].orphan /\ N.etw[k].created = M.etw[k].created
         /\ N.etw[k].group = M.etw[k].group /\ N.etw[k].obj = M.etw[k].obj
         /\ N.etw[k].type = M.etw[k].type
<1> DEFINE e == M.etw[k]
           f == [e EXCEPT !.address = p]
<1>1. M.etw \in [Libs -> {NoObj} \union EtwRecords] /\ e \in EtwRecords
      /\ M.byAddr \in [plan.addrs -> {0} \union Libs]
  BY Fields DEF Agree
<1>2. e.bound = 0
  BY DEF Agree, Indexes, Aliases
<1>3. /\ f \in EtwRecords /\ f.address = p /\ f.bound = 0 /\ f.orphan = e.orphan
      /\ f.created = e.created /\ f.group = e.group /\ f.obj = e.obj /\ f.type = e.type
  BY <1>1, <1>2 DEF EtwRecords
<1>4. f # NoObj /\ e # NoObj
  BY <1>1, <1>3, NoRecords
<1>5. N.etw = [M.etw EXCEPT ![k] = f] /\ N.byAddr = [M.byAddr EXCEPT ![p] = k]
      /\ N.live = M.live /\ N.ptr = M.ptr /\ N.dead = M.dead /\ N.alias = M.alias
  BY DEF Placing
<1> HIDE DEF f, e
<1>6. N.etw[k] = f /\ \A a \in Libs : a # k => N.etw[a] = M.etw[a]
  BY <1>1, <1>5
<1>7. N.byAddr[p] = k /\ \A q \in plan.addrs : q # p => N.byAddr[q] = M.byAddr[q]
  BY <1>1, <1>5
<1>8. \A a \in Libs : KnownIn(N, a) <=> KnownIn(M, a)
  BY <1>4, <1>6 DEF KnownIn, e
<1>9. SamePlaces(M, N)
  BY <1>5 DEF SamePlaces, SameLive, In
<1>10. QED
  BY <1>3, <1>5, <1>6, <1>7, <1>8, <1>9 DEF e

LEMMA JoiningFacts ==
  ASSUME TypesOK, NEW M, Agree(M), NEW k \in Libs, KnownIn(M, k), M.etw[k].address = NoAddr,
         NEW old \in Libs, KnownIn(M, old), old # k, NEW N, Joining(M, N, old, k),
         NEW g, g = M.etw[k].group
  PROVE      /\ SamePlaces(M, N) /\ N.byAddr = M.byAddr
             /\ N.alias[k] = old /\ \A a \in Libs : a # k => N.alias[a] = M.alias[a]
             /\ ~KnownIn(N, k) /\ KnownIn(N, old)
             /\ \A a \in Libs : a # k /\ a # old => N.etw[a] = M.etw[a]
             /\ N.etw[old].group = (IF g = "Unknown" THEN M.etw[old].group ELSE g)
             /\ N.etw[old].type = M.etw[old].type /\ N.etw[old].address = M.etw[old].address
             /\ N.etw[old].created = M.etw[old].created /\ N.etw[old].obj = M.etw[k].obj
             /\ N.etw[old].aliases = M.etw[old].aliases \union {k}
             /\ N.etw[old].bound = M.etw[old].bound /\ N.etw[old].orphan = M.etw[old].orphan
             /\ Owned(M) => Owned(N)
<1> DEFINE i == M.etw[k].obj
<1>1. PICK M1 :
        /\ Agree(M1) /\ Agree(N)
        /\ \/ M1 = M /\ (g = "Unknown" \/ g = M.etw[old].group)
           \/ /\ g # "Unknown"
              /\ Regroups(M, M1, old, g) /\ M1.etw = [M.etw EXCEPT ![old].group = g]
        /\ N.live = M1.live /\ N.ptr = M1.ptr /\ N.dead = M1.dead /\ N.byAddr = M1.byAddr
        /\ N.alias = [M1.alias EXCEPT ![k] = old]
        /\ N.etw = [M1.etw EXCEPT ![k] = NoObj,
                     ![old] = [M1.etw[old] EXCEPT !.aliases = @ \union {k}, !.obj = i]]
  BY Zenon DEF Joining
<1>2. /\ M.etw \in [Libs -> {NoObj} \union EtwRecords]
      /\ M1.etw \in [Libs -> {NoObj} \union EtwRecords]
      /\ M1.alias \in [Libs -> {0} \union Libs]
      /\ M.etw[k] \in EtwRecords /\ M.etw[old] \in EtwRecords
  BY <1>1, Fields DEF Agree
<1>3. g \in Locs /\ i \in Ids
  BY <1>2 DEF EtwRecords
<1> HIDE DEF i
<1>4. /\ SamePlaces(M, M1) /\ M1.byAddr = M.byAddr /\ M1.alias = M.alias
      /\ \A j \in Ids : In(M, j) => M1.live[j].key = M.live[j].key
  <2>1. CASE M1 = M
    BY <2>1, SameRefl
  <2>2. CASE Regroups(M, M1, old, g)
    BY <2>2 DEF Regroups, SameIndexes, SamePlaces
  <2>3. QED
    BY <1>1, <2>1, <2>2
<1> DEFINE f == M1.etw[old]
           e == M.etw[old]
<1>5. /\ f.group = (IF g = "Unknown" THEN e.group ELSE g)
      /\ f.type = e.type /\ f.address = e.address /\ f.created = e.created
      /\ f.aliases = e.aliases /\ f.bound = e.bound /\ f.orphan = e.orphan
      /\ f \in EtwRecords
      /\ \A a \in Libs : a # old => M1.etw[a] = M.etw[a]
  <2>1. CASE M1 = M /\ (g = "Unknown" \/ g = e.group)
    BY <1>2, <2>1
  <2>2. CASE g # "Unknown" /\ M1.etw = [M.etw EXCEPT ![old].group = g]
    <3>1. f = [e EXCEPT !.group = g]
      BY <1>2, <2>2
    <3>2. \A a \in Libs : a # old => M1.etw[a] = M.etw[a]
      BY <1>2, <2>2
    <3> HIDE DEF f
    <3>3. /\ f.group = g
          /\ f.type = e.type /\ f.address = e.address /\ f.created = e.created
          /\ f.aliases = e.aliases /\ f.bound = e.bound /\ f.orphan = e.orphan
          /\ f \in EtwRecords
      BY <1>2, <1>3, <3>1 DEF EtwRecords
    <3>4. QED
      BY <2>2, <3>2, <3>3
  <2>3. QED
    BY <1>1, <2>1, <2>2
<1> HIDE DEF f, e
<1> DEFINE d == [f EXCEPT !.aliases = @ \union {k}, !.obj = i]
<1>6. /\ d.aliases = f.aliases \union {k} /\ d.obj = i
      /\ d.group = f.group /\ d.type = f.type /\ d.address = f.address
      /\ d.created = f.created /\ d.bound = f.bound /\ d.orphan = f.orphan
      /\ d \in EtwRecords
  BY <1>3, <1>5 DEF EtwRecords
<1>7. d # NoObj
  BY <1>6, NoRecords
<1>8. N.etw = [M1.etw EXCEPT ![k] = NoObj, ![old] = d] /\ N.alias = [M1.alias EXCEPT ![k] = old]
  BY <1>1 DEF f
<1> HIDE DEF d
<1>9. /\ N.etw[k] = NoObj /\ N.etw[old] = d
      /\ \A a \in Libs : a # k /\ a # old => N.etw[a] = M1.etw[a]
      /\ N.alias[k] = old /\ \A a \in Libs : a # k => N.alias[a] = M1.alias[a]
  BY <1>2, <1>8
<1>10. \A a \in Libs : a # k /\ a # old => N.etw[a] = M.etw[a]
  BY <1>5, <1>9
<1>11. ~KnownIn(N, k) /\ KnownIn(N, old)
  BY <1>7, <1>9 DEF KnownIn
<1>12. SamePlaces(M, N)
  BY <1>1, <1>4 DEF SamePlaces, SameLive, In
<1>13. ASSUME Owned(M) PROVE Owned(N)
  <2>1. Owned(M1)
    <3>1. CASE M1 = M
      BY <1>13, <3>1
    <3>2. CASE Regroups(M, M1, old, g) /\ M1.etw = [M.etw EXCEPT ![old].group = g]
      BY <1>3, <1>13, <3>2, RegroupsOwned
    <3>3. QED
      BY <1>1, <3>1, <3>2
  <2>2. \A j \in Ids : In(M1, j) => M1.live[j].key # k
    <3> SUFFICES ASSUME NEW j \in Ids, In(M1, j), M1.live[j].key = k PROVE FALSE
      OBVIOUS
    <3>1. M1.etw[k] = M.etw[k] /\ M.etw[k].bound = 0
      BY <1>5 DEF Agree, Indexes, Aliases
    <3>2. k # 0
      BY SMTT(30), Numbers
    <3>3. M1.etw[k].bound = j
      BY <1>1, <3>2 DEF Agree, Bindings
    <3>4. QED
      BY <3>1, <3>3, Numbers
  <2>3. \A j \in Ids : In(N, j) <=> In(M1, j)
    BY <1>1 DEF In
  <2>4. \A j \in Ids, a \in Libs : In(M1, j) /\ M1.live[j].key = a => N.etw[a].group = M1.etw[a].group
    BY <1>6, <1>9, <2>2 DEF f
  <2>5. \A j \in Ids : In(N, j) /\ N.live[j].key # 0 =>
          In(M1, j) /\ N.live[j].key = M1.live[j].key /\ N.live[j].own = M1.live[j].own
    BY <1>1, <2>3
  <2>6. \A j \in Ids, a \in Libs : In(M1, j) /\ M1.live[j].key = a /\ N.live[j].key = a =>
          N.etw[a].group = M1.etw[a].group
    BY <2>4
  <2>7. Agree(M1)
    BY <1>1
  <2>8. QED
    BY <2>1, <2>5, <2>6, <2>7, SameGroupsOwned
<1>14. /\ N.etw[old].group = (IF g = "Unknown" THEN e.group ELSE g)
       /\ N.etw[old].type = e.type /\ N.etw[old].address = e.address
       /\ N.etw[old].created = e.created /\ N.etw[old].obj = i
       /\ N.etw[old].aliases = e.aliases \union {k}
       /\ N.etw[old].bound = e.bound /\ N.etw[old].orphan = e.orphan
  BY <1>5, <1>6, <1>9
<1>15. N.byAddr = M.byAddr /\ N.alias[k] = old /\ \A a \in Libs : a # k => N.alias[a] = M.alias[a]
  BY <1>1, <1>4, <1>9
<1>16. QED
  BY <1>10, <1>11, <1>12, <1>13, <1>14, <1>15 DEF e, i

LEMMA PlacingOwned ==
  ASSUME TypesOK, NEW M, Agree(M), Owned(M), NEW k \in Libs, KnownIn(M, k),
         M.etw[k].address = NoAddr, NEW p \in plan.addrs, NEW N, Placing(M, N, k, p)
  PROVE  Owned(N)
<1>1. N.live = M.live
  BY DEF Placing
<1>2. \A a \in Libs : N.etw[a].group = M.etw[a].group
  BY PlacingFacts
<1>3. QED
  BY <1>1, <1>2, SameGroupsOwned DEF In

LEMMA ForgetsOwned ==
  ASSUME TypesOK, NEW M, Agree(M), Owned(M), NEW k \in Libs, NEW R, Forgets(M, R, k)
  PROVE  Owned(R)
<1>1. \A j \in Ids : In(R, j) => In(M, j) /\ R.live[j].own = M.live[j].own
                                 /\ (R.live[j].key # 0 => R.live[j].key = M.live[j].key
                                                          /\ M.live[j].key # k)
  BY DEF Forgets, SameLive
<1>2. \A a \in Libs : a # k => R.etw[a] = M.etw[a]
  <2>1. M.etw \in [Libs -> {NoObj} \union EtwRecords] /\ R.etw = [M.etw EXCEPT ![k] = NoObj]
    BY Fields DEF Agree, Forgets
  <2>2. QED
    BY <2>1
<1>3. \A j \in Ids, a \in Libs : In(M, j) /\ M.live[j].key = a /\ R.live[j].key = a =>
        R.etw[a].group = M.etw[a].group
  <2> SUFFICES ASSUME NEW j \in Ids, In(M, j), M.live[j].key \in Libs,
                      R.live[j].key = M.live[j].key
               PROVE  R.etw[M.live[j].key].group = M.etw[M.live[j].key].group
    OBVIOUS
  <2>1. M.live[j].key # 0
    BY Numbers
  <2>2. M.live[j].key # k
    BY <2>1 DEF Forgets
  <2>3. QED
    BY <1>2, <2>2
<1>4. QED
  BY <1>1, <1>3, SameGroupsOwned

LEMMA DepartsOwned ==
  ASSUME TypesOK, NEW M, Agree(M), Owned(M), NEW i \in Ids, NEW ts, NEW R, Departs(M, R, i, ts)
  PROVE  Owned(R)
<1>1. \A j \in Ids : In(R, j) => In(M, j) /\ R.live[j].own = M.live[j].own
                                 /\ R.live[j].key = M.live[j].key
  BY DEF Departs
<1>2. \A a \in Libs : KnownIn(M, a) => R.etw[a].group = M.etw[a].group
  BY DEF Departs, SameFacts
<1> SUFFICES ASSUME NEW j \in Ids, In(R, j), R.live[j].key # 0
             PROVE  R.live[j].own = R.etw[R.live[j].key].group
  BY DEF Owned
<1>3. In(M, j) /\ M.live[j].key # 0 /\ M.live[j] \in LiveRecords
  BY <1>1, Fields DEF Agree
<1>4. KnownIn(M, M.live[j].key) /\ M.live[j].key \in Libs
  BY <1>3 DEF Agree, Bindings, LiveRecords
<1>5. QED
  BY <1>1, <1>2, <1>3, <1>4 DEF Owned

-----------------------------------------------------------------------------
(* An object that the pipe has told of is found.                           *)

\* What is found stays found, where the ETW object says the same.
LEMMA FoundBySame ==
  ASSUME NEW M, NEW R, NEW a \in Libs, FoundBy(M, a), M.etw[a].obj \in Ids,
         SamePlaces(M, R), SameFacts(M.etw[a], R.etw[a]), R.etw[a].orphan = M.etw[a].orphan,
         R.etw[a].bound = M.etw[a].bound
  PROVE  FoundBy(R, a)
BY DEF FoundBy, SamePlaces, SameLive, SameFacts

\* What was tried at the address of the first record is bound to its object, if that
\* is there, and no other object has lost its own.
LEMMA TriedFound ==
  ASSUME NEW Q, NEW h, Ordered(Q, h), TypesOK, Game, h.op = "address",
         NEW N, Agree(N), ChainOf(Q \ {h}, N), Present(N),
         NEW k \in Libs, KnownIn(N, k), N.byAddr[obj[h.id].addr] = k, N.etw[k].obj = h.id,
         \A a \in Libs : a # k /\ KnownIn(N, a) => FoundBy(N, a),
         \A a \in Libs : KnownIn(N, a) => N.etw[a].created <= h.ts,
         Hooked(h.id) => obj[h.id].phase # "made",
         obj[h.id].phase = "sent" =>
           In(N, h.id) /\ ~N.etw[k].orphan /\ N.etw[k].bound \in {0, h.id},
         NEW R, Tried(N, R, k)
  PROVE  Found(R)
<1> DEFINE j == h.id
           p == obj[j].addr
           i == N.ptr[p]
           Q2 == Q \ {h}
           Able == i # 0 /\ In(N, i) /\ CanBind(N, k, i)
<1>1. /\ h \in Q /\ h \in Pending /\ RecordOk(Q, h) /\ Lifetimes /\ h.ts \in Nat /\ j \in Ids
      /\ Tracked(Q, j) /\ Begun(j)
  BY PendingFacts DEF Ordered, Foremost, Queue, RecordOk, Tracked
<1>2. /\ p \in plan.addrs /\ p # NoAddr /\ Tracked(Q2, j) /\ k # 0 /\ j # 0
      /\ N \in Models /\ N.etw[k].address = p
      /\ N.ptr \in [plan.addrs -> {0} \union Ids]
  <2>1. p \in plan.addrs /\ p # NoAddr /\ k # 0 /\ j # 0
    BY <1>1, Numbers DEF Game
  <2>2. Tracked(Q2, j)
    BY <1>1, TrackedRest
  <2>3. N.etw[k].address = p
    BY <2>1 DEF Agree, Indexes, Addresses
  <2>4. N \in Models
    BY DEF Agree
  <2>5. QED
    BY <2>1, <2>2, <2>3, <2>4, Fields
<1>3. \A a \in Libs : KnownIn(N, a) =>
        /\ EntryOk(Q2, N, a) /\ N.etw[a] \in EtwRecords /\ N.etw[a].obj \in Ids
        /\ N.etw[a].created \in Nat /\ N.alias[a] = a /\ a # 0
  <2> SUFFICES ASSUME NEW a \in Libs, KnownIn(N, a)
               PROVE  /\ EntryOk(Q2, N, a) /\ N.etw[a] \in EtwRecords /\ N.etw[a].obj \in Ids
                      /\ N.etw[a].created \in Nat /\ N.alias[a] = a /\ a # 0
    OBVIOUS
  <2>1. EntryOk(Q2, N, a)
    BY DEF ChainOf, Entries
  <2>2. N.etw[a] \in EtwRecords
    BY <1>2, Fields
  <2>3. N.etw[a].obj \in Ids /\ N.etw[a].created \in Nat
    BY <2>2, Numbers DEF EtwRecords
  <2>4. N.alias[a] = a /\ a # 0
    BY Numbers DEF Agree, Indexes, Aliases
  <2>5. QED
    BY <2>1, <2>2, <2>3, <2>4
<1>4. ASSUME NEW a \in Libs, a # k, KnownIn(N, a), N.etw[a].obj = j
      PROVE  N.etw[a].address = NoAddr
  <2>1. a \in obj[j].libs /\ N.alias[a] = a /\ a # 0
    BY <1>3, <1>4 DEF EntryOk
  <2>2. Handled(Q2, N, j, a)
    BY <1>1, <1>2, <2>1 DEF ChainOf, Progress
  <2>3. ~Waits(Q2, "create", a)
    BY <2>1, <2>2 DEF Handled
  <2>4. Waits(Q2, "address", a)
    BY <1>4, <2>1, <2>2 DEF Handled
  <2>5. QED
    BY <2>2, <2>3, <2>4 DEF Handled
<1>5. ASSUME NEW a \in Libs, a # k, KnownIn(N, a), obj[N.etw[a].obj].phase = "sent",
             N.etw[a].address # NoAddr
      PROVE  i # N.etw[a].obj
  <2> DEFINE o == N.etw[a].obj
  <2>1. o \in Ids /\ o # j /\ Begun(o) /\ o # 0
    BY <1>3, <1>4, <1>5, Numbers DEF Begun
  <2>2. obj[o].made <= N.etw[a].created /\ N.etw[a].created <= h.ts
        /\ N.etw[a].created \in Nat
    BY <1>3, <1>5 DEF EntryOk
  <2>3. SUFFICES ASSUME i = o PROVE FALSE
    OBVIOUS
  <2>4. obj[o].addr = p
    BY <1>2, <2>1, <2>3 DEF Agree, Indexes, Pointers
  <2>5. obj[o].phase = "sent"
    BY <1>5
  <2> HIDE DEF o, i
  <2>6. obj[o].freed = 0
    BY <1>1, <2>1, <2>5 DEF Lifetimes
  <2>7. Apart(j, o) \/ Apart(o, j)
    BY <1>1, <2>1, <2>4 DEF Lifetimes
  <2>8. obj[j].freed # 0 /\ obj[j].freed < obj[o].made
    BY <2>6, <2>7 DEF Apart
  <2>9. h.ts < obj[j].freed
    BY <1>1, <2>8 DEF RecordOk
  <2>10. obj[j].freed \in Nat /\ obj[o].made \in Nat
    BY <1>1, <2>1, ObjectFacts
  <2>11. QED
    BY <1>1, <2>2, <2>8, <2>9, <2>10
<1>6. obj[j].phase = "sent" => i = j /\ (N.etw[k].bound = 0 => Able)
  <2> SUFFICES ASSUME obj[j].phase = "sent"
               PROVE  i = j /\ (N.etw[k].bound = 0 => Able)
    OBVIOUS
  <2>1. In(N, j) /\ ~N.etw[k].orphan /\ N.etw[k].bound \in {0, j}
    OBVIOUS
  <2>2. i = j /\ N.live[j].prev <= obj[j].made + Slack
    BY <1>1, <2>1 DEF Present
  <2>3. N.etw[k].type = TypeOf(j) /\ obj[j].made <= N.etw[k].created
        /\ N.etw[k].created \in Nat
    BY <1>3 DEF EntryOk
  <2>4. obj[j].made \in Nat /\ Slack \in Nat
    BY <1>1, ObjectFacts
  <2>5. N.live[j].prev \in Nat
    <3>1. N.live[j] \in LiveRecords
      BY <1>1, <1>2, <2>1, Fields
    <3>2. QED
      BY <3>1, Numbers DEF LiveRecords
  <2>6. N.etw[k].created + Slack >= N.live[j].prev
    BY <2>2, <2>3, <2>4, <2>5
  <2> HIDE DEF i, j
  <2>7. N.etw[k].bound = 0 => CanBind(N, k, i)
    BY <2>1, <2>2, <2>3, <2>6 DEF CanBind
  <2>8. QED
    BY <1>2, <2>1, <2>2, <2>7
<1>7. /\ Able => Rebinds(N, R, k, i)
      /\ ~Able => R = N \/ (N.etw[k].bound = 0 /\ R = Orphaned(N, k))
  BY <1>2, Zenon DEF Tried, Orphaned
<1>8. Hooked(j) => obj[j].phase # "made"
  OBVIOUS
<1>9. obj[j].phase = "sent" => In(N, j) /\ ~N.etw[k].orphan /\ N.etw[k].bound \in {0, j}
  OBVIOUS
<1> HIDE DEF i, p, j, Q2
<1>10. ASSUME Able PROVE Found(R)
  <2>1. Rebinds(N, R, k, i)
    BY <1>7, <1>10
  <2>2. /\ SameLive(N, R)
        /\ \A a \in Libs :
             /\ KnownIn(R, a) <=> KnownIn(N, a)
             /\ KnownIn(N, a) =>
                  /\ SameFacts(N.etw[a], R.etw[a]) /\ R.etw[a].orphan = N.etw[a].orphan
                  /\ R.etw[a].bound = IF a = k THEN i
                                      ELSE IF a = N.live[i].key THEN 0 ELSE N.etw[a].bound
    BY <2>1 DEF Rebinds
  <2> SUFFICES ASSUME NEW a \in Libs, KnownIn(R, a)
               PROVE  FoundBy(R, a)
    BY DEF Found
  <2>3. /\ KnownIn(N, a) /\ SameFacts(N.etw[a], R.etw[a]) /\ R.etw[a].orphan = N.etw[a].orphan
        /\ N.etw[a].obj \in Ids
    BY <1>3, <2>2
  <2>4. CASE a = k
    <3>1. R.etw[a].obj = j /\ R.etw[a].bound = i /\ (In(R, j) <=> In(N, j))
      BY <1>1, <2>2, <2>3, <2>4 DEF SameFacts, SameLive, j
    <3>2. QED
      BY <1>6, <1>8, <1>9, <2>3, <2>4, <3>1 DEF FoundBy
  <2>5. CASE a # k
    <3> DEFINE o == N.etw[a].obj
    <3>1. FoundBy(N, a) /\ R.etw[a].obj = o /\ (In(R, o) <=> In(N, o))
          /\ R.etw[a].address = N.etw[a].address
      BY <2>2, <2>3, <2>5 DEF SameFacts, SameLive
    <3>2. ASSUME obj[o].phase = "sent", N.etw[a].address # NoAddr
          PROVE  R.etw[a].bound = o
      <4>1. N.etw[a].bound = o
        BY <3>1, <3>2 DEF FoundBy
      <4>2. i # o
        BY <1>5, <2>3, <2>5, <3>2
      <4>3. a # N.live[i].key
        <5>1. SUFFICES ASSUME a = N.live[i].key PROVE FALSE
          OBVIOUS
        <5>2. i \in Ids /\ In(N, i)
          BY <1>2, <1>10 DEF i
        <5>3. a # 0
          BY <1>3, <2>3
        <5>4. N.etw[a].bound = i
          BY <5>1, <5>2, <5>3 DEF Agree, Bindings
        <5>5. QED
          BY <4>1, <4>2, <5>4
      <4>4. QED
        BY <2>2, <2>3, <2>5, <4>1, <4>3
    <3>3. QED
      BY <2>3, <3>1, <3>2 DEF FoundBy
  <2>6. QED
    BY <2>4, <2>5
<1>11. ASSUME ~Able PROVE Found(R)
  <2>1. FoundBy(N, k)
    <3>1. N.etw[k].obj = j
      BY DEF j
    <3>2. obj[j].phase = "sent" => N.etw[k].bound = j
      BY <1>6, <1>9, <1>11
    <3>3. QED
      BY <1>8, <1>9, <3>1, <3>2 DEF FoundBy
  <2>2. Found(N)
    BY <2>1 DEF Found
  <2>3. CASE R = N
    BY <2>2, <2>3
  <2>4. CASE N.etw[k].bound = 0 /\ R = Orphaned(N, k)
    <3>1. /\ R.live = N.live
          /\ \A a \in Libs :
               /\ KnownIn(R, a) <=> KnownIn(N, a)
               /\ KnownIn(N, a) => SameFacts(N.etw[a], R.etw[a])
               /\ a # k => R.etw[a] = N.etw[a]
      BY <1>2, <2>4, OrphanedFacts
    <3>2. obj[j].phase # "sent"
      BY <1>6, <1>11, <2>4
    <3> SUFFICES ASSUME NEW a \in Libs, KnownIn(R, a)
                 PROVE  FoundBy(R, a)
      BY DEF Found
    <3>3. CASE a = k
      <4>1. R.etw[a].obj = j
        BY <3>1, <3>3 DEF SameFacts, j
      <4>2. QED
        BY <1>8, <3>2, <4>1 DEF FoundBy
    <3>4. CASE a # k
      <4>1. FoundBy(N, a) /\ R.etw[a] = N.etw[a]
        BY <3>1, <3>4
      <4>2. QED
        BY <3>1, <4>1 DEF FoundBy, In
    <3>5. QED
      BY <3>3, <3>4
  <2>5. QED
    BY <1>7, <1>11, <2>3, <2>4
<1>12. QED
  BY <1>10, <1>11

-----------------------------------------------------------------------------
(* A step that leaves the game alone.                                      *)

LEMMA GameSame ==
  ASSUME UNCHANGED game
  PROVE  /\ Ids' = Ids /\ Libs' = Libs /\ obj' = obj /\ plan' = plan /\ left' = left
         /\ \A i : (Begun(i)' <=> Begun(i)) /\ TypeOf(i)' = TypeOf(i)
                   /\ (HasMemory(i)' <=> HasMemory(i)) /\ (Hooked(i)' <=> Hooked(i))
         /\ Lifetimes => Lifetimes'
         /\ (Whole' <=> Whole) /\ (Fair' <=> Fair)
<1>1. /\ obj' = obj /\ plan' = plan /\ left' = left /\ behind' = behind /\ exitAt' = exitAt
      /\ nlib' = nlib /\ Ids' = Ids /\ Libs' = Libs
  BY DEF game, Ids, Libs
<1>2. \A i : (Begun(i)' <=> Begun(i)) /\ TypeOf(i)' = TypeOf(i)
             /\ (HasMemory(i)' <=> HasMemory(i)) /\ (Hooked(i)' <=> Hooked(i))
  BY <1>1 DEF Begun, TypeOf, HasMemory, Hooked
<1>3. Lifetimes => Lifetimes'
  <2>1. \A i, j : Apart(i, j)' <=> Apart(i, j)
    BY <1>1 DEF Apart
  <2>2. QED
    BY <1>1, <1>2, <2>1 DEF Lifetimes
<1>4. Whole' <=> Whole
  BY <1>1 DEF Whole, Running
<1>5. Punctual' <=> Punctual
  BY <1>1 DEF Punctual
<1>6. QED
  BY <1>1, <1>2, <1>3, <1>4, <1>5 DEF Fair

LEMMA ModelSame ==
  ASSUME UNCHANGED game, NEW R, m' = R
  PROVE  /\ Owned(R) => Owned(m)'
         /\ Buried(R) => Buried(m)'
         /\ Present(R) => Present(m)'
         /\ Found(R) => Found(m)'
<1>1. /\ Ids' = Ids /\ Libs' = Libs /\ obj' = obj /\ plan' = plan
      /\ \A i : Hooked(i)' <=> Hooked(i)
  BY GameSame
<1>2. \A i : (In(m, i)' <=> In(R, i)) /\ (KnownIn(m, i)' <=> KnownIn(R, i))
  BY DEF In, KnownIn
<1>3. Owned(R) => Owned(m)'
  BY <1>1, <1>2 DEF Owned
<1>4. Buried(R) => Buried(m)'
  BY <1>1 DEF Buried
<1>5. Present(R) => Present(m)'
  BY <1>1, <1>2 DEF Present
<1>6. Found(R) => Found(m)'
  <2>1. \A k : FoundBy(R, k) => FoundBy(m, k)'
    BY <1>1, <1>2 DEF FoundBy
  <2>2. QED
    BY <1>1, <1>2, <2>1 DEF Found
<1>7. QED
  BY <1>3, <1>4, <1>5, <1>6

LEMMA ChainSame ==
  ASSUME UNCHANGED game, NEW R, m' = R, NEW Q, Pending' = Q
  PROVE  /\ Queue(Q) => Queue(Pending)'
         /\ Entries(Q, R) => Entries(Pending, m)'
         /\ Progress(Q, R) => Progress(Pending, m)'
<1>1. /\ Ids' = Ids /\ Libs' = Libs /\ obj' = obj /\ plan' = plan
      /\ \A i : (Begun(i)' <=> Begun(i)) /\ TypeOf(i)' = TypeOf(i)
                /\ (HasMemory(i)' <=> HasMemory(i))
  BY GameSame
<1>2. \A i : Tracked(Pending, i)' <=> Tracked(Q, i)
  BY <1>1 DEF Tracked
<1>3. \A op, l : Waits(Pending, op, l)' <=> Waits(Q, op, l)
  BY DEF Waits
<1>4. \A i : Silent(Pending, i)' <=> Silent(Q, i)
  BY DEF Silent
<1>5. \A i : KnownIn(m, i)' <=> KnownIn(R, i)
  BY DEF KnownIn
<1>6. Queue(Q) => Queue(Pending)'
  <2>1. \A r : Latest(Pending, r)' <=> Latest(Q, r)
    BY DEF Latest
  <2>2. \A r : RecordOk(Q, r) => RecordOk(Pending, r)'
    BY <1>1, <1>2, <2>1 DEF RecordOk, AddressOf
  <2>3. QED
    BY <2>2 DEF Queue, Single
<1>7. Entries(Q, R) => Entries(Pending, m)'
  <2>1. \A k : EntryOk(Q, R, k) => EntryOk(Pending, m, k)'
    BY <1>1, <1>2 DEF EntryOk
  <2>2. QED
    BY <1>1, <1>5, <2>1 DEF Entries
<1>8. Progress(Q, R) => Progress(Pending, m)'
  <2>1. \A o, l : Handled(Q, R, o, l) => Handled(Pending, m, o, l)'
    BY <1>1, <1>3, <1>5 DEF Handled
  <2>2. QED
    BY <1>1, <1>2, <1>4, <2>1 DEF Progress
<1>9. QED
  BY <1>6, <1>7, <1>8

-----------------------------------------------------------------------------
(* The handlers of ETW records.                                            *)

\* The first record is due.
LEMMA RecordReady ==
  ASSUME Inv, Settling, NEW op, Record(op), NEW h, h = Head(etwq)
  PROVE  /\ TypesOK /\ Game /\ Agree(m)
         /\ h \in Pending /\ h.op = op /\ h.id \in Ids /\ h.lib \in Libs /\ Begun(h.id)
         /\ Whole => /\ Ready(Pending, h, m)
                     /\ Pending' = Pending \ {h} /\ Queue(Pending \ {h}) /\ Sorted'
         /\ Fair => /\ Present(m) /\ Found(m)
                    /\ Hooked(h.id) => obj[h.id].phase # "made"
                    /\ obj[h.id].phase = "sent" => In(m, h.id)
<1>1. TypesOK /\ Game /\ Feed /\ Agree(m) /\ etwq # <<>> /\ etwq' = Tail(etwq) /\ h.op = op
  BY DEF Inv, Record
<1>2. h \in Pending
  <2>1. h = etwq[1] /\ 1 \in DOMAIN etwq
    BY <1>1, TailOf DEF TypesOK
  <2>2. QED
    BY <2>1 DEF Pending
<1>3. h.id \in Ids /\ h.lib \in Libs /\ h.ts \in Nat
  BY <1>1, <1>2, PendingFacts
<1>4. Begun(h.id)
  BY FirstRecord
<1>5. ASSUME Whole
      PROVE  /\ Ready(Pending, h, m)
             /\ Pending' = Pending \ {h} /\ Queue(Pending \ {h}) /\ Sorted'
  <2>1. Sorted /\ Queue(Pending) /\ ChainOf(Pending, m) /\ Lifetimes
    BY <1>5 DEF Settling, Chain, ChainOf
  <2>2. Foremost(Pending, h) /\ Pending' = Pending \ {h} /\ Sorted'
    BY <1>1, <2>1, HeadIsForemost
  <2>3. Ordered(Pending, h)
    BY <2>1, <2>2 DEF Ordered
  <2>4. Queue(Pending \ {h})
    BY <1>1, <2>3, QueueRest
  <2>5. QED
    BY <1>1, <2>1, <2>2, <2>3, <2>4 DEF Ready
<1>6. ASSUME Fair
      PROVE  /\ Present(m) /\ Found(m)
             /\ Hooked(h.id) => obj[h.id].phase # "made"
             /\ obj[h.id].phase = "sent" => In(m, h.id)
  <2>1. Told(h.ts) /\ Running /\ Whole
    BY <1>6 DEF Record, Fair, Whole
  <2>2. obj[h.id].made <= h.ts /\ obj[h.id].made \in Nat
    <3>1. RecordOk(Pending, h)
      BY <1>5, <2>1, HeadFacts
    <3>2. QED
      BY <1>1, <1>3, <3>1, ObjectFacts DEF RecordOk
  <2>3. Hooked(h.id) => obj[h.id].phase # "made"
    <3>1. obj[h.id].phase = "made" /\ Hooked(h.id) => obj[h.id].made > h.ts
      BY <1>3, <2>1 DEF Told
    <3>2. QED
      BY <1>3, <2>2, <3>1
  <2>4. obj[h.id].phase = "sent" => In(m, h.id)
    <3> SUFFICES ASSUME obj[h.id].phase = "sent", ~In(m, h.id) PROVE FALSE
      OBVIOUS
    <3>1. PICK n \in DOMAIN pipeq : Creates(n, h.id)
      BY <1>3 DEF Settling, Posted
    <3>2. obj[h.id].made > h.ts
      BY <2>1, <3>1 DEF Told, Creates
    <3>3. QED
      BY <1>3, <2>2, <3>2
  <2>5. QED
    BY <1>6, <2>3, <2>4 DEF Settling
<1>7. QED
  BY <1>1, <1>2, <1>3, <1>4, <1>5, <1>6

\* What a handler makes of the Model.
Handles(R, h) ==
  /\ Owned(R) /\ SamePlaces(m, R)
  /\ Whole => ChainOf(Pending \ {h}, R)
  /\ Fair => Found(R)

LEMMA RecordSettles ==
  ASSUME Inv, Settling, NEW op, Record(op), NEW h, h = Head(etwq),
         UNCHANGED <<game, pipeq>>, NEW R, m' = R, Handles(R, h)
  PROVE  Settling'
<1>1. UNCHANGED game /\ pipeq' = pipeq
  OBVIOUS
<1>2. /\ Ids' = Ids /\ Libs' = Libs /\ obj' = obj /\ plan' = plan /\ left' = left
      /\ Lifetimes' /\ (Whole' <=> Whole) /\ (Fair' <=> Fair)
  BY <1>1, GameSame DEF Settling
<1>3. /\ R.ptr = m.ptr /\ R.dead = m.dead
      /\ \A j \in Ids : (In(R, j) <=> In(m, j)) /\ (In(m, j) => R.live[j].prev = m.live[j].prev)
  BY DEF Handles, SamePlaces, SameLive
<1>4. left'.lost <= plan'.lost
  BY <1>2 DEF Settling
<1>5. Posted'
  <2>1. \A n, i : (Creates(n, i)' <=> Creates(n, i)) /\ (Dies(n, i)' <=> Dies(n, i))
    BY <1>1 DEF Creates, Dies
  <2>2. \A j \in Ids : In(m, j)' <=> In(m, j)
    BY <1>3 DEF In
  <2>3. Posted
    BY DEF Settling
  <2> HIDE DEF Creates, Dies, In
  <2>4. QED
    BY <1>1, <1>2, <2>1, <2>2, <2>3 DEF Posted
<1>6. Buried(m)' /\ Owned(m)'
  <2>1. Buried(R)
    BY <1>3 DEF Settling, Buried
  <2>2. QED
    BY <1>1, <2>1, ModelSame DEF Handles
<1>7. Whole' => Chain'
  <2> SUFFICES ASSUME Whole PROVE Chain'
    BY <1>2
  <2>1. Pending' = Pending \ {h} /\ Queue(Pending \ {h}) /\ Sorted'
    BY RecordReady
  <2>2. Entries(Pending \ {h}, R) /\ Progress(Pending \ {h}, R)
    BY DEF Handles, ChainOf
  <2>3. Queue(Pending)' /\ Entries(Pending, m)' /\ Progress(Pending, m)'
    BY <1>1, <2>1, <2>2, ChainSame
  <2>4. QED
    BY <2>1, <2>3 DEF Chain
<1>8. Fair' => Present(m)' /\ Found(m)'
  <2> SUFFICES ASSUME Fair PROVE Present(m)' /\ Found(m)'
    BY <1>2
  <2>1. Present(R)
    BY <1>3 DEF Settling, Present
  <2>2. QED
    BY <1>1, <2>1, ModelSame DEF Handles
<1>9. QED
  BY <1>2, <1>4, <1>5, <1>6, <1>7, <1>8 DEF Settling

LEMMA NothingDone ==
  ASSUME Settling, NEW h, ~Whole
  PROVE  Handles(m, h)
BY SameRefl DEF Handles, Settling, Fair

LEMMA CreatedSettles ==
  ASSUME Inv, Settling, OnEtwObjectCreated
  PROVE  Settling'
<1> DEFINE h == Head(etwq)
           l == h.lib
           e == NewEntry(h)
           R == IF m.alias[l] # 0 THEN m ELSE WithEntry(m, h)
<1>1. Record("create") /\ m' = R /\ UNCHANGED <<game, pipeq>>
  BY DEF OnEtwObjectCreated, WithEntry, NewEntry
<1>2. /\ TypesOK /\ Game /\ Agree(m)
      /\ h \in Pending /\ h.op = "create" /\ h.id \in Ids /\ l \in Libs /\ Begun(h.id)
      /\ Whole => Ready(Pending, h, m)
      /\ Fair => /\ Present(m) /\ Found(m)
                 /\ Hooked(h.id) => obj[h.id].phase # "made"
                 /\ obj[h.id].phase = "sent" => In(m, h.id)
  BY <1>1, RecordReady
<1>3. m \in Models /\ Aliases(m) /\ Bindings(m) /\ Owned(m)
  BY <1>2 DEF Agree, Indexes, Settling
<1> HIDE DEF h
<1>4. ASSUME m.alias[l] # 0 PROVE Handles(R, h)
  <2>1. ASSUME Whole PROVE FALSE
    <3>1. Ready(Pending, h, m)
      BY <1>2, <2>1
    <3>2. m.alias[l] = 0
      <4> DEFINE K == WithEntry(m, h)
      <4>1. K = WithEntry(m, h) /\ h.op = "create" /\ l = h.lib
        BY <1>2
      <4> HIDE DEF K, l
      <4>2. QED
        BY <3>1, <4>1, NewEntryFacts
    <3>3. QED
      BY <1>4, <3>2
  <2>2. QED
    BY <1>4, <2>1, NothingDone
<1>5. ASSUME m.alias[l] = 0 PROVE Handles(R, h)
  <2>1. ~KnownIn(m, l)
    <3>1. KnownIn(m, l) => m.alias[l] = l
      BY <1>2, <1>3 DEF Aliases
    <3>2. QED
      BY <1>2, <1>5, <3>1, Numbers
  <2>2. R = WithEntry(m, h)
    BY <1>5
  <2>3. m.etw \in [Libs -> {NoObj} \union EtwRecords]
    BY <1>2, <1>3, Fields
  <2>4. R.etw = [m.etw EXCEPT ![l] = e] /\ R.live = m.live /\ R.ptr = m.ptr /\ R.dead = m.dead
    BY <1>3, <2>2 DEF WithEntry, Models
  <2> HIDE DEF R, e, l
  <2>5. R.etw[l] = e /\ \A a \in Libs : a # l => R.etw[a] = m.etw[a]
    BY <1>2, <2>3, <2>4
  <2>6. \A j : In(R, j) <=> In(m, j)
    BY <2>4 DEF In
  <2>7. SamePlaces(m, R)
    BY <2>4, <2>6 DEF SamePlaces, SameLive
  <2>8. Owned(R)
    <3>1. \A j \in Ids, a \in Libs : In(m, j) /\ m.live[j].key = a => R.etw[a].group = m.etw[a].group
      <4> SUFFICES ASSUME NEW j \in Ids, NEW a \in Libs, In(m, j), m.live[j].key = a
                   PROVE  R.etw[a].group = m.etw[a].group
        OBVIOUS
      <4>1. a # 0
        BY <1>2, Numbers
      <4>2. KnownIn(m, a)
        BY <1>3, <4>1 DEF Bindings
      <4>3. a # l
        BY <2>1, <4>2
      <4>4. QED
        BY <2>5, <4>3
    <3>2. \A j \in Ids : In(R, j) => In(m, j) /\ R.live[j].key = m.live[j].key
                                     /\ R.live[j].own = m.live[j].own
      BY <2>4, <2>6
    <3>3. QED
      BY <1>2, <1>3, <3>1, <3>2, SameGroupsOwned
  <2>9. ASSUME Whole PROVE ChainOf(Pending \ {h}, R)
    <3>1. Ready(Pending, h, m) /\ l = h.lib /\ h.op = "create"
      BY <1>2, <2>9 DEF l
    <3>2. QED
      BY <2>2, <3>1, CreateChain
  <2>10. ASSUME Fair PROVE Found(R)
    <3> SUFFICES ASSUME NEW a \in Libs, KnownIn(R, a)
                 PROVE  FoundBy(R, a)
      BY DEF Found
    <3>1. CASE a = l
      <4>1. e.obj = h.id /\ ~e.orphan /\ e.address = NoAddr
        BY DEF e, NewEntry
      <4>2. QED
        BY <1>2, <2>5, <2>6, <2>10, <3>1, <4>1 DEF FoundBy
    <3>2. CASE a # l
      <4>1. R.etw[a] = m.etw[a] /\ KnownIn(m, a)
        BY <2>5, <3>2 DEF KnownIn
      <4>2. FoundBy(m, a)
        BY <1>2, <2>10, <4>1 DEF Found
      <4>3. QED
        BY <2>6, <4>1, <4>2 DEF FoundBy
    <3>3. QED
      BY <3>1, <3>2
  <2>11. QED
    BY <2>7, <2>8, <2>9, <2>10 DEF Handles
<1>6. Handles(R, h)
  BY <1>4, <1>5
<1> HIDE DEF R
<1>7. QED
  BY <1>1, <1>6, RecordSettles DEF h

LEMMA DestroySettles ==
  ASSUME Inv, Settling, OnEtwObjectDestroyed
  PROVE  Settling'
<1> DEFINE h == Head(etwq)
           k == m.alias[h.lib]
           R == IF k = 0 THEN m ELSE Forget(m, k)
<1>1. Record("destroy") /\ m' = R /\ UNCHANGED <<game, pipeq>>
  BY Zenon DEF OnEtwObjectDestroyed, FindEtw, AllIds, Forget
<1>2. /\ TypesOK /\ Game /\ Agree(m)
      /\ h \in Pending /\ h.op = "destroy" /\ h.id \in Ids /\ h.lib \in Libs /\ Begun(h.id)
      /\ Whole => Ready(Pending, h, m)
      /\ Fair => Present(m) /\ Found(m)
  BY <1>1, RecordReady
<1>3. m \in Models /\ Aliases(m) /\ Owned(m)
  BY <1>2 DEF Agree, Indexes, Settling
<1>4. k # 0 => k \in Libs /\ KnownIn(m, k)
  <2>1. k \in {0} \union Libs
    BY <1>2, <1>3, Fields
  <2>2. QED
    BY <1>2, <1>3, <2>1 DEF Aliases
<1> HIDE DEF h
<1>5. ASSUME k = 0 PROVE Handles(R, h)
  <2>1. ASSUME Whole PROVE FALSE
    <3>1. Ready(Pending, h, m) /\ h.op \in {"group", "destroy"} /\ k = m.alias[h.lib]
      BY <1>2, <2>1
    <3> HIDE DEF k
    <3>2. k # 0
      BY <3>1, EndFacts
    <3>3. QED
      BY <1>5, <3>2
  <2>2. QED
    BY <1>5, <2>1, NothingDone
<1>6. ASSUME k # 0 PROVE Handles(R, h)
  <2>1. R = Forget(m, k) /\ k \in Libs /\ KnownIn(m, k) /\ k = m.alias[h.lib]
    BY <1>4, <1>6
  <2> HIDE DEF R, k
  <2>2. Agree(R) /\ Forgets(m, R, k)
    BY <1>2, <2>1, ForgetAgrees
  <2>3. Owned(R)
    BY <1>2, <1>3, <2>1, <2>2, ForgetsOwned
  <2>4. SamePlaces(m, R)
    BY <2>2 DEF Forgets, SamePlaces
  <2>5. ASSUME Whole PROVE ChainOf(Pending \ {h}, R)
    <3>1. Ready(Pending, h, m) /\ h.op = "destroy"
      BY <1>2, <2>5
    <3>2. QED
      BY <2>1, <2>2, <3>1, DestroyChain
  <2>6. ASSUME Fair PROVE Found(R)
    <3>1. m.etw \in [Libs -> {NoObj} \union EtwRecords] /\ R.etw = [m.etw EXCEPT ![k] = NoObj]
      BY <1>2, <1>3, <2>2, Fields DEF Forgets
    <3>2. R.etw[k] = NoObj /\ \A a \in Libs : a # k => R.etw[a] = m.etw[a]
      BY <2>1, <3>1
    <3> SUFFICES ASSUME NEW a \in Libs, KnownIn(R, a)
                 PROVE  FoundBy(R, a)
      BY DEF Found
    <3>3. R.etw[a] = m.etw[a] /\ KnownIn(m, a)
      BY <3>2 DEF KnownIn
    <3>4. FoundBy(m, a)
      BY <1>2, <2>6, <3>3 DEF Found
    <3>5. m.etw[a].obj \in Ids
      <4>1. m.etw[a] \in EtwRecords
        BY <1>2, <1>3, <3>3, Fields
      <4>2. QED
        BY <4>1 DEF EtwRecords
    <3>6. QED
      BY <2>4, <3>3, <3>4, <3>5 DEF FoundBy, SamePlaces, SameLive
  <2>7. QED
    BY <2>3, <2>4, <2>5, <2>6 DEF Handles
<1>7. Handles(R, h)
  BY <1>5, <1>6
<1> HIDE DEF R
<1>8. QED
  BY <1>1, <1>7, RecordSettles DEF h

LEMMA PlacesTrans ==
  ASSUME NEW M, NEW N, NEW R, SamePlaces(M, N), SamePlaces(N, R)
  PROVE  SamePlaces(M, R)
BY DEF SamePlaces, SameLive

LEMMA PresentSame ==
  ASSUME NEW M, NEW N, Present(M), SamePlaces(M, N)
  PROVE  Present(N)
BY DEF Present, SamePlaces, SameLive

\* What is due of the object of the first record.
Due(h) ==
  /\ Present(m) /\ Found(m)
  /\ Hooked(h.id) => obj[h.id].phase # "made"
  /\ obj[h.id].phase = "sent" => In(m, h.id)

\* Every ETW object was created no later than the first record.
LEMMA CreatedBefore ==
  ASSUME NEW Q, NEW h, NEW M, Ready(Q, h, M), NEW a \in Libs, KnownIn(M, a)
  PROVE  M.etw[a].created <= h.ts /\ M.etw[a].obj \in Ids
<1>1. h \in Q /\ M \in Models /\ TypesOK
  BY HeadFacts DEF Ready
<1>2. EntryOk(Q, M, a)
  BY DEF Ready, ChainOf, Entries
<1>3. M.etw[a] \in EtwRecords
  BY SMTT(30), <1>1, Fields
<1>4. QED
  BY <1>1, <1>2, <1>3 DEF EntryOk, EtwRecords

\* What it is to handle an address, without names for what is at it.
LEMMA AddressKnown ==
  ASSUME NEW Q, NEW h, NEW M, Ready(Q, h, M), h.op = "address"
  PROVE  /\ M.alias[h.lib] = h.lib /\ KnownIn(M, h.lib) /\ M.etw[h.lib].obj = h.id
         /\ M.etw[h.lib].group = h.group /\ M.etw[h.lib].address = NoAddr
         /\ M.etw[h.lib].type = TypeOf(h.id)
         /\ M.byAddr[obj[h.id].addr] # 0 =>
              /\ KnownIn(M, M.byAddr[obj[h.id].addr])
              /\ M.byAddr[obj[h.id].addr] # h.lib
              /\ M.etw[M.byAddr[obj[h.id].addr]].obj = h.id
              /\ M.etw[M.byAddr[obj[h.id].addr]].type = TypeOf(h.id)
              /\ M.etw[M.byAddr[obj[h.id].addr]].address = obj[h.id].addr
<1> DEFINE l == h.lib
           old == M.byAddr[obj[h.id].addr]
<1>1. l = h.lib /\ old = M.byAddr[obj[h.id].addr]
  BY SMTT(30)
<1> HIDE DEF l, old
<1>2. /\ M.alias[l] = l /\ KnownIn(M, l) /\ M.etw[l].obj = h.id
      /\ M.etw[l].group = h.group /\ M.etw[l].address = NoAddr
      /\ M.etw[l].type = TypeOf(h.id)
      /\ old # 0 => /\ KnownIn(M, old) /\ old # l /\ M.etw[old].obj = h.id
                    /\ M.etw[old].type = TypeOf(h.id) /\ M.etw[old].address = obj[h.id].addr
  BY <1>1, AddressFacts
<1>3. QED
  BY <1>2 DEF l, old

LEMMA JoinHandles ==
  ASSUME TypesOK, Game, Agree(m), Owned(m), NEW h, h.op = "address",
         NEW l \in Libs, l = h.lib, NEW k \in Libs, k = m.alias[l],
         KnownIn(m, k), m.etw[k].address = NoAddr,
         NEW old \in Libs, old = m.byAddr[obj[h.id].addr], KnownIn(m, old), old # k,
         Whole => Ready(Pending, h, m) /\ Queue(Pending \ {h}), Fair => Due(h),
         NEW R, Merges(m, R, old, k)
  PROVE  Handles(R, h)
<1> DEFINE Q2 == Pending \ {h}
           g == m.etw[k].group
<1>0. g = m.etw[k].group
  BY SMTT(30)
<1> HIDE DEF g
<1>1. PICK N : Joining(m, N, old, k) /\ Tried(N, R, old)
  BY MergesJoining
<1>2. Agree(N)
  BY Zenon, <1>1 DEF Joining
<1>3. /\ SamePlaces(m, N) /\ N.byAddr = m.byAddr
      /\ N.alias[k] = old /\ \A a \in Libs : a # k => N.alias[a] = m.alias[a]
      /\ ~KnownIn(N, k) /\ KnownIn(N, old)
      /\ \A a \in Libs : a # k /\ a # old => N.etw[a] = m.etw[a]
      /\ N.etw[old].group = (IF g = "Unknown" THEN m.etw[old].group ELSE g)
      /\ N.etw[old].type = m.etw[old].type /\ N.etw[old].address = m.etw[old].address
      /\ N.etw[old].created = m.etw[old].created /\ N.etw[old].obj = m.etw[k].obj
      /\ N.etw[old].aliases = m.etw[old].aliases \union {k}
      /\ N.etw[old].bound = m.etw[old].bound /\ N.etw[old].orphan = m.etw[old].orphan
      /\ Owned(N)
  <2>1. Joining(m, N, old, k) /\ g = m.etw[k].group /\ m.etw[k].address = NoAddr
        /\ KnownIn(m, k) /\ KnownIn(m, old) /\ old # k
    BY <1>0, <1>1
  <2>2. QED
    BY ONLY SMTT(30), <2>1, TypesOK, Agree(m), Owned(m), k \in Libs, old \in Libs, JoiningFacts
<1>4. Owned(R) /\ SameEntries(N, R) /\ SamePlaces(N, R)
  BY Zenon, <1>1, <1>2, <1>3, TriedOwned, TriedFacts
<1>5. SamePlaces(m, R)
  BY Zenon, <1>3, <1>4, PlacesTrans
<1>6. ASSUME Whole
      PROVE  /\ k = l /\ m.etw[k].obj = h.id /\ m.etw[old].obj = h.id
             /\ m.etw[old].address = obj[h.id].addr /\ obj[h.id].addr # NoAddr
             /\ ChainOf(Q2, N) /\ ChainOf(Q2, R)
  <2>1. Ready(Pending, h, m) /\ Queue(Q2)
    BY SMTT(30), <1>6
  <2>2. /\ m.alias[l] = l /\ m.etw[l].obj = h.id /\ m.etw[l].group = h.group
        /\ m.etw[old].obj = h.id /\ m.etw[old].address = obj[h.id].addr
    <3>1. old # 0
      BY Numbers
    <3>2. Ready(Pending, h, m) /\ l = h.lib /\ old = m.byAddr[obj[h.id].addr]
      BY SMTT(30), <2>1
    <3>3. /\ m.alias[h.lib] = h.lib /\ m.etw[h.lib].obj = h.id
          /\ m.etw[h.lib].group = h.group
      BY ONLY SMTT(30), <3>2, h.op = "address", AddressKnown
    <3>4. /\ m.etw[m.byAddr[obj[h.id].addr]].obj = h.id
          /\ m.etw[m.byAddr[obj[h.id].addr]].address = obj[h.id].addr
      BY ONLY SMTT(30), <3>1, <3>2, h.op = "address", AddressKnown
    <3>5. QED
      BY SMTT(30), <3>2, <3>3, <3>4
  <2>3. k = l /\ m.etw[k].obj = h.id /\ g = h.group
    BY SMTT(30), <1>0, <2>2
  <2>4. RecordOk(Pending, h) /\ Entries(Pending, m) /\ obj[h.id].addr # NoAddr /\ Lifetimes
    BY <2>1, HeadFacts DEF Ready, ChainOf
  <2>5. N.etw[old].group = h.group
    <3>1. m.etw[old].group = "Unknown" <=> ~HasMemory(h.id)
      BY Zenon, <2>2, <2>4 DEF Entries, EntryOk
    <3>2. h.group = "Unknown" <=> ~HasMemory(h.id)
      BY <2>4 DEF RecordOk
    <3>3. QED
      BY Zenon, <1>3, <2>3, <3>1, <3>2
  <2>6. Renews(m, N, h, old)
    BY ZenonT(60), <1>3, <2>3, <2>5 DEF Renews
  <2>7. ChainOf(Q2, N)
    <3>1. old # 0 /\ h.op \in {"address", "group"}
      BY SMTT(30), Numbers
    <3>2. QED
      BY <2>1, <2>6, <3>1, KnownChain
  <2>8. ChainOf(Q2, R)
    <3>1. Q2 \subseteq Pending /\ Entries(Q2, N) /\ Progress(Q2, N)
      BY <2>7 DEF ChainOf
    <3>2. QED
      BY <1>2, <1>4, <2>1, <2>4, <3>1, SameEntriesKeep DEF ChainOf
  <2>9. QED
    BY ZenonT(60), <2>2, <2>3, <2>4, <2>7, <2>8
<1>7. ASSUME Fair PROVE Found(R)
  <2>1. Whole /\ Due(h) /\ Ready(Pending, h, m) /\ Ordered(Pending, h)
    BY <1>7 DEF Fair, Ready
  <2>2. Present(N)
    BY Zenon, <1>3, <2>1, PresentSame DEF Due
  <2>3. /\ N.byAddr[obj[h.id].addr] = old /\ N.etw[old].obj = h.id
        /\ h.id \in Ids
    BY Zenon, <1>3, <1>6, <2>1, HeadFacts
  <2>4. ASSUME NEW a \in Libs, a # old, KnownIn(N, a)
        PROVE  FoundBy(N, a) /\ N.etw[a].created <= h.ts
    <3>1. a # k /\ N.etw[a] = m.etw[a] /\ KnownIn(m, a)
      BY Zenon, <1>3, <2>4 DEF KnownIn
    <3>2. FoundBy(m, a) /\ m.etw[a].created <= h.ts /\ m.etw[a].obj \in Ids
      BY <2>1, <3>1, CreatedBefore DEF Due, Found
    <3>3. SameFacts(m.etw[a], N.etw[a])
      BY <3>1 DEF SameFacts
    <3>4. QED
      BY Zenon, <1>3, <3>1, <3>2, <3>3, FoundBySame
  <2>5. N.etw[old].created <= h.ts
    <3>1. m.etw[old].created <= h.ts
      BY <2>1, CreatedBefore
    <3>2. QED
      BY ZenonT(60), <1>3, <3>1
  <2>6. \A a \in Libs : a # old /\ KnownIn(N, a) => FoundBy(N, a)
    BY SMTT(30), <2>4
  <2>7. \A a \in Libs : KnownIn(N, a) => N.etw[a].created <= h.ts
    BY <2>4, <2>5
  <2>8. obj[h.id].phase = "sent" =>
          In(N, h.id) /\ ~N.etw[old].orphan /\ N.etw[old].bound \in {0, h.id}
    <3>1. FoundBy(m, old)
      BY <2>1 DEF Due, Found
    <3>2. In(N, h.id) <=> In(m, h.id)
      BY Zenon, <1>3, <2>3 DEF SamePlaces, SameLive
    <3>3. QED
      BY Zenon, <1>3, <1>6, <2>1, <3>1, <3>2 DEF FoundBy, Due
  <2>9. ChainOf(Pending \ {h}, N) /\ (Hooked(h.id) => obj[h.id].phase # "made")
    BY Zenon, <1>6, <2>1 DEF Due
  <2>10. QED
    BY Zenon, <1>1, <1>2, <1>3, <2>1, <2>2, <2>3, <2>6, <2>7, <2>8, <2>9, TriedFound
<1>8. QED
  BY Zenon, <1>4, <1>5, <1>6, <1>7 DEF Handles

LEMMA TakeHandles ==
  ASSUME TypesOK, Game, Agree(m), Owned(m), NEW h, h.op = "address",
         NEW l \in Libs, l = h.lib, NEW k \in Libs, k = m.alias[l],
         KnownIn(m, k), m.etw[k].address = NoAddr,
         NEW p \in plan.addrs, p = obj[h.id].addr,
         Whole => m.byAddr[p] = 0 /\ Ready(Pending, h, m) /\ Queue(Pending \ {h}),
         Fair => Due(h),
         NEW R, Takes(m, R, k, p)
  PROVE  Handles(R, h)
<1> DEFINE Q2 == Pending \ {h}
<1>1. PICK N : Placing(m, N, k, p) /\ Tried(N, R, k)
  BY TakesPlacing
<1>2. /\ Agree(N) /\ N.byAddr = [m.byAddr EXCEPT ![p] = k]
      /\ N.etw = [m.etw EXCEPT ![k] = [m.etw[k] EXCEPT !.address = p]]
  BY SMTT(30), <1>1 DEF Placing
<1>3. /\ SamePlaces(m, N) /\ N.alias = m.alias /\ N.byAddr[p] = k
      /\ \A a \in Libs : (KnownIn(N, a) <=> KnownIn(m, a)) /\ (a # k => N.etw[a] = m.etw[a])
      /\ N.etw[k].bound = 0 /\ N.etw[k].orphan = m.etw[k].orphan
      /\ N.etw[k].created = m.etw[k].created /\ N.etw[k].obj = m.etw[k].obj
  BY <1>1, PlacingFacts
<1>4. Owned(N)
  BY <1>1, PlacingOwned
<1>5. Owned(R) /\ SameEntries(N, R) /\ SamePlaces(N, R)
  BY Zenon, <1>1, <1>2, <1>3, <1>4, TriedOwned, TriedFacts
<1>6. SamePlaces(m, R)
  BY <1>3, <1>5, PlacesTrans
<1>7. ASSUME Whole
      PROVE  k = l /\ m.etw[k].obj = h.id /\ ChainOf(Q2, N) /\ ChainOf(Q2, R)
  <2>1. Ready(Pending, h, m) /\ Queue(Q2) /\ m.byAddr[obj[h.id].addr] = 0 /\ Lifetimes
    BY <1>7, HeadFacts
  <2>2. m.alias[l] = l /\ m.etw[l].obj = h.id
    <3>1. m.alias[h.lib] = h.lib /\ m.etw[h.lib].obj = h.id
      BY ONLY <2>1, h.op = "address", AddressKnown
    <3>2. QED
      BY SMTT(30), <3>1
  <2>3. k = l /\ m.etw[k].obj = h.id
    BY <2>2
  <2>4. ChainOf(Q2, N)
    <3>1. /\ N.byAddr = [m.byAddr EXCEPT ![obj[h.id].addr] = l]
          /\ N.etw = [m.etw EXCEPT ![l] = [m.etw[l] EXCEPT !.address = obj[h.id].addr]]
      BY <1>2, <2>3
    <3>2. Agree(N) /\ N.alias = m.alias /\ h.op = "address" /\ l = h.lib
      BY ZenonT(60), <1>2, <1>3
    <3>3. QED
      BY <2>1, <3>1, <3>2, TakeChain
  <2>5. ChainOf(Q2, R)
    <3>1. Q2 \subseteq Pending /\ Entries(Q2, N) /\ Progress(Q2, N)
      BY <2>4 DEF ChainOf
    <3>2. QED
      BY <1>2, <1>5, <2>1, <3>1, SameEntriesKeep DEF ChainOf
  <2>6. QED
    BY <2>3, <2>4, <2>5
<1>8. ASSUME Fair PROVE Found(R)
  <2>1. Whole /\ Due(h) /\ Ready(Pending, h, m) /\ Ordered(Pending, h)
    BY <1>8 DEF Fair, Ready
  <2>2. Present(N)
    BY SMTT(30), <1>3, <2>1, PresentSame DEF Due
  <2>3. N.byAddr[obj[h.id].addr] = k /\ N.etw[k].obj = h.id /\ KnownIn(N, k) /\ h.id \in Ids
    BY SMTT(30), <1>3, <1>7, <2>1, HeadFacts
  <2>4. ASSUME NEW a \in Libs, a # k, KnownIn(N, a)
        PROVE  FoundBy(N, a) /\ N.etw[a].created <= h.ts
    <3>1. N.etw[a] = m.etw[a] /\ KnownIn(m, a)
      BY <1>3, <2>4
    <3>2. FoundBy(m, a) /\ m.etw[a].created <= h.ts /\ m.etw[a].obj \in Ids
      BY <2>1, <3>1, CreatedBefore DEF Due, Found
    <3>3. SameFacts(m.etw[a], N.etw[a])
      BY <3>1 DEF SameFacts
    <3>4. QED
      BY <1>3, <3>1, <3>2, <3>3, FoundBySame
  <2>5. N.etw[k].created <= h.ts
    BY <1>3, <2>1, CreatedBefore
  <2>6. \A a \in Libs : a # k /\ KnownIn(N, a) => FoundBy(N, a)
    BY <2>4
  <2>7. \A a \in Libs : KnownIn(N, a) => N.etw[a].created <= h.ts
    BY SMTT(30), <2>4, <2>5
  <2>8. obj[h.id].phase = "sent" =>
          In(N, h.id) /\ ~N.etw[k].orphan /\ N.etw[k].bound \in {0, h.id}
    <3>1. FoundBy(m, k)
      BY <2>1 DEF Due, Found
    <3>2. In(N, h.id) <=> In(m, h.id)
      BY <1>3, <2>3 DEF SamePlaces, SameLive
    <3>3. QED
      BY <1>3, <1>7, <2>1, <3>1, <3>2 DEF FoundBy, Due
  <2>9. ChainOf(Pending \ {h}, N) /\ (Hooked(h.id) => obj[h.id].phase # "made")
    BY <1>7, <2>1 DEF Due
  <2>10. QED
    BY Zenon, <1>1, <1>2, <1>3, <2>1, <2>2, <2>3, <2>6, <2>7, <2>8, <2>9, TriedFound
<1>9. QED
  BY <1>5, <1>6, <1>7, <1>8 DEF Handles

LEMMA AddressSettles ==
  ASSUME Inv, Settling, OnEtwObjectAddress
  PROVE  Settling'
<1> DEFINE h == Head(etwq)
           k == m.alias[h.lib]
           p == obj[h.id].addr
           old == m.byAddr[p]
           R == IF k = 0 \/ m.etw[k].address # NoAddr THEN m
                ELSE IF old \notin {0, k} /\ m.etw[old] # NoObj
                        /\ m.etw[old].type = m.etw[k].type
                THEN MergeInto(m, old, k)
                ELSE TakeAddress(m, k, p)
<1>1. Record("address") /\ m' = R /\ UNCHANGED <<game, pipeq>>
  BY SMTT(30) DEF OnEtwObjectAddress, FindEtw
<1>2. /\ TypesOK /\ Game /\ Agree(m)
      /\ h \in Pending /\ h.op = "address" /\ h.id \in Ids /\ h.lib \in Libs /\ Begun(h.id)
      /\ Whole => Ready(Pending, h, m) /\ Queue(Pending \ {h})
      /\ Fair => Due(h)
  BY <1>1, RecordReady DEF Due
<1>3. m \in Models /\ Indexes(m) /\ Owned(m) /\ p \in plan.addrs
  BY <1>2 DEF Agree, Settling, Game
<1>4. k \in {0} \union Libs /\ old \in {0} \union Libs
  BY <1>2, <1>3, Fields
<1>5. k # 0 => k \in Libs /\ KnownIn(m, k)
  BY SMTT(30), <1>2, <1>3, <1>4 DEF Indexes, Aliases
<1>6. old # 0 => old \in Libs /\ KnownIn(m, old) /\ m.etw[old].address = p /\ p # NoAddr
  BY <1>2, <1>3, <1>4, Numbers DEF Indexes, Addresses
<1>7. Whole => /\ k = h.lib /\ k # 0 /\ m.etw[k].address = NoAddr
               /\ old # 0 => old # k /\ m.etw[old].type = m.etw[k].type
  <2> SUFFICES ASSUME Whole
               PROVE  /\ k = h.lib /\ k # 0 /\ m.etw[k].address = NoAddr
                      /\ old # 0 => old # k /\ m.etw[old].type = m.etw[k].type
    OBVIOUS
  <2>1. Ready(Pending, h, m) /\ h.op = "address" /\ h.lib # 0
    BY SMTT(30), <1>2, Numbers
  <2> HIDE DEF h
  <2>2. /\ m.alias[h.lib] = h.lib /\ m.etw[h.lib].address = NoAddr
        /\ m.etw[h.lib].type = TypeOf(h.id)
        /\ old # 0 => old # h.lib /\ m.etw[old].type = TypeOf(h.id)
    BY ONLY <2>1, AddressKnown
  <2>3. QED
    BY SMTT(30), <2>1, <2>2
<1> HIDE DEF h, k, old, p
<1>8. Handles(R, h)
  <2>1. CASE k = 0 \/ m.etw[k].address # NoAddr
    <3>1. ~Whole /\ R = m
      BY <1>7, <2>1
    <3>2. QED
      BY <3>1, NothingDone
  <2>2. CASE /\ ~(k = 0 \/ m.etw[k].address # NoAddr)
             /\ old \notin {0, k} /\ m.etw[old] # NoObj /\ m.etw[old].type = m.etw[k].type
    <3>1. /\ k \in Libs /\ KnownIn(m, k) /\ m.etw[k].address = NoAddr
          /\ old \in Libs /\ KnownIn(m, old) /\ old # k /\ m.etw[old].address # NoAddr
          /\ R = MergeInto(m, old, k)
      BY <1>5, <1>6, <2>2
    <3> HIDE DEF R
    <3>2. Merges(m, R, old, k)
      BY <1>2, <3>1, MergeIntoAgrees
    <3>3. h.lib \in Libs /\ k = m.alias[h.lib] /\ old = m.byAddr[obj[h.id].addr]
      BY <1>2 DEF k, old, p
    <3>4. QED
      BY Zenon, <1>2, <1>3, <3>1, <3>2, <3>3, JoinHandles
  <2>3. CASE /\ ~(k = 0 \/ m.etw[k].address # NoAddr)
             /\ ~(old \notin {0, k} /\ m.etw[old] # NoObj /\ m.etw[old].type = m.etw[k].type)
    <3>1. /\ k \in Libs /\ KnownIn(m, k) /\ m.etw[k].address = NoAddr
          /\ R = TakeAddress(m, k, p)
      BY <1>5, <2>3
    <3>2. Whole => m.byAddr[p] = 0
      BY <1>6, <1>7, <2>3 DEF old, KnownIn
    <3> HIDE DEF R
    <3>3. Takes(m, R, k, p)
      BY <1>2, <1>3, <3>1, TakeAddressAgrees
    <3>4. h.lib \in Libs /\ k = m.alias[h.lib] /\ p = obj[h.id].addr
      BY <1>2 DEF k, p
    <3>5. QED
      BY <1>2, <1>3, <3>1, <3>2, <3>3, <3>4, TakeHandles
  <2>4. QED
    BY <2>1, <2>2, <2>3
<1> HIDE DEF R
<1>9. QED
  BY SMTT(30), <1>1, <1>8, RecordSettles DEF h

\* While the game runs no group change is taken for one of its exit.
LEMMA GroupSettles ==
  ASSUME Inv, Settling, OnEtwGroupChanges
  PROVE  Settling'
<1> DEFINE h == Head(etwq)
           k == m.alias[h.lib]
           Late == exiting' /\ h.ts > aliveTs'
           R == IF Late \/ k = 0 \/ m.etw[k].group = h.group THEN m
                ELSE ApplyGroup(m, k, h.group)
<1>1. /\ Record("group") /\ m' = R /\ UNCHANGED <<game, pipeq>>
      /\ AfterChildExitLocked(h.ts)
  BY DEF OnEtwGroupChanges, FindEtw
<1>2. /\ TypesOK /\ Game /\ Agree(m)
      /\ h \in Pending /\ h.op = "group" /\ h.id \in Ids /\ h.lib \in Libs /\ Begun(h.id)
      /\ Whole => Ready(Pending, h, m) /\ Queue(Pending \ {h})
      /\ Fair => Present(m) /\ Found(m)
  BY <1>1, RecordReady
<1>3. m \in Models /\ Indexes(m) /\ Owned(m) /\ h.group \in Locs
  BY <1>2, PendingFacts DEF Agree, Settling
<1>4. Whole => ~Late
  <2> SUFFICES ASSUME Whole PROVE ~Late
    OBVIOUS
  <2>1. ~exiting /\ Running
    BY DEF Inv, Exit, Whole, Running
  <2>2. ~exiting'
    BY <1>1, <2>1 DEF AfterChildExitLocked, PollChildLocked, poll
  <2>3. QED
    BY <2>2
<1>5. k # 0 => k \in Libs /\ KnownIn(m, k)
  <2>1. k \in {0} \union Libs
    BY <1>2, <1>3, Fields
  <2>2. QED
    BY <1>2, <1>3, <2>1 DEF Indexes, Aliases
<1>6. Whole => /\ k = m.byAddr[obj[h.id].addr] /\ k # 0 /\ k \in Libs /\ KnownIn(m, k)
               /\ m.etw[k].obj = h.id /\ m.etw[k] \in EtwRecords
  <2> SUFFICES ASSUME Whole
               PROVE  /\ k = m.byAddr[obj[h.id].addr] /\ k # 0 /\ k \in Libs /\ KnownIn(m, k)
                      /\ m.etw[k].obj = h.id /\ m.etw[k] \in EtwRecords
    OBVIOUS
  <2>1. Ready(Pending, h, m) /\ h.op \in {"group", "destroy"} /\ k = m.alias[h.lib]
    BY <1>2
  <2> HIDE DEF h, k
  <2>2. QED
    BY ONLY <2>1, EndFacts
<1> HIDE DEF h, Late
<1>7. CASE ~Whole /\ R = m
  <2>1. Handles(m, h)
    BY <1>7, NothingDone
  <2> HIDE DEF R
  <2>2. QED
    BY <1>1, <1>7, <2>1, RecordSettles DEF h
<1>8. CASE Whole /\ R = m
  <2>1. k # 0 /\ m.etw[k].group = h.group /\ m.alias[h.lib] = k
    <3>1. k # 0 /\ ~Late
      BY <1>4, <1>6, <1>8
    <3>2. CASE m.etw[k].group = h.group
      BY <3>1, <3>2
    <3>3. CASE m.etw[k].group # h.group
      <4>1. R = ApplyGroup(m, k, h.group)
        BY <3>1, <3>3
      <4>2. ApplyGroup(m, k, h.group).etw = [m.etw EXCEPT ![k].group = h.group]
        BY <1>2, <1>3, <1>6, <1>8, ApplyGroupAgrees
      <4>3. m.etw[k].group = h.group
        <5>1. m.etw \in [Libs -> {NoObj} \union EtwRecords] /\ k \in Libs /\ m.etw[k] \in EtwRecords
          BY <1>2, <1>3, <1>6, <1>8, Fields
        <5>2. m.etw = [m.etw EXCEPT ![k].group = h.group]
          BY <1>8, <4>1, <4>2
        <5> HIDE DEF k, R
        <5>3. m.etw[k] = [m.etw[k] EXCEPT !.group = h.group]
          BY <5>1, <5>2
        <5>4. [m.etw[k] EXCEPT !.group = h.group].group = h.group
          BY SMTT(30), <5>1 DEF EtwRecords
        <5>5. QED
          BY <5>3, <5>4
      <4>4. QED
        BY <3>3, <4>3
    <3>4. QED
      BY <3>2, <3>3
  <2> HIDE DEF k, R
  <2>2. ChainOf(Pending \ {h}, m)
    <3>1. Ready(Pending, h, m) /\ h.op \in {"address", "group"}
          /\ k = m.byAddr[obj[h.id].addr]
      BY <1>2, <1>6, <1>8
    <3>2. Renews(m, m, h, k)
      BY <1>6, <1>8, <2>1 DEF Renews
    <3>3. QED
      BY ONLY <2>1, <3>1, <3>2, KnownChain
  <2>3. Handles(m, h)
    BY <1>2, <1>3, <2>2, SameRefl DEF Handles
  <2>4. QED
    BY <1>1, <1>8, <2>3, RecordSettles DEF h
<1>9. CASE k # 0 /\ R = ApplyGroup(m, k, h.group)
  <2>1. k \in Libs /\ KnownIn(m, k)
    BY <1>5, <1>9
  <2> HIDE DEF k, R
  <2>2. /\ Agree(R) /\ R.etw = [m.etw EXCEPT ![k].group = h.group]
        /\ Regroups(m, R, k, h.group)
    BY <1>2, <1>3, <1>9, <2>1, ApplyGroupAgrees
  <2>3. Owned(R)
    BY <1>2, <1>3, <2>1, <2>2, RegroupsOwned
  <2>4. SamePlaces(m, R)
    BY <2>2 DEF Regroups, SameIndexes, SamePlaces
  <2>5. /\ m.etw \in [Libs -> {NoObj} \union EtwRecords] /\ m.etw[k] \in EtwRecords
    BY <1>2, <1>3, <2>1, Fields
  <2>6. /\ R.etw[k] = [m.etw[k] EXCEPT !.group = h.group]
        /\ \A a \in Libs : a # k => R.etw[a] = m.etw[a]
    BY <2>1, <2>2, <2>5
  <2>7. /\ R.etw[k].type = m.etw[k].type /\ R.etw[k].address = m.etw[k].address
        /\ R.etw[k].created = m.etw[k].created /\ R.etw[k].obj = m.etw[k].obj
        /\ R.etw[k].group = h.group /\ R.etw[k].aliases = m.etw[k].aliases
        /\ R.etw[k].orphan = m.etw[k].orphan /\ R.etw[k].bound = m.etw[k].bound
        /\ R.etw[k] \in EtwRecords
    BY <1>3, <2>5, <2>6 DEF EtwRecords
  <2>8. KnownIn(R, k) /\ \A a \in Libs : KnownIn(R, a) <=> KnownIn(m, a)
    BY <1>2, <2>1, <2>6, <2>7, NoRecords DEF KnownIn
  <2>9. ASSUME Whole PROVE ChainOf(Pending \ {h}, R)
    <3>1. /\ Ready(Pending, h, m) /\ h.op \in {"address", "group"}
          /\ k = m.byAddr[obj[h.id].addr]
      BY <1>2, <1>6, <2>9
    <3>2. Renews(m, R, h, k)
      <4>1. R.alias = m.alias /\ R.byAddr = m.byAddr /\ m.alias[h.lib] = k
        BY <2>2 DEF Regroups, SameIndexes, k
      <4>2. m.etw[k].obj = h.id
        BY <1>6, <2>9
      <4>3. QED
        BY <2>6, <2>7, <2>8, <4>1, <4>2 DEF Renews
    <3>3. QED
      BY ONLY <1>9, <3>1, <3>2, KnownChain
  <2>10. ASSUME Fair PROVE Found(R)
    <3> SUFFICES ASSUME NEW a \in Libs, KnownIn(R, a)
                 PROVE  FoundBy(R, a)
      BY DEF Found
    <3>1. KnownIn(m, a) /\ FoundBy(m, a)
      BY <1>2, <2>8, <2>10 DEF Found
    <3>2. m.etw[a] \in EtwRecords
      BY <1>2, <1>3, <3>1, Fields
    <3>3. R.etw[a].obj = m.etw[a].obj /\ R.etw[a].orphan = m.etw[a].orphan
          /\ R.etw[a].bound = m.etw[a].bound /\ R.etw[a].address = m.etw[a].address
          /\ m.etw[a].obj \in Ids
      BY <2>6, <2>7, <3>2 DEF EtwRecords
    <3>4. QED
      BY <2>4, <3>1, <3>3 DEF FoundBy, SamePlaces, SameLive
  <2>11. Handles(R, h)
    BY <2>3, <2>4, <2>9, <2>10 DEF Handles
  <2>12. QED
    BY <1>1, <2>11, RecordSettles DEF h
<1>10. QED
  BY <1>7, <1>8, <1>9

-----------------------------------------------------------------------------
(* The handlers of pipe messages, and the launcher's ticks.                *)

\* No record is handled, and the ETW objects stay what they are.
LEMMA PipeSettles ==
  ASSUME Inv, Settling, UNCHANGED game, etwq' = etwq, NEW R, m' = R, SameEntries(m, R),
         Owned(R), Buried(R), Posted', Fair => Present(R) /\ Found(R)
  PROVE  Settling'
<1>1. TypesOK /\ Game /\ Agree(m) /\ Lifetimes
  BY DEF Inv, Settling
<1>2. /\ left' = left /\ plan' = plan /\ Lifetimes' /\ (Whole' <=> Whole) /\ (Fair' <=> Fair)
  BY <1>1, GameSame
<1>3. Owned(m)' /\ Buried(m)' /\ (Fair' => Present(m)' /\ Found(m)')
  BY <1>2, ModelSame
<1>4. Whole' => Chain'
  <2> SUFFICES ASSUME Whole PROVE Chain'
    BY <1>2
  <2>1. Sorted /\ Queue(Pending) /\ Entries(Pending, m) /\ Progress(Pending, m)
    BY DEF Settling, Chain
  <2>2. Pending' = Pending /\ Sorted'
    BY <2>1 DEF Pending, Sorted, Before, AddressOf
  <2>3. Entries(Pending, R) /\ Progress(Pending, R)
    BY ONLY <1>1, <2>1, SameEntries(m, R), SameEntriesKeep
  <2>4. Queue(Pending)' /\ Entries(Pending, m)' /\ Progress(Pending, m)'
    BY <2>1, <2>2, <2>3, ChainSame
  <2>5. QED
    BY <2>2, <2>4 DEF Chain
<1>5. left'.lost <= plan'.lost
  BY <1>2 DEF Settling
<1>6. QED
  BY <1>2, <1>3, <1>4, <1>5 DEF Settling

\* The first message is handled: it may have told of an object, or of its end.
LEMMA PostedDrained ==
  ASSUME TypesOK, Posted, UNCHANGED game, pipeq # <<>>, pipeq' = Tail(pipeq),
         \A j \in Ids : In(m, j)' => In(m, j) \/ Creates(1, j),
         \A j \in Ids : Creates(1, j) => In(m, j)',
         \A j \in Ids : In(m, j) /\ ~Dies(1, j) => In(m, j)',
         \A j \in Ids : Dies(1, j) => ~In(m, j)'
  PROVE  Posted'
<1>1. pipeq \in Seq(Messages) /\ Ids' = Ids /\ obj' = obj
  BY GameSame DEF TypesOK
<1>2. /\ DOMAIN pipeq = 1 .. Len(pipeq) /\ Len(pipeq) \in Nat
      /\ DOMAIN pipeq' = 1 .. (Len(pipeq) - 1)
      /\ \A n \in DOMAIN pipeq' : n + 1 \in DOMAIN pipeq /\ pipeq'[n] = pipeq[n + 1]
  BY <1>1
<1>3. \A n \in DOMAIN pipeq' : \A j : /\ Creates(n, j)' <=> Creates(n + 1, j)
                                      /\ Dies(n, j)' <=> Dies(n + 1, j)
  BY <1>2 DEF Creates, Dies
<1>4. \A n \in DOMAIN pipeq : n = 1 \/ (n - 1 \in DOMAIN pipeq' /\ n - 1 + 1 = n)
  BY <1>2
<1>5. \A j \in Ids : (\E n \in DOMAIN pipeq : Creates(n, j)) =>
        Creates(1, j) \/ \E n \in DOMAIN pipeq' : Creates(n, j)'
  <2> SUFFICES ASSUME NEW j \in Ids, NEW n \in DOMAIN pipeq, Creates(n, j), n # 1
               PROVE  \E k \in DOMAIN pipeq' : Creates(k, j)'
    OBVIOUS
  <2>1. n - 1 \in DOMAIN pipeq' /\ n - 1 + 1 = n
    BY <1>4
  <2>2. QED
    BY <1>3, <2>1
<1>6. 1 \in DOMAIN pipeq /\ DOMAIN pipeq \subseteq Nat /\ DOMAIN pipeq' \subseteq Nat
  BY <1>1, <1>2
<1>7. \A n \in DOMAIN pipeq', j \in Ids : Dies(n, j)' =>
        /\ obj[j].phase = "gone" /\ obj[j].died = pipeq'[n].ts
        /\ \A k \in DOMAIN pipeq' : Creates(k, j)' => k < n
  <2> SUFFICES ASSUME NEW n \in DOMAIN pipeq', NEW j \in Ids, Dies(n, j)'
               PROVE  /\ obj[j].phase = "gone" /\ obj[j].died = pipeq'[n].ts
                      /\ \A k \in DOMAIN pipeq' : Creates(k, j)' => k < n
    OBVIOUS
  <2>1. Dies(n + 1, j) /\ n + 1 \in DOMAIN pipeq /\ pipeq'[n] = pipeq[n + 1]
    BY <1>2, <1>3
  <2>2. /\ obj[j].phase = "gone" /\ obj[j].died = pipeq[n + 1].ts
        /\ \A k \in DOMAIN pipeq : Creates(k, j) => k < n + 1
    BY <2>1 DEF Posted
  <2>3. \A k \in DOMAIN pipeq' : Creates(k, j)' => k + 1 < n + 1
    BY <1>2, <1>3, <2>2
  <2>4. QED
    BY <1>6, <2>1, <2>2, <2>3
<1>8. \A j \in Ids : obj[j].phase = "sent" =>
        In(m, j)' \/ \E n \in DOMAIN pipeq' : Creates(n, j)'
  <2> SUFFICES ASSUME NEW j \in Ids, obj[j].phase = "sent"
               PROVE  In(m, j)' \/ \E n \in DOMAIN pipeq' : Creates(n, j)'
    OBVIOUS
  <2>1. In(m, j) \/ \E n \in DOMAIN pipeq : Creates(n, j)
    BY DEF Posted
  <2>2. ~Dies(1, j)
    BY <1>6 DEF Posted
  <2>3. QED
    BY <1>5, <2>1, <2>2
<1>9. \A j \in Ids : obj[j].phase = "gone" /\ (In(m, j)' \/ \E n \in DOMAIN pipeq' : Creates(n, j)')
        => \E n \in DOMAIN pipeq' : Dies(n, j)'
  <2> SUFFICES ASSUME NEW j \in Ids, obj[j].phase = "gone",
                      In(m, j)' \/ \E n \in DOMAIN pipeq' : Creates(n, j)'
               PROVE  \E n \in DOMAIN pipeq' : Dies(n, j)'
    OBVIOUS
  <2>1. In(m, j) \/ \E n \in DOMAIN pipeq : Creates(n, j)
    BY <1>2, <1>3, <1>6
  <2>2. PICK n \in DOMAIN pipeq : Dies(n, j)
    BY <2>1 DEF Posted
  <2>3. n # 1
    <3> SUFFICES ASSUME Dies(1, j) PROVE FALSE
      BY <2>2
    <3>1. PICK k \in DOMAIN pipeq' : Creates(k, j)'
      OBVIOUS
    <3>2. Creates(k + 1, j) /\ k + 1 \in DOMAIN pipeq
      BY <1>2, <1>3, <3>1
    <3>3. k + 1 < 1
      BY <1>6, <3>2 DEF Posted
    <3>4. QED
      BY <1>6, <3>3
  <2>4. n - 1 \in DOMAIN pipeq' /\ n - 1 + 1 = n
    BY <1>4, <2>3
  <2>5. QED
    BY <1>3, <2>2, <2>4
<1>10. \A i, j \in Ids, n \in DOMAIN pipeq' :
         i # j /\ Creates(n, i)' /\ obj[j].phase = "sent" /\ obj[i].addr = obj[j].addr =>
           ~In(m, j)' /\ \A k \in DOMAIN pipeq' : Creates(k, j)' => n < k
  <2> SUFFICES ASSUME NEW i \in Ids, NEW j \in Ids, NEW n \in DOMAIN pipeq', i # j,
                      Creates(n, i)', obj[j].phase = "sent", obj[i].addr = obj[j].addr
               PROVE  ~In(m, j)' /\ \A k \in DOMAIN pipeq' : Creates(k, j)' => n < k
    OBVIOUS
  <2>1. Creates(n + 1, i) /\ n + 1 \in DOMAIN pipeq
    BY <1>2, <1>3
  <2>2. ~In(m, j) /\ \A k \in DOMAIN pipeq : Creates(k, j) => n + 1 < k
    BY <2>1 DEF Posted
  <2>3. ~Creates(1, j)
    BY <1>6, <2>2
  <2>4. \A k \in DOMAIN pipeq' : Creates(k, j)' => n + 1 < k + 1
    BY <1>2, <1>3, <2>2
  <2>5. QED
    BY <1>6, <2>2, <2>3, <2>4
<1>11. QED
  <2> HIDE DEF Creates, Dies, In
  <2>1. QED
    BY <1>1, <1>7, <1>8, <1>9, <1>10 DEF Posted

LEMMA PipeCreatedSettles ==
  ASSUME Inv, Settling, PipeCreated
  PROVE  Settling'
<1> DEFINE i == Head(pipeq).id
           p == obj[i].addr
           k == m.byAddr[p]
<1>1. /\ pipeq # <<>> /\ Head(pipeq).op = "created" /\ pipeq' = Tail(pipeq)
      /\ m' = Create(m, i)
      /\ UNCHANGED game /\ etwq' = etwq
  BY DEF PipeCreated, Create, Unset
<1>2. TypesOK /\ Game /\ Feed /\ Agree(m) /\ Lifetimes /\ Posted /\ Buried(m) /\ Owned(m)
      /\ (Fair => Present(m) /\ Found(m))
  BY DEF Inv, Settling
<1>3. Head(pipeq) \in Messages /\ Head(pipeq) = pipeq[1] /\ 1 \in DOMAIN pipeq
  BY <1>1, <1>2, TailOf DEF TypesOK
<1>4. i \in Ids /\ Creates(1, i) /\ (\A j : Creates(1, j) => j = i) /\ \A j : ~Dies(1, j)
  BY <1>1, <1>3 DEF Messages, Creates, Dies
<1> HIDE DEF i
<1>5. Begun(i) /\ ~In(m, i) /\ \A c \in Ids : ChildOf(c, i) => ~In(m, c)
  BY <1>2, <1>3, <1>4 DEF Feed, Begun, In
<1>6. p \in plan.addrs /\ m \in Models
  BY <1>2, <1>4, <1>5 DEF Game, Agree
<1>7. PICK R : R = Create(m, i)
  OBVIOUS
<1>8. Arrives(m, R, i)
  BY <1>2, <1>4, <1>5, <1>7, CreateAgrees
<1> HIDE DEF p, k
<1>9. PICK N :
        /\ Agree(N)
        /\ N.dead = m.dead /\ N.alias = m.alias /\ N.byAddr = m.byAddr /\ N.etw = m.etw
        /\ N.ptr = [m.ptr EXCEPT ![p] = i]
        /\ In(N, i) /\ N.live[i].key = 0
        /\ N.live[i].prev = IF m.dead[p] = <<>> THEN 0 ELSE Last(m.dead[p]).destroyed
        /\ \A j \in Ids : j # i => N.live[j] = m.live[j]
        /\ \/ R = N
           \/ k \in Libs /\ KnownIn(N, k) /\ CanBind(N, k, i) /\ Rebinds(N, R, k, i)
  BY <1>8 DEF Arrives, p, k
<1>10. \A j \in Ids : In(N, j) <=> In(m, j) \/ j = i
  BY <1>9 DEF In
<1>11. Owned(N)
  BY <1>2, <1>9, <1>10 DEF Owned
<1>12. SameEntries(N, R) /\ SamePlaces(N, R) /\ Owned(R)
  <2>1. CASE R = N
    BY <1>11, <2>1, SameRefl
  <2>2. CASE k \in Libs /\ KnownIn(N, k) /\ Rebinds(N, R, k, i)
    BY <1>2, <1>4, <1>9, <1>11, <2>2, RebindsFacts, RebindsOwned
  <2>3. QED
    BY <1>9, <2>1, <2>2
<1>13. SameEntries(m, R)
  BY <1>9, <1>12 DEF SameEntries, KnownIn
<1>14. Buried(R)
  BY <1>2, <1>9, <1>12 DEF Buried, SamePlaces
<1>15. \A j \in Ids : In(R, j) <=> In(m, j) \/ j = i
  BY <1>10, <1>12 DEF SamePlaces, SameLive
<1>16. Posted'
  <2>1. \A j \in Ids : In(m, j)' <=> In(m, j) \/ j = i
    BY <1>1, <1>7, <1>15 DEF In
  <2>2. QED
    BY <1>1, <1>2, <1>4, <2>1, PostedDrained
<1>17. ASSUME Fair PROVE Present(R)
  <2> SUFFICES ASSUME NEW j \in Ids, obj[j].phase = "sent", In(R, j)
               PROVE  R.ptr[obj[j].addr] = j /\ R.live[j].prev <= obj[j].made + Slack
    BY DEF Present
  <2>1. m.ptr \in [plan.addrs -> {0} \union Ids]
    BY <1>2, <1>6, Fields
  <2>2. R.ptr = [m.ptr EXCEPT ![p] = i] /\ R.live[j].prev = N.live[j].prev
    BY <1>9, <1>10, <1>12, <1>15 DEF SamePlaces, SameLive
  <2>3. CASE j = i
    <3>1. R.ptr[obj[j].addr] = j
      BY <1>6, <2>1, <2>2, <2>3 DEF p
    <3>2. obj[i].made \in Nat /\ Slack \in Nat
      BY <1>2, <1>4, ObjectFacts
    <3>3. CASE m.dead[p] = <<>>
      BY <1>9, <2>2, <2>3, <3>1, <3>2, <3>3
    <3>4. CASE m.dead[p] # <<>>
      <4>1. m.dead[p] \in Seq(Tombs)
        BY <1>2, <1>6, Fields
      <4>2. Len(m.dead[p]) \in DOMAIN m.dead[p] /\ Last(m.dead[p]) = m.dead[p][Len(m.dead[p])]
        BY <3>4, <4>1 DEF Last
      <4>3. PICK d \in Ids : /\ obj[d].phase = "gone" /\ obj[d].addr = p
                             /\ obj[d].died = Last(m.dead[p]).destroyed
        BY <1>2, <1>6, <4>2 DEF Buried
      <4>4. d # i /\ Begun(d) /\ obj[d].addr = obj[i].addr /\ obj[i].freed = 0
        BY <1>2, <1>4, <2>3, <4>3 DEF Begun, Lifetimes, p
      <4>5. Apart(d, i)
        BY <1>2, <1>4, <1>5, <4>4 DEF Lifetimes, Apart
      <4>6. obj[d].freed # 0 /\ obj[i].made > obj[d].freed
        <5>1. obj[d].freed \in Nat
          BY <1>2, ObjectFacts
        <5>2. QED
          BY <3>2, <4>5, <5>1 DEF Apart
      <4>7. obj[d].died <= obj[i].made + Slack
        BY <1>4, <1>17, <4>4, <4>6 DEF Fair, Punctual
      <4>8. QED
        BY <1>9, <2>2, <2>3, <3>1, <3>4, <4>3, <4>7
    <3>5. QED
      BY <3>3, <3>4
  <2>4. CASE j # i
    <3>1. In(m, j) /\ N.live[j] = m.live[j]
      BY <1>9, <1>15, <2>4
    <3>2. m.ptr[obj[j].addr] = j /\ m.live[j].prev <= obj[j].made + Slack
      BY <1>2, <1>17, <3>1 DEF Present
    <3>3. obj[j].addr # p /\ obj[j].addr \in plan.addrs
      <4>1. obj[j].addr \in plan.addrs
        BY <1>2 DEF Game, Begun
      <4>2. ASSUME obj[i].addr = obj[j].addr PROVE FALSE
        BY <1>2, <1>3, <1>4, <2>4, <3>1, <4>2 DEF Posted
      <4>3. QED
        BY <4>1, <4>2 DEF p
    <3>4. QED
      BY <2>1, <2>2, <3>1, <3>2, <3>3
  <2>5. QED
    BY <2>3, <2>4
<1>18. ASSUME Fair PROVE Found(R)
  <2> SUFFICES ASSUME NEW a \in Libs, KnownIn(R, a)
               PROVE  FoundBy(R, a)
    BY DEF Found
  <2>1. KnownIn(m, a) /\ SameFacts(m.etw[a], R.etw[a]) /\ FoundBy(m, a)
    BY <1>2, <1>13, <1>18 DEF SameEntries, Found
  <2>2. m.etw[a] \in EtwRecords /\ m.etw[a].obj \in Ids
    <3>1. m.etw[a] \in EtwRecords
      BY <1>2, <1>6, <2>1, Fields
    <3>2. QED
      BY <3>1 DEF EtwRecords
  <2>3. R.etw[a].orphan = m.etw[a].orphan \/ obj[m.etw[a].obj].phase # "sent"
    BY <1>9, <2>1 DEF Rebinds, SameFacts
  <2>4. R.etw[a].bound = m.etw[a].bound \/ a = k \/ obj[m.etw[a].obj].phase # "sent"
    <3>1. CASE R = N
      BY <1>9, <3>1
    <3>2. CASE Rebinds(N, R, k, i)
      <4>1. a # N.live[i].key
        BY <1>2, <1>9, Numbers
      <4>2. KnownIn(N, a)
        BY <1>9, <2>1 DEF KnownIn
      <4>3. QED
        BY <1>9, <3>2, <4>1, <4>2 DEF Rebinds
    <3>3. QED
      BY <1>9, <3>1, <3>2
  <2>5. ASSUME a = k, R # N, obj[m.etw[a].obj].phase = "sent" PROVE FALSE
    <3>1. m.etw[k].bound = 0 /\ k # 0
      BY <1>2, <1>9, <2>5, Numbers DEF CanBind
    <3>2. m.etw[k].address = p /\ p # NoAddr
      BY <1>2, <1>6, <3>1, Numbers DEF Agree, Indexes, Addresses, k
    <3>3. m.etw[k].bound = m.etw[k].obj /\ m.etw[k].obj # 0
      BY <1>2, <2>1, <2>2, <2>5, <3>2, Numbers DEF FoundBy
    <3>4. QED
      BY <3>1, <3>3
  <2>6. obj[m.etw[a].obj].phase = "sent" => R.etw[a].bound = m.etw[a].bound
    BY <1>9, <2>4, <2>5
  <2>7. R.etw[a].obj = m.etw[a].obj /\ R.etw[a].address = m.etw[a].address
    BY <2>1 DEF SameFacts
  <2>8. In(m, m.etw[a].obj) => In(R, m.etw[a].obj)
    BY <1>15, <2>2
  <2>9. QED
    BY <2>1, <2>3, <2>6, <2>7, <2>8 DEF FoundBy
<1>19. QED
  BY <1>1, <1>7, <1>12, <1>13, <1>14, <1>16, <1>17, <1>18, PipeSettles

\* The dead of an address stay its dead.
LEMMA RememberMembers ==
  ASSUME TypesOK, NEW s \in Seq(Tombs), NEW x \in Tombs, NEW n \in DOMAIN Remember(s, x)
  PROVE  Remember(s, x)[n] = x \/ \E k \in DOMAIN s : Remember(s, x)[n] = s[k]
<1>1. DeadCap \in Nat \ {0}
  BY JoinConstants
<1>2. CASE Len(s) >= DeadCap
  <2>1. s # <<>> /\ Remember(s, x) = Append(Tail(s), x)
    BY <1>1, <1>2 DEF Remember
  <2>2. /\ Tail(s) \in Seq(Tombs) /\ Len(Tail(s)) \in Nat
        /\ \A k \in 1 .. Len(Tail(s)) : k + 1 \in DOMAIN s /\ Tail(s)[k] = s[k + 1]
    BY <2>1
  <2>3. /\ n \in 1 .. Len(Tail(s)) + 1
        /\ Append(Tail(s), x)[Len(Tail(s)) + 1] = x
        /\ \A k \in 1 .. Len(Tail(s)) : Append(Tail(s), x)[k] = Tail(s)[k]
    BY <2>1, <2>2
  <2>4. QED
    BY <2>1, <2>2, <2>3
<1>3. CASE ~(Len(s) >= DeadCap)
  BY <1>3 DEF Remember
<1>4. QED
  BY <1>2, <1>3

LEMMA PipeDestroyedSettles ==
  ASSUME Inv, Settling, PipeDestroyed
  PROVE  Settling'
<1> DEFINE i == Head(pipeq).id
           ts == Head(pipeq).ts
           p == obj[i].addr
<1>1. /\ pipeq # <<>> /\ Head(pipeq).op = "destroyed" /\ pipeq' = Tail(pipeq)
      /\ m' = IF m.live[i] = NoObj THEN m ELSE Destroy(m, i, ts)
      /\ UNCHANGED game /\ etwq' = etwq
  BY DEF PipeDestroyed, Destroy
<1>2. TypesOK /\ Game /\ Agree(m) /\ Lifetimes /\ Posted /\ Buried(m) /\ Owned(m)
      /\ (Fair => Present(m) /\ Found(m))
  BY DEF Inv, Settling
<1>3. Head(pipeq) \in Messages /\ Head(pipeq) = pipeq[1] /\ 1 \in DOMAIN pipeq
  BY <1>1, <1>2, TailOf DEF TypesOK
<1>4. /\ i \in Ids /\ ts \in Stamps /\ Dies(1, i)
      /\ (\A j : Dies(1, j) => j = i) /\ \A j : ~Creates(1, j)
  BY <1>1, <1>3 DEF Messages, Creates, Dies
<1>5. obj[i].phase = "gone" /\ obj[i].died = ts
  BY <1>2, <1>3, <1>4 DEF Posted
<1>6. p \in plan.addrs /\ m \in Models
  BY <1>2, <1>4, <1>5 DEF Game, Agree, Begun
<1> HIDE DEF i, ts
<1>7. ASSUME NEW R, m' = R, \A j \in Ids : In(R, j) <=> In(m, j) /\ j # i
      PROVE  Posted'
  <2>1. \A j \in Ids : In(m, j)' <=> In(m, j) /\ j # i
    BY <1>7 DEF In
  <2>2. QED
    BY <1>1, <1>2, <1>4, <2>1, PostedDrained
<1>8. CASE m.live[i] = NoObj
  <2>1. m' = m /\ Posted'
    BY <1>1, <1>7, <1>8 DEF In
  <2>2. QED
    BY <1>1, <1>2, <2>1, SameRefl, PipeSettles
<1>9. CASE m.live[i] # NoObj
  <2>1. PICK R : R = Destroy(m, i, ts)
    OBVIOUS
  <2>2. m' = R /\ In(m, i)
    BY <1>1, <1>9, <2>1 DEF In
  <2>3. Departs(m, R, i, ts)
    BY <1>2, <1>4, <2>1, <2>2, DestroyAgrees
  <2>4. Owned(R)
    BY <1>2, <1>4, <2>3, DepartsOwned
  <2>5. \A j \in Ids : In(R, j) <=> In(m, j) /\ j # i
    BY <2>3 DEF Departs
  <2>6. Posted'
    BY <1>7, <2>2, <2>5
  <2>7. SameEntries(m, R)
    BY <2>3 DEF Departs, SameEntries
  <2>8. Buried(R)
    <3> DEFINE x == [type |-> TypeOf(i), prev |-> m.live[i].prev, destroyed |-> ts]
    <3>1. R.dead = [m.dead EXCEPT ![p] = Remember(@, x)]
      BY <2>3 DEF Departs
    <3>2. m.dead \in [plan.addrs -> Seq(Tombs)] /\ m.live[i] \in LiveRecords
      BY <1>2, <1>4, <1>6, <2>2, Fields
    <3>3. x \in Tombs
      <4>1. TypeOf(i) \in Types
        BY DEF TypeOf, Types
      <4>2. m.live[i].prev \in Stamps
        BY <3>2 DEF LiveRecords
      <4>3. QED
        BY <1>4, <4>1, <4>2 DEF Tombs
    <3>4. x.destroyed = ts
      OBVIOUS
    <3> HIDE DEF x, p
    <3>5. R.dead[p] = Remember(m.dead[p], x) /\ m.dead[p] \in Seq(Tombs)
          /\ \A q \in plan.addrs : q # p => R.dead[q] = m.dead[q]
      BY <1>6, <3>1, <3>2
    <3> SUFFICES ASSUME NEW q \in plan.addrs, NEW n \in DOMAIN R.dead[q]
                 PROVE  \E d \in Ids : /\ obj[d].phase = "gone" /\ obj[d].addr = q
                                       /\ obj[d].died = R.dead[q][n].destroyed
      BY DEF Buried
    <3>6. CASE q # p
      BY <1>2, <3>5, <3>6 DEF Buried
    <3>7. CASE q = p
      <4>1. R.dead[p][n] = x \/ \E k \in DOMAIN m.dead[p] : R.dead[p][n] = m.dead[p][k]
        BY <1>2, <3>3, <3>5, <3>7, RememberMembers
      <4>2. CASE R.dead[p][n] = x
        BY <1>4, <1>5, <3>4, <3>7, <4>2 DEF p
      <4>3. CASE \E k \in DOMAIN m.dead[p] : R.dead[p][n] = m.dead[p][k]
        BY <1>2, <1>6, <3>7, <4>3 DEF Buried
      <4>4. QED
        BY <4>1, <4>2, <4>3
    <3>8. QED
      BY <3>6, <3>7
  <2>9. ASSUME Fair PROVE Present(R)
    <3> SUFFICES ASSUME NEW j \in Ids, obj[j].phase = "sent", In(R, j)
                 PROVE  R.ptr[obj[j].addr] = j /\ R.live[j].prev <= obj[j].made + Slack
      BY DEF Present
    <3>1. /\ m.ptr[obj[j].addr] = j /\ m.live[j].prev <= obj[j].made + Slack /\ j # i
          /\ obj[j].addr \in plan.addrs
      BY <1>2, <2>5, <2>9 DEF Present, Game, Begun
    <3>2. QED
      BY <2>3, <3>1 DEF Departs
  <2>10. ASSUME Fair PROVE Found(R)
    <3> SUFFICES ASSUME NEW a \in Libs, KnownIn(R, a)
                 PROVE  FoundBy(R, a)
      BY DEF Found
    <3>1. /\ KnownIn(m, a) /\ SameFacts(m.etw[a], R.etw[a]) /\ FoundBy(m, a)
          /\ m.etw[a].bound # i => R.etw[a] = m.etw[a]
      BY <1>2, <2>3, <2>10 DEF Departs, Found
    <3>2. m.etw[a].obj \in Ids
      <4>1. m.etw[a] \in EtwRecords
        BY <1>2, <1>6, <3>1, Fields
      <4>2. QED
        BY <4>1 DEF EtwRecords
    <3>3. R.etw[a].obj = m.etw[a].obj
      BY <3>1 DEF SameFacts
    <3>4. ASSUME obj[m.etw[a].obj].phase = "sent"
          PROVE  In(R, m.etw[a].obj) /\ R.etw[a] = m.etw[a]
      <4>1. In(R, m.etw[a].obj) /\ m.etw[a].obj # i
        BY <1>5, <2>5, <3>1, <3>2, <3>4 DEF FoundBy
      <4>2. m.etw[a].bound # i
        <5>1. CASE m.etw[a].address = NoAddr
          <6>1. m.etw[a].bound = 0
            BY <1>2, <3>1, <5>1 DEF Agree, Indexes, Aliases
          <6>2. QED
            BY <1>2, <1>4, <6>1, Numbers
        <5>2. CASE m.etw[a].address # NoAddr
          BY <3>1, <3>4, <4>1, <5>2 DEF FoundBy
        <5>3. QED
          BY <5>1, <5>2
      <4>3. QED
        BY <3>1, <4>1, <4>2
    <3>5. QED
      BY <3>1, <3>3, <3>4 DEF FoundBy
  <2>11. QED
    BY <1>1, <2>2, <2>4, <2>6, <2>7, <2>8, <2>9, <2>10, PipeSettles
<1>10. QED
  BY <1>8, <1>9

\* The messages and the objects are what they were.
LEMMA PostedSame ==
  ASSUME Posted, UNCHANGED game, pipeq' = pipeq, NEW R, m' = R, SameLive(m, R)
  PROVE  Posted'
<1>1. Ids' = Ids /\ obj' = obj
  BY GameSame
<1>2. \A n, i : (Creates(n, i)' <=> Creates(n, i)) /\ (Dies(n, i)' <=> Dies(n, i))
  BY DEF Creates, Dies
<1>3. \A j \in Ids : In(m, j)' <=> In(m, j)
  BY DEF SameLive, In
<1> HIDE DEF Creates, Dies, In
<1>4. QED
  BY <1>1, <1>2, <1>3 DEF Posted

LEMMA RecentMembers ==
  ASSUME TypesOK, NEW s \in Seq(Tombs), NEW n \in DOMAIN Recent(s)
  PROVE  \E k \in DOMAIN s : Recent(s)[n] = s[k]
<1> DEFINE keep == {k \in DOMAIN s : s[k].destroyed + History >= now}
<1>1. CASE keep = {}
  BY <1>1 DEF Recent
<1>2. CASE keep # {}
  <2>1. keep \in SUBSET Nat /\ keep \subseteq 1 .. Len(s) /\ Len(s) \in Nat
    OBVIOUS
  <2> DEFINE a == Min(keep)
  <2>2. Recent(s) = SubSeq(s, a, Len(s))
    BY <1>2 DEF Recent
  <2> HIDE DEF keep
  <2>3. PICK k \in keep : \A l \in keep : k <= l
    BY <1>2, <2>1, LeastNat
  <2>4. a \in keep
    BY <2>3 DEF Min
  <2>5. a \in 1 .. Len(s)
    BY <2>1, <2>4
  <2> HIDE DEF a
  <2>6. n \in 1 .. Len(s) - a + 1 /\ Recent(s)[n] = s[a + n - 1]
    BY <2>1, <2>2, <2>5
  <2>7. a + n - 1 \in DOMAIN s
    BY <2>1, <2>5, <2>6
  <2>8. QED
    BY <2>6, <2>7
<1>3. QED
  BY <1>1, <1>2

LEMMA ForgetDeadSettles ==
  ASSUME Inv, Settling, ForgetDead
  PROVE  Settling'
<1> DEFINE gone == [p \in plan.addrs |-> Recent(m.dead[p])]
           R == [m EXCEPT !.dead = gone]
<1>1. m' = R /\ UNCHANGED game /\ pipeq' = pipeq /\ etwq' = etwq
  BY DEF ForgetDead, feeds
<1>2. /\ TypesOK /\ m \in Models /\ Posted /\ Buried(m) /\ Owned(m)
      /\ (Fair => Present(m) /\ Found(m))
  BY DEF Inv, Agree, Settling
<1>3. m.dead \in [plan.addrs -> Seq(Tombs)]
  BY <1>2, Fields
<1>4. \A p \in plan.addrs : \A n \in DOMAIN gone[p] : \E k \in DOMAIN m.dead[p] :
        gone[p][n] = m.dead[p][k]
  BY <1>2, <1>3, RecentMembers
<1> HIDE DEF gone
<1>5. /\ R.live = m.live /\ R.ptr = m.ptr /\ R.etw = m.etw /\ R.alias = m.alias
      /\ R.byAddr = m.byAddr /\ R.dead = gone
  BY <1>2 DEF Models
<1> HIDE DEF R
<1>6. SameEntries(m, R) /\ SameLive(m, R) /\ \A j : In(R, j) <=> In(m, j)
  BY <1>5 DEF SameEntries, SameFacts, SameLive, In, KnownIn
<1>7. Owned(R)
  BY <1>2, <1>5, <1>6 DEF Owned
<1>8. Buried(R)
  <2> SUFFICES ASSUME NEW p \in plan.addrs, NEW n \in DOMAIN R.dead[p]
               PROVE  \E i \in Ids : /\ obj[i].phase = "gone" /\ obj[i].addr = p
                                     /\ obj[i].died = R.dead[p][n].destroyed
    BY DEF Buried
  <2>1. PICK k \in DOMAIN m.dead[p] : R.dead[p][n] = m.dead[p][k]
    BY <1>4, <1>5
  <2>2. QED
    BY <1>2, <2>1 DEF Buried
<1>9. Posted'
  BY <1>1, <1>2, <1>6, PostedSame
<1>10. Fair => Present(R) /\ Found(R)
  BY <1>2, <1>5, <1>6 DEF Present, Found, FoundBy, KnownIn
<1>11. QED
  BY <1>1, <1>6, <1>7, <1>8, <1>9, <1>10, PipeSettles

LEMMA StillSettles ==
  ASSUME Inv, Settling, UNCHANGED game, m' = m, pipeq' = pipeq, etwq' = etwq
  PROVE  Settling'
<1>1. Posted /\ Buried(m) /\ Owned(m) /\ (Fair => Present(m) /\ Found(m))
  BY DEF Settling
<1>2. SameEntries(m, m) /\ SameLive(m, m)
  BY SameRefl DEF SamePlaces
<1>3. Posted'
  BY <1>1, <1>2, PostedSame
<1>4. QED
  BY <1>1, <1>2, <1>3, PipeSettles

\* Of a game that has exited, or whose records are no longer all there, only the
\* parts that do not depend on it are kept.
LEMMA LostSettles ==
  ASSUME Inv, Settling, UNCHANGED <<plan, obj, nlib, pipeq, m>>, left'.lost <= plan.lost, ~Whole'
  PROVE  Settling'
<1>1. Ids' = Ids /\ Libs' = Libs /\ obj' = obj /\ plan' = plan /\ m' = m
  BY DEF Ids, Libs
<1>2. \A i : (Begun(i)' <=> Begun(i)) /\ (HasMemory(i)' <=> HasMemory(i)) /\ (Hooked(i)' <=> Hooked(i))
  BY DEF Begun, HasMemory, Hooked
<1>3. Lifetimes'
  <2>1. \A i, j : Apart(i, j)' <=> Apart(i, j)
    BY DEF Apart
  <2>2. Lifetimes
    BY DEF Settling
  <2>3. QED
    BY <1>1, <1>2, <2>1, <2>2 DEF Lifetimes
<1>4. Posted'
  <2>1. \A n, i : (Creates(n, i)' <=> Creates(n, i)) /\ (Dies(n, i)' <=> Dies(n, i))
    BY DEF Creates, Dies
  <2>2. \A j \in Ids : In(m, j)' <=> In(m, j)
    BY DEF In
  <2>3. Posted
    BY DEF Settling
  <2> HIDE DEF Creates, Dies, In
  <2>4. QED
    BY <1>1, <2>1, <2>2, <2>3 DEF Posted
<1>5. Buried(m)' /\ Owned(m)'
  <2>1. Buried(m) /\ Owned(m)
    BY DEF Settling
  <2>2. QED
    BY <1>1, <2>1 DEF Buried, Owned, In
<1>6. left'.lost <= plan'.lost
  BY <1>1
<1>7. QED
  BY <1>3, <1>4, <1>5, <1>6 DEF Settling, Fair

LEMMA EtwLoseSettles ==
  ASSUME Inv, Settling, EtwLose
  PROVE  Settling'
<1>1. /\ left' = [left EXCEPT !.lost = @ - 1] /\ left.lost > 0
      /\ UNCHANGED <<plan, obj, nlib, pipeq, m>>
  BY DEF EtwLose
<1>2. left \in Plan /\ plan \in Plan /\ left.lost <= plan.lost
  BY Numbers DEF Inv, TypesOK, Settling
<1>3. left.lost \in Nat /\ plan.lost \in Nat /\ left'.lost = left.lost - 1
  BY <1>1, <1>2 DEF Plan
<1>4. left'.lost <= plan.lost /\ left'.lost # plan.lost
  BY <1>2, <1>3
<1>5. ~Whole'
  BY <1>1, <1>4 DEF Whole
<1>6. QED
  BY <1>1, <1>4, <1>5, LostSettles

LEMMA ChildExitSettles ==
  ASSUME Inv, Settling, ChildExit
  PROVE  Settling'
<1>1. /\ left' = [left EXCEPT !.exits = 0] /\ exitAt' = now + 1
      /\ UNCHANGED <<plan, obj, nlib, pipeq, m>>
  BY DEF ChildExit, feeds
<1>2. left \in Plan /\ now \in Nat /\ left.lost <= plan.lost
  BY DEF Inv, TypesOK, Settling
<1>3. left'.lost = left.lost
  BY <1>1, <1>2 DEF Plan
<1>4. ~Whole'
  BY <1>1, <1>2 DEF Whole, Running
<1>5. QED
  BY <1>1, <1>2, <1>3, <1>4, LostSettles

-----------------------------------------------------------------------------
(* The steps of the game.                                                  *)

\* What a step about i leaves as it is.
Onward(i) ==
  /\ plan' = plan /\ behind' = behind /\ exitAt' = exitAt /\ m' = m
  /\ left'.lost = left.lost
  /\ \A j \in Ids : j # i => obj'[j] = obj[j]
  /\ obj'[i].phase # "new"
  /\ Begun(i) => obj'[i].addr = obj[i].addr /\ obj'[i].made = obj[i].made
  /\ obj[i].freed # 0 => obj'[i].freed = obj[i].freed
  /\ obj'[i].died = obj[i].died \/ (obj[i].died = 0 /\ obj[i].phase # "gone")
  /\ obj[i].phase = "gone" => obj'[i].phase = "gone"
  /\ obj'[i].phase = "sent" => obj[i].phase = "sent" \/ (obj[i].phase = "made" /\ Hooked(i))
  /\ obj'[i].phase = "made" => obj[i].phase \in {"new", "made"}

LEMMA OnwardSame ==
  ASSUME TypesOK, NEW i \in Ids, Onward(i)
  PROVE  /\ Ids' = Ids /\ Libs' = Libs /\ plan' = plan /\ m' = m
         /\ \A j : TypeOf(j)' = TypeOf(j) /\ (HasMemory(j)' <=> HasMemory(j))
                   /\ (Hooked(j)' <=> Hooked(j)) /\ (In(m, j)' <=> In(m, j))
                   /\ (KnownIn(m, j)' <=> KnownIn(m, j))
         /\ \A j \in Ids : Begun(j) =>
              /\ Begun(j)' /\ obj'[j].addr = obj[j].addr /\ obj'[j].made = obj[j].made
         /\ \A j \in Ids :
              /\ j # i => obj'[j] = obj[j]
              /\ obj[j].phase = "gone" =>
                   obj'[j].phase = "gone" /\ obj'[j].died = obj[j].died
              /\ obj[j].freed # 0 => obj'[j].freed = obj[j].freed
              /\ obj'[j].phase = "sent" =>
                   obj[j].phase = "sent" \/ (obj[j].phase = "made" /\ Hooked(j))
              /\ obj'[j].phase = "made" => obj[j].phase \in {"new", "made"}
         /\ Whole' <=> Whole
<1>1. Ids' = Ids /\ Libs' = Libs
  BY DEF Onward, Ids, Libs
<1>2. \A j : TypeOf(j)' = TypeOf(j) /\ (HasMemory(j)' <=> HasMemory(j))
             /\ (Hooked(j)' <=> Hooked(j)) /\ (In(m, j)' <=> In(m, j))
             /\ (KnownIn(m, j)' <=> KnownIn(m, j))
  BY DEF Onward, TypeOf, HasMemory, Hooked, In, KnownIn
<1>3. Whole' <=> Whole
  BY DEF Onward, Whole, Running
<1>4. \A j \in Ids : Begun(j) =>
        /\ Begun(j)' /\ obj'[j].addr = obj[j].addr /\ obj'[j].made = obj[j].made
  BY DEF Onward, Begun
<1>5. QED
  BY <1>1, <1>2, <1>3, <1>4 DEF Onward

\* No death becomes later.
LEMMA OnwardPunctual ==
  ASSUME TypesOK, Game, Lifetimes, NEW i \in Ids, Onward(i), Fair'
  PROVE  Fair
<1>1. behind /\ Whole /\ Punctual' /\ Ids' = Ids
  BY OnwardSame DEF Fair, Onward
<1>2. Punctual
  <2> SUFFICES ASSUME NEW a \in Ids, NEW b \in Ids,
                      obj[a].addr = obj[b].addr, obj[a].freed # 0, obj[b].made > obj[a].freed
               PROVE  obj[a].died <= obj[b].made + Slack
    BY DEF Punctual
  <2>1. /\ obj[a].made \in Nat /\ obj[a].freed \in Nat /\ obj[a].died \in Nat
        /\ obj[b].made \in Nat /\ Slack \in Nat
    BY ObjectFacts
  <2>2. Begun(a) /\ Begun(b)
    <3>1. Begun(b)
      BY <2>1 DEF Game
    <3>2. Begun(a)
      BY DEF Lifetimes, Begun
    <3>3. QED
      BY <3>1, <3>2
  <2>3. /\ obj'[a].addr = obj[a].addr /\ obj'[b].addr = obj[b].addr
        /\ obj'[b].made = obj[b].made /\ obj'[a].freed = obj[a].freed
    BY <2>2, OnwardSame
  <2>4. obj'[a].died <= obj[b].made + Slack
    BY <1>1, <2>3 DEF Punctual
  <2>5. obj'[a].died = obj[a].died \/ obj[a].died = 0
    BY DEF Onward
  <2>6. QED
    BY <2>1, <2>4, <2>5
<1>3. QED
  BY <1>1, <1>2 DEF Fair

LEMMA GameSettles ==
  ASSUME Inv, Settling, NEW i \in Ids, Onward(i), Lifetimes', Posted', Whole => Chain'
  PROVE  Settling'
<1>1. /\ TypesOK /\ Game /\ Feed /\ Lifetimes /\ Buried(m) /\ Owned(m) /\ m \in Models
      /\ left.lost <= plan.lost
  BY DEF Inv, Settling, Agree
<1>2. /\ Ids' = Ids /\ Libs' = Libs /\ plan' = plan /\ m' = m /\ (Whole' <=> Whole)
      /\ \A j : (Hooked(j)' <=> Hooked(j)) /\ (In(m, j)' <=> In(m, j))
                /\ (KnownIn(m, j)' <=> KnownIn(m, j))
  BY <1>1, OnwardSame
<1>3. \A j \in Ids :
        /\ Begun(j) => obj'[j].addr = obj[j].addr /\ obj'[j].made = obj[j].made
        /\ obj[j].phase = "gone" => obj'[j].phase = "gone" /\ obj'[j].died = obj[j].died
        /\ obj'[j].phase = "sent" =>
             obj[j].phase = "sent" \/ (obj[j].phase = "made" /\ Hooked(j))
        /\ obj'[j].phase = "made" => obj[j].phase \in {"new", "made"}
  BY <1>1, OnwardSame
<1>4. Buried(m)'
  <2> SUFFICES ASSUME NEW p \in plan.addrs, NEW n \in DOMAIN m.dead[p]
               PROVE  \E j \in Ids : /\ obj'[j].phase = "gone" /\ obj'[j].addr = p
                                     /\ obj'[j].died = m.dead[p][n].destroyed
    BY <1>2 DEF Buried
  <2>1. PICK j \in Ids : /\ obj[j].phase = "gone" /\ obj[j].addr = p
                         /\ obj[j].died = m.dead[p][n].destroyed
    BY <1>1 DEF Buried
  <2>2. QED
    BY <1>3, <2>1 DEF Begun
<1>5. Owned(m)'
  BY <1>1, <1>2 DEF Owned
<1>6. ASSUME Fair' PROVE Present(m)' /\ Found(m)'
  <2>1. Fair /\ Whole
    BY <1>1, <1>6, OnwardPunctual DEF Fair
  <2>2. Present(m) /\ Found(m) /\ Entries(Pending, m)
    BY <2>1 DEF Settling, Chain
  <2>3. Present(m)'
    <3> SUFFICES ASSUME NEW j \in Ids, obj'[j].phase = "sent", In(m, j)
                 PROVE  m.ptr[obj'[j].addr] = j /\ m.live[j].prev <= obj'[j].made + Slack
      BY <1>2 DEF Present
    <3>1. obj[j].phase = "sent"
      BY <1>1, <1>3 DEF Feed, In
    <3>2. QED
      BY <1>3, <2>2, <3>1 DEF Present, Begun
  <2>4. Found(m)'
    <3> SUFFICES ASSUME NEW k \in Libs, KnownIn(m, k)
                 PROVE  FoundBy(m, k)'
      BY <1>2 DEF Found
    <3> DEFINE j == m.etw[k].obj
    <3>1. FoundBy(m, k) /\ Tracked(Pending, j)
      BY <2>2 DEF Found, Entries, EntryOk
    <3>2. j \in Ids
      <4>1. m.etw[k] \in EtwRecords
        BY <1>1, Fields
      <4>2. QED
        BY <4>1 DEF EtwRecords
    <3>3. Begun(j)
      BY <3>1 DEF Tracked
    <3> HIDE DEF j
    <3>4. Hooked(j) => obj'[j].phase # "made"
      BY <1>3, <3>1, <3>2, <3>3 DEF FoundBy, Begun, j
    <3>5. obj'[j].phase = "sent" => obj[j].phase = "sent"
      BY <1>3, <3>1, <3>2 DEF FoundBy, j
    <3>6. QED
      BY <1>2, <3>1, <3>4, <3>5 DEF FoundBy, j
  <2>5. QED
    BY <2>3, <2>4
<1>7. left'.lost <= plan'.lost
  BY <1>1 DEF Onward
<1>8. QED
  BY <1>2, <1>4, <1>5, <1>6, <1>7 DEF Settling

\* What has to be shown of the object of the step alone.
LifeOf(i) ==
  /\ Begun(i) =>
       /\ obj[i].libs # {}
       /\ obj[i].freed # 0 => obj[i].made < obj[i].freed
       /\ obj[i].group = "Unknown" <=> ~HasMemory(i)
  /\ obj[i].libs \subseteq 1 .. nlib
  /\ obj[i].phase = "new" => obj[i].libs = {} /\ obj[i].freed = 0
  /\ obj[i].phase = "sent" => obj[i].freed = 0
  /\ obj[i].phase = "made" /\ Hooked(i) => obj[i].freed = 0
  /\ obj[i].phase # "gone" => obj[i].died = 0
  /\ obj[i].phase \in {"sent", "dying", "gone"} => Hooked(i)

LEMMA LifetimesKept ==
  ASSUME TypesOK, Lifetimes, NEW i \in Ids, Onward(i), Begun(i) , LifeOf(i)', nlib' \in Nat,
         \/ obj'[i].libs = obj[i].libs /\ nlib' = nlib
         \/ obj'[i].libs = obj[i].libs \union {nlib + 1} /\ nlib' = nlib + 1
  PROVE  Lifetimes'
<1>1. /\ Ids' = Ids /\ \A j \in Ids : j # i => obj'[j] = obj[j]
      /\ \A j : (HasMemory(j)' <=> HasMemory(j)) /\ (Hooked(j)' <=> Hooked(j))
  BY OnwardSame
<1>2. nlib \in Nat /\ \A j \in Ids : obj[j].libs \subseteq 1 .. nlib
  BY DEF Lifetimes, TypesOK
<1>3. \A j \in Ids : LifeOf(j)'
  <2> SUFFICES ASSUME NEW j \in Ids, j # i PROVE LifeOf(j)'
    OBVIOUS
  <2>1. LifeOf(j)
    BY DEF Lifetimes, LifeOf
  <2>2. 1 .. nlib \subseteq 1 .. nlib'
    BY <1>2
  <2>3. obj'[j] = obj[j]
    BY <1>1
  <2>4. QED
    BY <1>1, <2>1, <2>2, <2>3 DEF LifeOf, Begun
<1>4. \A a, b \in Ids : a # b => obj'[a].libs \intersect obj'[b].libs = {}
  <2>1. nlib + 1 \notin 1 .. nlib
    BY <1>2
  <2>2. \A a \in Ids : a # i => obj'[a].libs = obj[a].libs
    BY <1>1
  <2>3. \A a, b \in Ids : a # b => obj[a].libs \intersect obj[b].libs = {}
    BY DEF Lifetimes
  <2>4. \A a \in Ids : nlib + 1 \notin obj[a].libs
    BY <1>2, <2>1
  <2>5. QED
    BY <2>2, <2>3, <2>4
<1>5. \A a, b \in Ids : a # b /\ Begun(a)' /\ Begun(b)' /\ obj'[a].addr = obj'[b].addr =>
        Apart(a, b)' \/ Apart(b, a)'
  <2> SUFFICES ASSUME NEW a \in Ids, NEW b \in Ids, a # b, Begun(a)', Begun(b)',
                      obj'[a].addr = obj'[b].addr
               PROVE  Apart(a, b)' \/ Apart(b, a)'
    OBVIOUS
  <2>1. Begun(a) /\ Begun(b)
    BY <1>1 DEF Begun
  <2>2. /\ obj'[a].addr = obj[a].addr /\ obj'[a].made = obj[a].made
        /\ obj'[b].addr = obj[b].addr /\ obj'[b].made = obj[b].made
        /\ obj[a].freed # 0 => obj'[a].freed = obj[a].freed
        /\ obj[b].freed # 0 => obj'[b].freed = obj[b].freed
    BY <2>1, OnwardSame
  <2>3. Apart(a, b) \/ Apart(b, a)
    BY <2>1, <2>2 DEF Lifetimes
  <2>4. QED
    BY <2>2, <2>3 DEF Apart
<1>6. QED
  BY <1>1, <1>3, <1>4, <1>5 DEF Lifetimes, LifeOf

\* No message is written, or the first one about i.
LEMMA PostedKept ==
  ASSUME TypesOK, Feed, Posted, NEW i \in Ids, Onward(i), pipeq' = pipeq,
         obj'[i].phase = "sent" => obj[i].phase = "sent",
         obj'[i].phase = "gone" => obj[i].phase = "gone"
  PROVE  Posted'
<1>1. /\ Ids' = Ids /\ \A j : In(m, j)' <=> In(m, j)
      /\ \A j \in Ids :
           /\ Begun(j) => obj'[j].addr = obj[j].addr
           /\ j # i => obj'[j] = obj[j]
           /\ obj[j].phase = "gone" => obj'[j].phase = "gone" /\ obj'[j].died = obj[j].died
  BY OnwardSame
<1>2. \A n, j : (Creates(n, j)' <=> Creates(n, j)) /\ (Dies(n, j)' <=> Dies(n, j))
  BY DEF Creates, Dies
<1>3. \A n \in DOMAIN pipeq, j \in Ids : Creates(n, j) => Begun(j)
  BY DEF Feed, Begun
<1>4. \A j \in Ids : /\ obj'[j].phase = "sent" => obj[j].phase = "sent" /\ Begun(j)
                     /\ obj'[j].phase = "gone" => obj[j].phase = "gone"
  BY <1>1 DEF Begun
<1>5. Posted
  OBVIOUS
<1> HIDE DEF Creates, Dies, In
<1>6. QED
  BY <1>1, <1>2, <1>3, <1>4, <1>5 DEF Posted

\* A message about i is written behind the others.
Writes(op, i, ts) == pipeq' = Append(pipeq, [op |-> op, id |-> i, ts |-> ts])
LEMMA NewMessage ==
  ASSUME TypesOK, NEW op, NEW i, NEW ts, Writes(op, i, ts), NEW z, z = Len(pipeq) + 1
  PROVE  /\ DOMAIN pipeq \subseteq Nat /\ z \in DOMAIN pipeq'
         /\ \A n \in DOMAIN pipeq' : n \in DOMAIN pipeq \/ n = z
         /\ \A n \in DOMAIN pipeq : n \in DOMAIN pipeq' /\ n < z
                                    /\ pipeq'[n] = pipeq[n]
         /\ \A n \in DOMAIN pipeq : \A j : (Creates(n, j)' <=> Creates(n, j))
                                       /\ (Dies(n, j)' <=> Dies(n, j))
         /\ \A j : /\ Creates(z, j)' <=> op = "created" /\ j = i
                   /\ Dies(z, j)' <=> op = "destroyed" /\ j = i
         /\ pipeq'[z].ts = ts
<1> DEFINE x == [op |-> op, id |-> i, ts |-> ts]
<1>1. x.op = op /\ x.id = i /\ x.ts = ts /\ pipeq' = Append(pipeq, x)
  BY DEF Writes
<1> HIDE DEF x
<1>2. /\ Len(pipeq) \in Nat
      /\ DOMAIN pipeq' = 1 .. z /\ DOMAIN pipeq = 1 .. Len(pipeq)
      /\ \A n \in DOMAIN pipeq : pipeq'[n] = pipeq[n]
      /\ pipeq'[z] = x
  BY <1>1 DEF TypesOK
<1>3. \A n \in DOMAIN pipeq : \A j : (Creates(n, j)' <=> Creates(n, j)) /\ (Dies(n, j)' <=> Dies(n, j))
  BY <1>2 DEF Creates, Dies
<1>4. \A j : /\ Creates(z, j)' <=> op = "created" /\ j = i
             /\ Dies(z, j)' <=> op = "destroyed" /\ j = i
  BY <1>1, <1>2 DEF Creates, Dies
<1>5. QED
  BY <1>1, <1>2, <1>3, <1>4

LEMMA PostedCreated ==
  ASSUME TypesOK, Game, Feed, Posted, Lifetimes, NEW i \in Ids, Onward(i), NEW ts,
         Writes("created", i, ts),
         obj[i].phase = "made", Hooked(i), obj'[i].phase = "sent"
  PROVE  Posted'
<1>z. PICK z : z = Len(pipeq) + 1
  OBVIOUS
<1>1. /\ Ids' = Ids /\ \A j : In(m, j)' <=> In(m, j)
      /\ \A j \in Ids :
           /\ Begun(j) => obj'[j].addr = obj[j].addr
           /\ j # i => obj'[j] = obj[j]
           /\ obj[j].phase = "gone" => obj'[j].phase = "gone" /\ obj'[j].died = obj[j].died
  BY OnwardSame
<1>2. /\ DOMAIN pipeq \subseteq Nat /\ z \in DOMAIN pipeq'
      /\ \A n \in DOMAIN pipeq' : n \in DOMAIN pipeq \/ n = z
      /\ \A n \in DOMAIN pipeq : n \in DOMAIN pipeq' /\ n < z /\ pipeq'[n] = pipeq[n]
      /\ \A n \in DOMAIN pipeq : \A j : (Creates(n, j)' <=> Creates(n, j))
                                    /\ (Dies(n, j)' <=> Dies(n, j))
      /\ \A j : (Creates(z, j)' <=> j = i) /\ ~Dies(z, j)'
  <2>1. PICK op : op = "created" /\ Writes(op, i, ts)
    OBVIOUS
  <2>2. /\ DOMAIN pipeq \subseteq Nat /\ z \in DOMAIN pipeq'
        /\ \A n \in DOMAIN pipeq' : n \in DOMAIN pipeq \/ n = z
        /\ \A n \in DOMAIN pipeq : n \in DOMAIN pipeq' /\ n < z /\ pipeq'[n] = pipeq[n]
        /\ \A n \in DOMAIN pipeq : \A j : (Creates(n, j)' <=> Creates(n, j))
                                      /\ (Dies(n, j)' <=> Dies(n, j))
        /\ \A j : /\ Creates(z, j)' <=> op = "created" /\ j = i
                  /\ Dies(z, j)' <=> op = "destroyed" /\ j = i
        /\ pipeq'[z].ts = ts
    BY ONLY <1>z, <2>1, TypesOK, NewMessage
  <2>3. QED
    BY <2>1, <2>2
<1>3. \A n \in DOMAIN pipeq, j \in Ids : Creates(n, j) => j # i /\ Begun(j)
  BY DEF Feed, Begun
<1>4. ~In(m, i) /\ Begun(i)
  BY DEF Feed, Begun, In
<1>5. \A j \in Ids : /\ obj'[j].phase = "sent" => j = i \/ obj[j].phase = "sent"
                     /\ obj'[j].phase = "gone" => obj[j].phase = "gone" /\ j # i
  BY <1>1
<1> HIDE DEF Creates, Dies, In
<1>6. \A n \in DOMAIN pipeq', j \in Ids : Dies(n, j)' =>
        /\ obj'[j].phase = "gone" /\ obj'[j].died = pipeq'[n].ts
        /\ \A k \in DOMAIN pipeq' : Creates(k, j)' => k < n
  <2> SUFFICES ASSUME NEW n \in DOMAIN pipeq', NEW j \in Ids, Dies(n, j)'
               PROVE  /\ obj'[j].phase = "gone" /\ obj'[j].died = pipeq'[n].ts
                      /\ \A k \in DOMAIN pipeq' : Creates(k, j)' => k < n
    OBVIOUS
  <2>1. n \in DOMAIN pipeq /\ Dies(n, j)
    BY <1>2
  <2>2. /\ obj[j].phase = "gone" /\ obj[j].died = pipeq[n].ts
        /\ \A k \in DOMAIN pipeq : Creates(k, j) => k < n
    BY <2>1 DEF Posted
  <2>3. j # i
    BY <2>2
  <2>4. QED
    BY <1>1, <1>2, <2>1, <2>2, <2>3
<1>7. \A j \in Ids : obj'[j].phase = "sent" =>
        In(m, j) \/ \E n \in DOMAIN pipeq' : Creates(n, j)'
  BY <1>2, <1>5 DEF Posted
<1>8. \A j \in Ids : /\ obj'[j].phase = "gone"
                     /\ In(m, j) \/ \E n \in DOMAIN pipeq' : Creates(n, j)'
        => \E n \in DOMAIN pipeq' : Dies(n, j)'
  <2> SUFFICES ASSUME NEW j \in Ids, obj'[j].phase = "gone",
                      In(m, j) \/ \E n \in DOMAIN pipeq' : Creates(n, j)'
               PROVE  \E n \in DOMAIN pipeq' : Dies(n, j)'
    OBVIOUS
  <2>1. In(m, j) \/ \E n \in DOMAIN pipeq : Creates(n, j)
    BY <1>2, <1>5
  <2>2. PICK n \in DOMAIN pipeq : Dies(n, j)
    BY <1>5, <2>1 DEF Posted
  <2>3. QED
    BY <1>2, <2>2
<1>9. \A a, b \in Ids, n \in DOMAIN pipeq' :
        a # b /\ Creates(n, a)' /\ obj'[b].phase = "sent" /\ obj'[a].addr = obj'[b].addr =>
          ~In(m, b) /\ \A k \in DOMAIN pipeq' : Creates(k, b)' => n < k
  <2> SUFFICES ASSUME NEW a \in Ids, NEW b \in Ids, NEW n \in DOMAIN pipeq', a # b,
                      Creates(n, a)', obj'[b].phase = "sent", obj'[a].addr = obj'[b].addr
               PROVE  ~In(m, b) /\ \A k \in DOMAIN pipeq' : Creates(k, b)' => n < k
    OBVIOUS
  <2>1. Begun(a) /\ Begun(b) /\ obj[a].addr = obj[b].addr
    <3>1. Begun(a)
      BY <1>2, <1>3, <1>4
    <3>2. Begun(b)
      BY <1>4, <1>5 DEF Begun
    <3>3. QED
      BY <1>1, <3>1, <3>2
  <2>2. a # i
    <3> SUFFICES ASSUME a = i PROVE FALSE
      OBVIOUS
    <3>1. obj[b].phase = "sent"
      BY <1>5
    <3>2. obj[a].freed = 0 /\ obj[b].freed = 0
      BY <3>1 DEF Lifetimes
    <3>3. Apart(a, b) \/ Apart(b, a)
      BY <2>1 DEF Lifetimes
    <3>4. QED
      BY <3>2, <3>3 DEF Apart
  <2>3. n \in DOMAIN pipeq /\ Creates(n, a)
    BY <1>2, <2>2
  <2>4. CASE b = i
    <3>1. \A k \in DOMAIN pipeq' : Creates(k, b)' => k = z
      BY <1>2, <1>3, <2>4
    <3>2. QED
      BY <1>2, <1>4, <2>3, <2>4, <3>1
  <2>5. CASE b # i
    <3>1. ~In(m, b) /\ \A k \in DOMAIN pipeq : Creates(k, b) => n < k
      BY <1>5, <2>1, <2>3, <2>5 DEF Posted
    <3>2. QED
      BY <1>2, <2>5, <3>1
  <2>6. QED
    BY <2>4, <2>5
<1>10. QED
  BY <1>1, <1>6, <1>7, <1>8, <1>9 DEF Posted

LEMMA PostedDestroyed ==
  ASSUME TypesOK, Feed, Posted, NEW i \in Ids, Onward(i), NEW ts,
         Writes("destroyed", i, ts),
         obj[i].phase = "dying", obj'[i].phase = "gone", obj'[i].died = ts
  PROVE  Posted'
<1>z. PICK z : z = Len(pipeq) + 1
  OBVIOUS
<1>1. /\ Ids' = Ids /\ \A j : In(m, j)' <=> In(m, j)
      /\ \A j \in Ids :
           /\ Begun(j) => obj'[j].addr = obj[j].addr
           /\ j # i => obj'[j] = obj[j]
           /\ obj[j].phase = "gone" => obj'[j].phase = "gone" /\ obj'[j].died = obj[j].died
  BY OnwardSame
<1>2. /\ DOMAIN pipeq \subseteq Nat /\ z \in DOMAIN pipeq'
      /\ \A n \in DOMAIN pipeq' : n \in DOMAIN pipeq \/ n = z
      /\ \A n \in DOMAIN pipeq : n \in DOMAIN pipeq' /\ n < z /\ pipeq'[n] = pipeq[n]
      /\ \A n \in DOMAIN pipeq : \A j : (Creates(n, j)' <=> Creates(n, j))
                                    /\ (Dies(n, j)' <=> Dies(n, j))
      /\ \A j : ~Creates(z, j)' /\ (Dies(z, j)' <=> j = i)
      /\ pipeq'[z].ts = ts
  <2>1. PICK op : op = "destroyed" /\ Writes(op, i, ts)
    OBVIOUS
  <2>2. /\ DOMAIN pipeq \subseteq Nat /\ z \in DOMAIN pipeq'
        /\ \A n \in DOMAIN pipeq' : n \in DOMAIN pipeq \/ n = z
        /\ \A n \in DOMAIN pipeq : n \in DOMAIN pipeq' /\ n < z /\ pipeq'[n] = pipeq[n]
        /\ \A n \in DOMAIN pipeq : \A j : (Creates(n, j)' <=> Creates(n, j))
                                      /\ (Dies(n, j)' <=> Dies(n, j))
        /\ \A j : /\ Creates(z, j)' <=> op = "created" /\ j = i
                  /\ Dies(z, j)' <=> op = "destroyed" /\ j = i
        /\ pipeq'[z].ts = ts
    BY ONLY <1>z, <2>1, TypesOK, NewMessage
  <2>3. QED
    BY <2>1, <2>2
<1>3. \A n \in DOMAIN pipeq, j \in Ids : Creates(n, j) => Begun(j)
  BY DEF Feed, Begun
<1>4. \A j \in Ids : /\ obj'[j].phase = "sent" => obj[j].phase = "sent" /\ Begun(j) /\ j # i
                     /\ obj'[j].phase = "gone" => j = i \/ obj[j].phase = "gone"
  BY <1>1 DEF Begun
<1> HIDE DEF Creates, Dies, In
<1>5. \A n \in DOMAIN pipeq', j \in Ids : Dies(n, j)' =>
        /\ obj'[j].phase = "gone" /\ obj'[j].died = pipeq'[n].ts
        /\ \A k \in DOMAIN pipeq' : Creates(k, j)' => k < n
  <2> SUFFICES ASSUME NEW n \in DOMAIN pipeq', NEW j \in Ids, Dies(n, j)'
               PROVE  /\ obj'[j].phase = "gone" /\ obj'[j].died = pipeq'[n].ts
                      /\ \A k \in DOMAIN pipeq' : Creates(k, j)' => k < n
    OBVIOUS
  <2>1. CASE n = z
    BY <1>2, <2>1
  <2>2. CASE n \in DOMAIN pipeq
    <3>1. /\ obj[j].phase = "gone" /\ obj[j].died = pipeq[n].ts
          /\ \A k \in DOMAIN pipeq : Creates(k, j) => k < n
      BY <1>2, <2>2 DEF Posted
    <3>2. QED
      BY <1>1, <1>2, <2>2, <3>1
  <2>3. QED
    BY <1>2, <2>1, <2>2
<1>6. \A j \in Ids : obj'[j].phase = "sent" =>
        In(m, j) \/ \E n \in DOMAIN pipeq' : Creates(n, j)'
  BY <1>2, <1>4 DEF Posted
<1>7. \A j \in Ids : /\ obj'[j].phase = "gone"
                     /\ In(m, j) \/ \E n \in DOMAIN pipeq' : Creates(n, j)'
        => \E n \in DOMAIN pipeq' : Dies(n, j)'
  <2> SUFFICES ASSUME NEW j \in Ids, obj'[j].phase = "gone", j # i,
                      In(m, j) \/ \E n \in DOMAIN pipeq' : Creates(n, j)'
               PROVE  \E n \in DOMAIN pipeq' : Dies(n, j)'
    BY <1>2
  <2>1. In(m, j) \/ \E n \in DOMAIN pipeq : Creates(n, j)
    BY <1>2
  <2>2. PICK n \in DOMAIN pipeq : Dies(n, j)
    BY <1>4, <2>1 DEF Posted
  <2>3. QED
    BY <1>2, <2>2
<1>8. \A a, b \in Ids, n \in DOMAIN pipeq' :
        a # b /\ Creates(n, a)' /\ obj'[b].phase = "sent" /\ obj'[a].addr = obj'[b].addr =>
          ~In(m, b) /\ \A k \in DOMAIN pipeq' : Creates(k, b)' => n < k
  <2> SUFFICES ASSUME NEW a \in Ids, NEW b \in Ids, NEW n \in DOMAIN pipeq', a # b,
                      Creates(n, a)', obj'[b].phase = "sent", obj'[a].addr = obj'[b].addr
               PROVE  ~In(m, b) /\ \A k \in DOMAIN pipeq' : Creates(k, b)' => n < k
    OBVIOUS
  <2>1. n \in DOMAIN pipeq /\ Creates(n, a) /\ obj[a].addr = obj[b].addr
    BY <1>1, <1>2, <1>3, <1>4
  <2>2. ~In(m, b) /\ \A k \in DOMAIN pipeq : Creates(k, b) => n < k
    BY <1>4, <2>1 DEF Posted
  <2>3. QED
    BY <1>2, <2>2
<1>9. QED
  BY <1>1, <1>5, <1>6, <1>7, <1>8 DEF Posted

LEMMA KnownObjects ==
  ASSUME TypesOK, m \in Models
  PROVE  \A k \in Libs : KnownIn(m, k) => /\ m.etw[k].obj \in Ids /\ m.etw[k].created \in Nat
                                          /\ m.etw[k].created <= now
<1> SUFFICES ASSUME NEW k \in Libs, KnownIn(m, k)
             PROVE  /\ m.etw[k].obj \in Ids /\ m.etw[k].created \in Nat
                    /\ m.etw[k].created <= now
  OBVIOUS
<1>1. m.etw[k] \in EtwRecords
  BY Fields
<1>2. QED
  BY <1>1 DEF EtwRecords, Stamps

\* The records say the same, and no object begins or ends.
LEMMA QuietChain ==
  ASSUME TypesOK, Agree(m), Chain, NEW i \in Ids, Onward(i), Begun(i), etwq' = etwq,
         obj'[i].freed = obj[i].freed, obj'[i].libs = obj[i].libs, obj'[i].group = obj[i].group
  PROVE  Chain'
<1>1. Sorted /\ Queue(Pending) /\ Entries(Pending, m) /\ Progress(Pending, m)
  BY DEF Chain
<1>2. Pending' = Pending /\ Sorted'
  BY <1>1 DEF Pending, Sorted, Before, AddressOf
<1>3. /\ Ids' = Ids /\ Libs' = Libs /\ m' = m
      /\ \A j : TypeOf(j)' = TypeOf(j) /\ (HasMemory(j)' <=> HasMemory(j))
                /\ (KnownIn(m, j)' <=> KnownIn(m, j))
  BY OnwardSame
<1>4. \A j \in Ids :
        /\ (Begun(j)' <=> Begun(j)) /\ obj'[j].libs = obj[j].libs
        /\ obj'[j].freed = obj[j].freed /\ obj'[j].group = obj[j].group
        /\ Begun(j) => obj'[j].addr = obj[j].addr /\ obj'[j].made = obj[j].made
  BY OnwardSame DEF Begun
<1>6. \A j \in Ids : Tracked(Pending, j)' <=> Tracked(Pending, j)
  BY <1>2, <1>4 DEF Tracked
<1>7. \A r \in Pending : r.id \in Ids
  BY PendingFacts
<1>8. Queue(Pending)'
  <2>1. \A r : Latest(Pending, r)' <=> Latest(Pending, r)
    BY <1>2 DEF Latest
  <2>2. ASSUME NEW r \in Pending PROVE RecordOk(Pending, r)'
    <3>1. RecordOk(Pending, r) /\ r.id \in Ids /\ Begun(r.id)
      BY <1>1, <1>7 DEF Queue, RecordOk, Tracked
    <3>2. QED
      BY <1>2, <1>3, <1>4, <1>6, <2>1, <3>1 DEF RecordOk, AddressOf
  <2>3. QED
    BY <1>1, <1>2, <2>2 DEF Queue, Single
<1>9. Entries(Pending, m)'
  <2> SUFFICES ASSUME NEW k \in Libs, KnownIn(m, k) PROVE EntryOk(Pending, m, k)'
    BY <1>3 DEF Entries
  <2>1. EntryOk(Pending, m, k) /\ Begun(m.etw[k].obj)
    BY <1>1 DEF Entries, EntryOk, Tracked
  <2>2. m.etw[k].obj \in Ids
    BY KnownObjects DEF Agree
  <2>3. QED
    BY <1>2, <1>3, <1>4, <1>6, <2>1, <2>2 DEF EntryOk
<1>10. Progress(Pending, m)'
  <2>1. \A op, l : Waits(Pending, op, l)' <=> Waits(Pending, op, l)
    BY <1>2 DEF Waits
  <2>2. \A o : Silent(Pending, o)' <=> Silent(Pending, o)
    BY <1>2 DEF Silent
  <2>3. ASSUME NEW o \in Ids, Tracked(Pending, o), NEW l \in obj[o].libs
        PROVE  Handled(Pending, m, o, l)'
    <3>1. Handled(Pending, m, o, l) /\ Begun(o)
      BY <1>1, <2>3 DEF Progress, Tracked
    <3>2. obj'[o].addr = obj[o].addr
      BY <1>4, <3>1
    <3>3. QED
      BY <1>2, <1>3, <2>1, <3>1, <3>2 DEF Handled
  <2>4. QED
    BY <1>1, <1>3, <1>4, <1>6, <2>2, <2>3 DEF Progress
<1>11. QED
  BY <1>2, <1>8, <1>9, <1>10 DEF Chain

\* What a step of the game logs.
Rec(op, i, lib, g) == [op |-> op, id |-> i, lib |-> lib, group |-> g, ts |-> now + 1]

LEMMA LogPending ==
  ASSUME TypesOK, Sorted, NEW i, NEW lib, NEW g, NEW ops \in Seq(Ops),
         etwq' = etwq \o Recorded(ops, i, lib, g),
         \A a, b \in DOMAIN ops : a < b => ops[a] = "create" /\ ops[b] = "address"
  PROVE  Pending' = Pending \union {Rec(ops[n], i, lib, g) : n \in DOMAIN ops} /\ Sorted'
<1> DEFINE log == Recorded(ops, i, lib, g)
           x(n) == Rec(ops[n], i, lib, g)
<1>1. /\ log \in Seq(RecordsAbout(i, lib, g)) /\ Len(log) = Len(ops)
      /\ \A n \in DOMAIN ops : log[n] = x(n)
  BY RecordedType DEF Recorded, Rec
<1>2. \A n : x(n).op = ops[n] /\ x(n).ts = now + 1
  BY DEF Rec
<1>3. \A a, b \in DOMAIN ops : a < b => x(b) = AddressOf(x(a)) /\ x(a).op = "create"
  BY DEF Rec, AddressOf
<1> HIDE DEF x, log
<1>4. /\ etwq \in Seq(Records) /\ Len(etwq) \in Nat /\ Len(ops) \in Nat /\ now \in Nat
      /\ DOMAIN ops = 1 .. Len(ops) /\ DOMAIN etwq = 1 .. Len(etwq)
  BY DEF TypesOK
<1>5. etwq' = etwq \o log
  BY DEF log
<1>6. /\ DOMAIN etwq' = 1 .. (Len(etwq) + Len(ops))
      /\ \A n \in 1 .. Len(etwq) : etwq'[n] = etwq[n]
      /\ \A n \in 1 .. Len(ops) : etwq'[Len(etwq) + n] = x(n)
  <2>1. etwq \in Seq(Records) /\ log \in Seq(RecordsAbout(i, lib, g)) /\ Len(log) = Len(ops)
    BY <1>1, <1>4
  <2>2. \A T : T \in Seq(Records) => T \in Seq(Records \union RecordsAbout(i, lib, g))
    OBVIOUS
  <2>3. log \in Seq(Records \union RecordsAbout(i, lib, g))
    BY ONLY <2>1
  <2>4. etwq \in Seq(Records \union RecordsAbout(i, lib, g))
    BY ONLY <2>1, <2>2
  <2>5. /\ Len(etwq \o log) = Len(etwq) + Len(log)
        /\ DOMAIN (etwq \o log) = 1 .. (Len(etwq) + Len(log))
        /\ \A n \in 1 .. Len(etwq) : (etwq \o log)[n] = etwq[n]
        /\ \A n \in 1 .. Len(log) : (etwq \o log)[Len(etwq) + n] = log[n]
    BY ONLY <2>3, <2>4
  <2>6. \A n \in 1 .. Len(ops) : log[n] = x(n)
    BY <1>1, <1>4
  <2>7. QED
    BY ONLY <1>5, <2>1, <2>5, <2>6
<1>7. \A n \in DOMAIN etwq' : n \in DOMAIN etwq \/ \E k \in DOMAIN ops : n = Len(etwq) + k
  <2> SUFFICES ASSUME NEW n \in DOMAIN etwq', n \notin DOMAIN etwq
               PROVE  \E k \in DOMAIN ops : n = Len(etwq) + k
    OBVIOUS
  <2>1. n - Len(etwq) \in DOMAIN ops /\ n = Len(etwq) + (n - Len(etwq))
    BY <1>4, <1>6
  <2>2. QED
    BY <2>1
<1>8. Pending' = Pending \union {x(n) : n \in DOMAIN ops}
  <2>1. Pending' = {etwq'[n] : n \in DOMAIN etwq'}
    BY DEF Pending
  <2>2. ASSUME NEW r \in Pending' PROVE r \in Pending \union {x(n) : n \in DOMAIN ops}
    <3>1. PICK n \in DOMAIN etwq' : r = etwq'[n]
      BY <2>1, <2>2
    <3>2. CASE n \in DOMAIN etwq
      BY <1>4, <1>6, <3>1, <3>2 DEF Pending
    <3>3. CASE \E k \in DOMAIN ops : n = Len(etwq) + k
      BY <1>4, <1>6, <3>1, <3>3
    <3>4. QED
      BY <1>7, <3>2, <3>3
  <2>3. ASSUME NEW r \in Pending PROVE r \in Pending'
    <3>1. PICK n \in DOMAIN etwq : r = etwq[n]
      BY <2>3 DEF Pending
    <3>2. n \in DOMAIN etwq' /\ etwq'[n] = r
      BY <1>4, <1>6, <3>1
    <3>3. QED
      BY <2>1, <3>2
  <2>4. ASSUME NEW n \in DOMAIN ops PROVE x(n) \in Pending'
    <3>1. Len(etwq) + n \in DOMAIN etwq' /\ etwq'[Len(etwq) + n] = x(n)
      BY <1>4, <1>6
    <3>2. QED
      BY <2>1, <3>1
  <2>5. QED
    BY <2>2, <2>3, <2>4
<1>9. Sorted'
  <2> SUFFICES ASSUME NEW n \in DOMAIN etwq', NEW k \in DOMAIN etwq', n < k
               PROVE  Before(etwq'[n], etwq'[k])
    BY DEF Sorted, Before, AddressOf
  <2>1. CASE n \in DOMAIN etwq /\ k \in DOMAIN etwq
    BY <1>4, <1>6, <2>1 DEF Sorted
  <2>2. CASE n \in DOMAIN etwq /\ \E b \in DOMAIN ops : k = Len(etwq) + b
    <3>1. etwq'[n] = etwq[n] /\ etwq'[k].ts = now + 1
      BY <1>2, <1>4, <1>6, <2>2
    <3>2. etwq[n].ts \in Nat /\ etwq[n].ts <= now
      BY <2>2, PendingFacts DEF Pending
    <3>3. QED
      BY <1>4, <3>1, <3>2 DEF Before
  <2>3. CASE /\ \E a \in DOMAIN ops : n = Len(etwq) + a
             /\ \E b \in DOMAIN ops : k = Len(etwq) + b
    <3>1. PICK a \in DOMAIN ops, b \in DOMAIN ops : n = Len(etwq) + a /\ k = Len(etwq) + b
      BY <2>3
    <3>2. a < b
      BY <1>4, <3>1
    <3>3. etwq'[n] = x(a) /\ etwq'[k] = x(b)
      BY <1>4, <1>6, <3>1
    <3>4. QED
      BY <1>2, <1>3, <3>2, <3>3 DEF Before
  <2>4. CASE k \in DOMAIN etwq /\ \E a \in DOMAIN ops : n = Len(etwq) + a
    BY <1>4, <2>4
  <2>5. QED
    BY <1>7, <2>1, <2>2, <2>3, <2>4
<1>10. \A n : x(n) = Rec(ops[n], i, lib, g)
  BY DEF x
<1>11. {x(n) : n \in DOMAIN ops} = {Rec(ops[n], i, lib, g) : n \in DOMAIN ops}
  BY <1>10
<1>12. QED
  BY <1>8, <1>9, <1>11

LEMMA OneLogged ==
  ASSUME TypesOK, Sorted, NEW i, NEW lib, NEW g, NEW op \in Ops,
         etwq' = etwq \o Recorded(<<op>>, i, lib, g), NEW W, W = {Rec(op, i, lib, g)}
  PROVE  Pending' = Pending \union W /\ Sorted'
<1> DEFINE ops == <<op>>
<1>1. ops \in Seq(Ops) /\ DOMAIN ops = {1} /\ ops[1] = op
  OBVIOUS
<1>2. etwq' = etwq \o Recorded(ops, i, lib, g)
  OBVIOUS
<1> HIDE DEF ops
<1>3. \A a, b \in DOMAIN ops : a < b => ops[a] = "create" /\ ops[b] = "address"
  BY <1>1
<1>4. Pending' = Pending \union {Rec(ops[n], i, lib, g) : n \in DOMAIN ops} /\ Sorted'
  BY <1>1, <1>2, <1>3, LogPending
<1>5. {Rec(ops[n], i, lib, g) : n \in DOMAIN ops} = W
  BY <1>1
<1>6. QED
  BY <1>4, <1>5

LEMMA TwoLogged ==
  ASSUME TypesOK, Sorted, NEW i, NEW lib, NEW g,
         etwq' = etwq \o Recorded(<<"create", "address">>, i, lib, g),
         NEW W, W = {Rec("create", i, lib, g), Rec("address", i, lib, g)}
  PROVE  Pending' = Pending \union W /\ Sorted'
<1> DEFINE ops == <<"create", "address">>
<1>1. ops \in Seq(Ops) /\ DOMAIN ops = {1, 2} /\ ops[1] = "create" /\ ops[2] = "address"
  BY TwoOps
<1>2. etwq' = etwq \o Recorded(ops, i, lib, g)
  OBVIOUS
<1> HIDE DEF ops
<1>3. \A a, b \in DOMAIN ops : a < b => ops[a] = "create" /\ ops[b] = "address"
  BY <1>1
<1>4. Pending' = Pending \union {Rec(ops[n], i, lib, g) : n \in DOMAIN ops} /\ Sorted'
  BY <1>1, <1>2, <1>3, LogPending
<1>5. {Rec(ops[n], i, lib, g) : n \in DOMAIN ops} = W
  BY <1>1
<1>6. QED
  BY <1>4, <1>5

\* W is logged of i, which has not been freed before.
Adds(i, W) ==
  /\ Pending' = Pending \union W /\ Sorted'
  /\ W # {} /\ \A r \in W : r.id = i /\ r.ts = now + 1
  /\ \A r \in W : r.op \in {"create", "address"} => r.lib = nlib + 1
  /\ obj[i].freed = 0 /\ (obj'[i].freed # 0 => \E r \in W : r.op = "destroy")
  /\ obj'[i].libs \subseteq Libs
  /\ \/ obj'[i].libs = obj[i].libs
     \/ /\ obj'[i].libs = obj[i].libs \union {nlib + 1}
        /\ \E r \in W : r.op = "create" /\ r.lib = nlib + 1
        /\ \E r \in W : r.op = "address" /\ r.lib = nlib + 1
  /\ \A r, s \in W : Single(r, s)

LEMMA LogChain ==
  ASSUME TypesOK, Game, Agree(m), Lifetimes, Chain, NEW i \in Ids, Onward(i),
         NEW W, Adds(i, W), \A r \in W : RecordOk(Pending, r)'
  PROVE  Chain'
<1>1. Queue(Pending) /\ Entries(Pending, m) /\ Progress(Pending, m)
  BY DEF Chain
<1>2. /\ Ids' = Ids /\ Libs' = Libs /\ m' = m
      /\ \A j : TypeOf(j)' = TypeOf(j) /\ (HasMemory(j)' <=> HasMemory(j))
                /\ (KnownIn(m, j)' <=> KnownIn(m, j))
      /\ \A j \in Ids :
           /\ j # i => obj'[j] = obj[j]
           /\ Begun(j) => Begun(j)' /\ obj'[j].addr = obj[j].addr /\ obj'[j].made = obj[j].made
      /\ Begun(i)'
  BY OnwardSame DEF Onward, Begun
<1>3. /\ now \in Nat /\ nlib \in Nat
      /\ \A r \in Pending : r.id \in Ids /\ r.ts \in Nat /\ r.ts <= now
      /\ \A j \in Ids : obj[j].libs \subseteq 1 .. nlib
      /\ \A j \in Ids : obj[j].made \in Nat /\ (Begun(j) => obj[j].made # 0)
  BY PendingFacts, ObjectFacts DEF Lifetimes, Game
<1>4. \A r \in Pending : r.lib # nlib + 1
  <2>1. \A r \in Pending : r.lib \in obj[r.id].libs
    BY <1>1 DEF Queue, RecordOk
  <2>2. nlib + 1 \notin 1 .. nlib
    BY <1>3
  <2>3. QED
    BY <1>3, <2>1, <2>2
<1>5. \A j \in Ids : Tracked(Pending, j) => Tracked(Pending, j)'
  BY <1>2 DEF Tracked, Adds
<1>6. \A j \in Ids : j # i /\ Tracked(Pending, j)' => Tracked(Pending, j)
  BY <1>2 DEF Tracked, Adds, Begun
<1>7. \A op, l : l # nlib + 1 /\ op \in {"create", "address"} =>
        (Waits(Pending, op, l)' <=> Waits(Pending, op, l))
  BY DEF Waits, Adds
<1>8. \A r \in Pending : r.op = "destroy" => r.id # i
  <2> SUFFICES ASSUME NEW r \in Pending, r.op = "destroy", r.id = i PROVE FALSE
    OBVIOUS
  <2>1. r.ts = obj[i].freed /\ obj[i].made <= r.ts /\ Begun(i)
    BY <1>1 DEF Queue, RecordOk, Tracked
  <2>2. QED
    BY <1>3, <2>1 DEF Adds
<1>9. Queue(Pending)'
  <2>1. ASSUME NEW r \in Pending PROVE RecordOk(Pending, r)'
    <3>1. RecordOk(Pending, r) /\ r.id \in Ids /\ Begun(r.id) /\ r.ts < now + 1
      BY <1>1, <1>3 DEF Queue, RecordOk, Tracked
    <3>2. r.lib \in obj'[r.id].libs /\ Tracked(Pending, r.id)' /\ obj'[r.id].made <= r.ts
      BY <1>2, <1>5, <3>1 DEF RecordOk, Adds
    <3>3. r.op = "destroy" => r.ts = obj'[r.id].freed
      BY <1>2, <1>8, <3>1 DEF RecordOk
    <3>4. r.op # "destroy" => /\ obj'[r.id].freed = 0 \/ r.ts < obj'[r.id].freed
                              /\ r.group = "Unknown" <=> ~HasMemory(r.id)
      <4>1. CASE r.id # i
        BY <1>2, <3>1, <4>1 DEF RecordOk
      <4>2. CASE r.id = i
        <5>1. obj'[i].freed = 0 \/ obj'[i].freed = now + 1
          <6>1. ASSUME NEW d \in W, d.op = "destroy" PROVE obj'[i].freed = now + 1
            BY <6>1 DEF RecordOk, Adds
          <6>2. QED
            BY <6>1 DEF Adds
        <5>2. QED
          BY <3>1, <4>2, <5>1 DEF RecordOk
      <4>3. QED
        BY <4>1, <4>2
    <3>5. r.op = "create" => AddressOf(r) \in Pending'
      BY <3>1 DEF RecordOk, Adds
    <3>6. obj'[r.id].freed = 0 /\ Latest(Pending, r)' => r.group = obj'[r.id].group
      <4>1. CASE r.id # i
        <5>1. Latest(Pending, r)' => Latest(Pending, r)
          BY DEF Latest, Adds
        <5>2. QED
          BY <1>2, <3>1, <4>1, <5>1 DEF RecordOk
      <4>2. CASE r.id = i
        <5>1. PICK s \in W : s.id = i /\ s.ts = now + 1
          BY DEF Adds
        <5>2. ~Latest(Pending, r)'
          <6>1. s \in Pending' /\ ~(s.ts <= r.ts)
            BY <1>3, <3>1, <5>1 DEF Adds
          <6>2. QED
            BY <4>2, <5>1, <6>1 DEF Latest
        <5>3. QED
          BY <5>2
      <4>3. QED
        BY <4>1, <4>2
    <3>7. r.op = "group" => \A s \in Pending' : s.op = "address" /\ s.lib = r.lib => s.ts < r.ts
      BY <1>4, <3>1 DEF RecordOk, Adds
    <3>8. QED
      BY <1>2, <3>2, <3>3, <3>4, <3>5, <3>6, <3>7 DEF RecordOk, AddressOf
  <2>2. ASSUME NEW r \in Pending, NEW s \in W PROVE Single(r, s) /\ Single(s, r)
    BY <1>4, <1>8 DEF Single, Adds
  <2>3. \A r, s \in Pending : Single(r, s)
    BY <1>1 DEF Queue
  <2>4. \A r, s \in Pending' : Single(r, s)
    BY <2>2, <2>3 DEF Adds
  <2>5. \A r \in Pending' : RecordOk(Pending, r)'
    BY <2>1 DEF Adds
  <2>6. QED
    BY <2>4, <2>5 DEF Queue, Single
<1>10. Entries(Pending, m)'
  <2> SUFFICES ASSUME NEW k \in Libs, KnownIn(m, k) PROVE EntryOk(Pending, m, k)'
    BY <1>2 DEF Entries
  <2>1. EntryOk(Pending, m, k) /\ Begun(m.etw[k].obj)
    BY <1>1 DEF Entries, EntryOk, Tracked
  <2>2. m.etw[k].obj \in Ids /\ m.etw[k].created \in Nat /\ m.etw[k].created <= now
    BY ONLY TypesOK, Agree(m), k \in Libs, KnownIn(m, k), KnownObjects DEF Agree
  <2>3. Tracked(Pending, m.etw[k].obj)'
    <3>1. PICK o : o = m.etw[k].obj
      OBVIOUS
    <3>2. Tracked(Pending, o)'
      BY <1>5, <2>1, <2>2, <3>1 DEF EntryOk
    <3>3. m'.etw[k].obj = o
      BY <1>2, <3>1
    <3>4. QED
      BY <3>2, <3>3
  <2>4. obj[m.etw[k].obj].libs \subseteq obj'[m.etw[k].obj].libs
    BY <1>2, <2>2 DEF Adds
  <2>5. \A r \in Pending' : m.etw[k].created <= r.ts
    BY <1>3, <2>1, <2>2 DEF EntryOk, Adds
  <2>6. QED
    BY <1>2, <2>1, <2>2, <2>3, <2>4, <2>5 DEF EntryOk
<1>11. ASSUME NEW o \in Ids, Tracked(Pending, o)', NEW l \in obj'[o].libs
       PROVE  Handled(Pending, m, o, l)'
  <2>1. CASE l = nlib + 1
    <3>1. o = i /\ obj'[i].libs # obj[i].libs
      <4>1. l \notin obj[o].libs
        BY <1>3, <2>1
      <4>2. QED
        BY <1>2, <1>11, <4>1
    <3>2. /\ \E r \in W : r.op = "create" /\ r.lib = nlib + 1
          /\ \E r \in W : r.op = "address" /\ r.lib = nlib + 1
      BY <3>1 DEF Adds
    <3>3. Waits(Pending, "create", l)' /\ Waits(Pending, "address", l)'
      BY <2>1, <3>2 DEF Waits, Adds
    <3>4. m.alias[l] = 0
      <4>1. l \in Libs
        BY <1>11, <3>1 DEF Adds
      <4>2. m.alias[l] \in {0} \union Libs
        BY <4>1, Fields DEF Agree
      <4>3. ASSUME m.alias[l] # 0 PROVE FALSE
        <5>1. /\ m.alias[l] \in Libs /\ KnownIn(m, m.alias[l])
              /\ l \in m.etw[m.alias[l]].aliases \union {m.alias[l]}
          BY <4>1, <4>2, <4>3 DEF Agree, Indexes, Aliases
        <5>2. l \in obj[m.etw[m.alias[l]].obj].libs /\ m.etw[m.alias[l]].obj \in Ids
          BY <1>1, <5>1, KnownObjects DEF Entries, EntryOk, Agree
        <5>3. QED
          BY <1>3, <2>1, <5>2
      <4>4. QED
        BY <4>3
    <3>5. QED
      BY <1>2, <3>3, <3>4 DEF Handled
  <2>2. CASE l # nlib + 1
    <3>1. l \in obj[o].libs
      BY <1>2, <1>11, <2>2 DEF Adds
    <3>2. Tracked(Pending, o) /\ Begun(o)
      <4>1. CASE o # i
        BY <1>6, <1>11, <4>1 DEF Tracked
      <4>2. CASE o = i
        <5>1. Begun(i)
          BY <3>1, <4>2 DEF Lifetimes, Begun
        <5>2. QED
          BY <4>2, <5>1 DEF Tracked, Adds
      <4>3. QED
        BY <4>1, <4>2
    <3>3. Handled(Pending, m, o, l)
      BY <1>1, <3>1, <3>2 DEF Progress
    <3>4. /\ Waits(Pending, "create", l)' <=> Waits(Pending, "create", l)
          /\ Waits(Pending, "address", l)' <=> Waits(Pending, "address", l)
      BY <1>7, <2>2
    <3>5. \A r \in Pending' : r.op = "address" /\ r.lib = l => r \in Pending
      BY <2>2 DEF Adds
    <3>6. obj'[o].addr = obj[o].addr
      BY <1>2, <3>2
    <3>7. QED
      BY <1>2, <3>3, <3>4, <3>5, <3>6 DEF Handled
  <2>3. QED
    BY <2>1, <2>2
<1>12. ASSUME NEW o \in Ids, Begun(o)', obj'[o].freed = 0, Silent(Pending, o)'
       PROVE  m.etw[m.byAddr[obj'[o].addr]].group = obj'[o].group
  <2>1. o # i
    BY <1>12 DEF Silent, Adds
  <2>2. Silent(Pending, o) /\ obj'[o] = obj[o] /\ Begun(o)
    BY <1>2, <1>12, <2>1 DEF Silent, Adds, Begun
  <2>3. QED
    BY <1>1, <1>12, <2>2 DEF Progress
<1>13. Progress(Pending, m)'
  BY <1>2, <1>11, <1>12 DEF Progress
<1>14. QED
  BY <1>9, <1>10, <1>13 DEF Chain, Adds
LEMMA GameParts ==
  ASSUME Inv, Settling, NEW i \in Ids
  PROVE  /\ TypesOK /\ Game /\ Feed /\ Agree(m) /\ Lifetimes /\ Posted
         /\ Whole => Chain
         /\ obj \in [Ids -> Objects] /\ obj[i] \in Objects /\ now \in Nat /\ nlib \in Nat
         /\ obj[i].made <= now /\ obj[i].made \in Nat
         /\ obj[i].libs \subseteq Libs /\ obj[i].group \in Locs
         /\ Begun(i) <=> obj[i].made # 0
<1>1. TypesOK /\ Game
  BY DEF Inv
<1>2. /\ obj \in [Ids -> Objects] /\ now \in Nat /\ nlib \in Nat
      /\ obj[i].made <= now /\ obj[i].made \in Nat
      /\ obj[i].libs \subseteq Libs /\ obj[i].group \in Locs
  BY <1>1, ObjectFacts
<1>3. QED
  BY <1>1, <1>2 DEF Inv, Settling, Game

\* The end of i is logged.
LEMMA ForgottenChain ==
  ASSUME TypesOK, Game, Agree(m), Lifetimes, Chain, NEW i \in Ids, Onward(i), Begun(i),
         Forgotten(i), obj[i].freed = 0, obj'[i].freed = now + 1, obj'[i].libs = obj[i].libs
  PROVE  Chain'
<1>1. PICK lib \in obj[i].libs : etwq' = etwq \o Recorded(<<"destroy">>, i, lib, "Unknown")
  BY DEF Forgotten
<1>2. PICK op : op = "destroy"
  OBVIOUS
<1>3. PICK g : g = "Unknown"
  OBVIOUS
<1>4. PICK W : W = {Rec(op, i, lib, g)}
  OBVIOUS
<1>5. /\ now \in Nat /\ obj[i].made <= now /\ obj[i].made \in Nat /\ obj[i].libs \subseteq Libs
      /\ Begun(i)' /\ obj'[i].made = obj[i].made
  BY ObjectFacts, OnwardSame
<1>6. Pending' = Pending \union W /\ Sorted'
  <2>1. op \in Ops /\ etwq' = etwq \o Recorded(<<op>>, i, lib, g)
    BY <1>1, <1>2, <1>3 DEF Ops
  <2>2. QED
    BY <1>4, <2>1, OneLogged DEF Chain
<1>7. \A r \in W : r.op = "destroy" /\ r.id = i /\ r.lib = lib /\ r.ts = now + 1
  BY <1>2, <1>4 DEF Rec
<1>8. W # {} /\ \A r, s \in W : r = s
  BY <1>4
<1>9. Adds(i, W)
  BY <1>5, <1>6, <1>7, <1>8 DEF Adds, Single
<1>10. ASSUME NEW r \in W PROVE RecordOk(Pending, r)'
  <2>1. r \in Pending' /\ r.op = "destroy" /\ r.id = i /\ r.lib = lib /\ r.ts = now + 1
    BY <1>6, <1>7
  <2>2. Tracked(Pending, r.id)'
    BY <1>5, <2>1 DEF Tracked
  <2>3. QED
    BY <1>1, <1>5, <2>1, <2>2 DEF RecordOk
<1>11. QED
  BY <1>9, <1>10, LogChain

LEMMA ReleaseSettles ==
  ASSUME Inv, Settling, NEW i \in Ids, Release(i)
  PROVE  Settling'
<1> DEFINE o == [obj[i] EXCEPT !.phase = "dying", !.dropped = now + 1, !.freed = now + 1]
<1>1. /\ TypesOK /\ Game /\ Feed /\ Agree(m) /\ Lifetimes /\ Posted /\ (Whole => Chain)
      /\ obj \in [Ids -> Objects] /\ obj[i] \in Objects /\ now \in Nat /\ nlib \in Nat
      /\ obj[i].made <= now /\ obj[i].made \in Nat
  BY GameParts
<1>2. /\ obj[i].phase = "sent" /\ obj' = [obj EXCEPT ![i] = o] /\ Forgotten(i)
      /\ plan' = plan /\ nlib' = nlib /\ left' = left /\ behind' = behind
      /\ exitAt' = exitAt /\ pipeq' = pipeq /\ m' = m
  BY DEF Release
<1>3. /\ o.phase = "dying" /\ o.addr = obj[i].addr /\ o.made = obj[i].made
      /\ o.freed = now + 1 /\ o.died = obj[i].died /\ o.group = obj[i].group
      /\ o.libs = obj[i].libs
  BY <1>1 DEF Objects
<1> HIDE DEF o
<1>4. obj'[i] = o /\ \A j \in Ids : j # i => obj'[j] = obj[j]
  BY <1>1, <1>2
<1>5. Begun(i) /\ obj[i].freed = 0 /\ obj[i].died = 0 /\ Hooked(i)
  BY <1>1, <1>2 DEF Begun, Lifetimes
<1>6. Onward(i)
  BY <1>2, <1>3, <1>4, <1>5 DEF Onward
<1>7. Begun(i)' /\ (Hooked(i)' <=> Hooked(i)) /\ (HasMemory(i)' <=> HasMemory(i))
  BY <1>1, <1>5, <1>6, OnwardSame
<1>8. LifeOf(i)'
  <2>1. /\ obj[i].libs # {} /\ (obj[i].group = "Unknown" <=> ~HasMemory(i))
        /\ obj[i].libs \subseteq 1 .. nlib
    BY <1>1, <1>5 DEF Lifetimes
  <2>2. QED
    BY <1>1, <1>2, <1>3, <1>4, <1>5, <1>7, <2>1 DEF LifeOf
<1>9. Lifetimes'
  BY <1>1, <1>2, <1>3, <1>4, <1>5, <1>6, <1>8, LifetimesKept
<1>10. Posted'
  <2>1. obj'[i].phase = "dying"
    BY <1>3, <1>4
  <2>2. QED
    BY <1>1, <1>2, <1>6, <2>1, PostedKept
<1>11. Whole => Chain'
  BY <1>1, <1>2, <1>3, <1>4, <1>5, <1>6, ForgottenChain
<1>12. QED
  BY <1>6, <1>9, <1>10, <1>11, GameSettles

LEMMA RuntimeFreeSettles ==
  ASSUME Inv, Settling, NEW i \in Ids, RuntimeFree(i)
  PROVE  Settling'
<1> DEFINE o == [obj[i] EXCEPT !.freed = now + 1]
<1>1. /\ TypesOK /\ Game /\ Feed /\ Agree(m) /\ Lifetimes /\ Posted /\ (Whole => Chain)
      /\ obj \in [Ids -> Objects] /\ obj[i] \in Objects /\ now \in Nat /\ nlib \in Nat
      /\ obj[i].made <= now /\ obj[i].made \in Nat /\ (Begun(i) <=> obj[i].made # 0)
  BY GameParts
<1>2. /\ Alive(i) /\ obj[i].phase \in (IF Hooked(i) THEN {"dying", "gone"} ELSE {"made"})
      /\ obj' = [obj EXCEPT ![i].freed = now + 1] /\ Forgotten(i)
      /\ plan' = plan /\ nlib' = nlib /\ left' = left /\ behind' = behind
      /\ exitAt' = exitAt /\ pipeq' = pipeq /\ m' = m
  BY DEF RuntimeFree
<1>3. /\ o.phase = obj[i].phase /\ o.addr = obj[i].addr /\ o.made = obj[i].made
      /\ o.freed = now + 1 /\ o.died = obj[i].died /\ o.group = obj[i].group
      /\ o.libs = obj[i].libs
  BY <1>1 DEF Objects
<1>4. obj'[i] = o /\ \A j \in Ids : j # i => obj'[j] = obj[j]
  BY <1>1, <1>2
<1> HIDE DEF o
<1>5. Begun(i) /\ obj[i].freed = 0
  BY <1>1, <1>2 DEF Alive
<1>6. Onward(i)
  BY <1>2, <1>3, <1>4, <1>5 DEF Onward, Begun
<1>7. Begun(i)' /\ (Hooked(i)' <=> Hooked(i)) /\ (HasMemory(i)' <=> HasMemory(i))
  BY <1>1, <1>5, <1>6, OnwardSame
<1>8. LifeOf(i)'
  <2>1. /\ obj[i].libs # {} /\ (obj[i].group = "Unknown" <=> ~HasMemory(i))
        /\ obj[i].libs \subseteq 1 .. nlib
        /\ obj[i].phase # "gone" => obj[i].died = 0
        /\ obj[i].phase \in {"sent", "dying", "gone"} => Hooked(i)
    BY <1>1, <1>5 DEF Lifetimes
  <2>2. QED
    BY <1>1, <1>2, <1>3, <1>4, <1>5, <1>7, <2>1 DEF LifeOf
<1>9. Lifetimes'
  BY <1>1, <1>2, <1>3, <1>4, <1>5, <1>6, <1>8, LifetimesKept
<1>10. Posted'
  <2>1. obj'[i].phase = obj[i].phase
    BY <1>3, <1>4
  <2>2. QED
    BY <1>1, <1>2, <1>6, <2>1, PostedKept
<1>11. Whole => Chain'
  BY <1>1, <1>2, <1>3, <1>4, <1>5, <1>6, ForgottenChain
<1>12. QED
  BY <1>6, <1>9, <1>10, <1>11, GameSettles

LEMMA DropSettles ==
  ASSUME Inv, Settling, NEW i \in Ids, Drop(i)
  PROVE  Settling'
<1> DEFINE o == [obj[i] EXCEPT !.phase = "dying", !.dropped = now + 1]
<1>1. /\ TypesOK /\ Game /\ Feed /\ Agree(m) /\ Lifetimes /\ Posted /\ (Whole => Chain)
      /\ obj \in [Ids -> Objects] /\ obj[i] \in Objects /\ nlib \in Nat
  BY GameParts
<1>2. /\ obj[i].phase = "sent" /\ obj' = [obj EXCEPT ![i] = o] /\ etwq' = etwq
      /\ plan' = plan /\ nlib' = nlib /\ left' = left /\ behind' = behind
      /\ exitAt' = exitAt /\ pipeq' = pipeq /\ m' = m
  BY DEF Drop, feeds
<1>3. /\ o.phase = "dying" /\ o.addr = obj[i].addr /\ o.made = obj[i].made
      /\ o.freed = obj[i].freed /\ o.died = obj[i].died /\ o.group = obj[i].group
      /\ o.libs = obj[i].libs
  BY <1>1 DEF Objects
<1> HIDE DEF o
<1>4. obj'[i] = o /\ \A j \in Ids : j # i => obj'[j] = obj[j]
  BY <1>1, <1>2
<1>5. Begun(i) /\ obj[i].freed = 0 /\ obj[i].died = 0 /\ Hooked(i)
  BY <1>1, <1>2 DEF Begun, Lifetimes
<1>6. Onward(i)
  BY <1>2, <1>3, <1>4, <1>5 DEF Onward
<1>7. Begun(i)' /\ (Hooked(i)' <=> Hooked(i)) /\ (HasMemory(i)' <=> HasMemory(i))
  BY <1>1, <1>5, <1>6, OnwardSame
<1>8. LifeOf(i)'
  <2>1. /\ obj[i].libs # {} /\ (obj[i].group = "Unknown" <=> ~HasMemory(i))
        /\ obj[i].libs \subseteq 1 .. nlib
    BY <1>1, <1>5 DEF Lifetimes
  <2>2. QED
    BY <1>1, <1>2, <1>3, <1>4, <1>5, <1>7, <2>1 DEF LifeOf
<1>9. Lifetimes'
  BY <1>1, <1>2, <1>3, <1>4, <1>5, <1>6, <1>8, LifetimesKept
<1>10. Posted'
  <2>1. obj'[i].phase = "dying"
    BY <1>3, <1>4
  <2>2. QED
    BY <1>1, <1>2, <1>6, <2>1, PostedKept
<1>11. Whole => Chain'
  BY <1>1, <1>2, <1>3, <1>4, <1>5, <1>6, QuietChain
<1>12. QED
  BY <1>6, <1>9, <1>10, <1>11, GameSettles

LEMMA SendCreatedSettles ==
  ASSUME Inv, Settling, NEW i \in Ids, SendCreated(i)
  PROVE  Settling'
<1>1. /\ TypesOK /\ Game /\ Feed /\ Agree(m) /\ Lifetimes /\ Posted /\ (Whole => Chain)
      /\ obj \in [Ids -> Objects] /\ obj[i] \in Objects /\ nlib \in Nat
  BY GameParts
<1>2. /\ obj[i].phase = "made" /\ Hooked(i) /\ Message("created", i, obj[i].made)
      /\ plan' = plan /\ nlib' = nlib /\ left' = left /\ behind' = behind
      /\ exitAt' = exitAt /\ etwq' = etwq /\ m' = m
  BY DEF SendCreated
<1>3. PICK ts : Writes("created", i, ts) /\ obj' = [obj EXCEPT ![i].phase = "sent"]
  BY <1>2 DEF Message, Writes
<1> DEFINE o == [obj[i] EXCEPT !.phase = "sent"]
<1>4. /\ o.phase = "sent" /\ o.addr = obj[i].addr /\ o.made = obj[i].made
      /\ o.freed = obj[i].freed /\ o.died = obj[i].died /\ o.group = obj[i].group
      /\ o.libs = obj[i].libs
  BY <1>1 DEF Objects
<1>5. obj'[i] = o /\ \A j \in Ids : j # i => obj'[j] = obj[j]
  BY <1>1, <1>3
<1> HIDE DEF o
<1>6. Begun(i) /\ obj[i].freed = 0 /\ obj[i].died = 0
  BY <1>1, <1>2 DEF Begun, Lifetimes
<1>7. Onward(i)
  BY <1>2, <1>4, <1>5, <1>6 DEF Onward
<1>8. Begun(i)' /\ (Hooked(i)' <=> Hooked(i)) /\ (HasMemory(i)' <=> HasMemory(i))
  BY <1>1, <1>6, <1>7, OnwardSame
<1>9. LifeOf(i)'
  <2>1. /\ obj[i].libs # {} /\ (obj[i].group = "Unknown" <=> ~HasMemory(i))
        /\ obj[i].libs \subseteq 1 .. nlib
    BY <1>1, <1>6 DEF Lifetimes
  <2>2. QED
    BY <1>1, <1>2, <1>4, <1>5, <1>6, <1>8, <2>1 DEF LifeOf
<1>10. Lifetimes'
  BY <1>1, <1>2, <1>4, <1>5, <1>6, <1>7, <1>9, LifetimesKept
<1>11. Posted'
  BY <1>1, <1>2, <1>3, <1>4, <1>5, <1>7, PostedCreated
<1>12. Whole => Chain'
  BY <1>1, <1>2, <1>4, <1>5, <1>6, <1>7, QuietChain
<1>13. QED
  BY <1>7, <1>10, <1>11, <1>12, GameSettles

LEMMA SendDestroyedSettles ==
  ASSUME Inv, Settling, NEW i \in Ids, SendDestroyed(i)
  PROVE  Settling'
<1>1. /\ TypesOK /\ Game /\ Feed /\ Agree(m) /\ Lifetimes /\ Posted /\ (Whole => Chain)
      /\ obj \in [Ids -> Objects] /\ obj[i] \in Objects /\ nlib \in Nat
      /\ obj[i].made <= now /\ obj[i].made \in Nat /\ now \in Nat
  BY GameParts
<1>2. /\ obj[i].phase = "dying" /\ Message("destroyed", i, obj[i].dropped)
      /\ plan' = plan /\ nlib' = nlib /\ left' = left /\ behind' = behind
      /\ exitAt' = exitAt /\ etwq' = etwq /\ m' = m
  BY DEF SendDestroyed
<1>3. PICK ts : /\ Writes("destroyed", i, ts)
                /\ obj' = [obj EXCEPT ![i].phase = "gone", ![i].died = ts]
  BY <1>2 DEF Message, Writes
<1> DEFINE o == [obj[i] EXCEPT !.phase = "gone", !.died = ts]
<1>4. /\ o.phase = "gone" /\ o.addr = obj[i].addr /\ o.made = obj[i].made
      /\ o.freed = obj[i].freed /\ o.died = ts /\ o.group = obj[i].group
      /\ o.libs = obj[i].libs
  BY <1>1 DEF Objects
<1>5. obj'[i] = o /\ \A j \in Ids : j # i => obj'[j] = obj[j]
  BY <1>1, <1>3
<1> HIDE DEF o
<1>6. Begun(i) /\ obj[i].died = 0 /\ Hooked(i)
  BY <1>1, <1>2 DEF Begun, Lifetimes
<1>7. Onward(i)
  BY <1>2, <1>4, <1>5, <1>6 DEF Onward
<1>8. Begun(i)' /\ (Hooked(i)' <=> Hooked(i)) /\ (HasMemory(i)' <=> HasMemory(i))
  BY <1>1, <1>6, <1>7, OnwardSame
<1>9. LifeOf(i)'
  <2>1. /\ obj[i].libs # {} /\ (obj[i].group = "Unknown" <=> ~HasMemory(i))
        /\ obj[i].libs \subseteq 1 .. nlib
        /\ obj[i].freed # 0 => obj[i].made < obj[i].freed
    BY <1>1, <1>6 DEF Lifetimes
  <2>2. QED
    BY <1>1, <1>2, <1>4, <1>5, <1>6, <1>8, <2>1 DEF LifeOf
<1>10. Lifetimes'
  BY <1>1, <1>2, <1>4, <1>5, <1>6, <1>7, <1>9, LifetimesKept
<1>11. Posted'
  BY <1>1, <1>2, <1>3, <1>4, <1>5, <1>7, PostedDestroyed
<1>12. Whole => Chain'
  BY <1>1, <1>2, <1>4, <1>5, <1>6, <1>7, QuietChain
<1>13. QED
  BY <1>7, <1>10, <1>11, <1>12, GameSettles

LEMMA MoveGroupSettles ==
  ASSUME Inv, Settling, NEW i \in Ids, MoveGroup(i)
  PROVE  Settling'
<1>g. PICK g : g = IF obj[i].group = "Vram" THEN "Sys" ELSE "Vram"
  OBVIOUS
<1> DEFINE o == [obj[i] EXCEPT !.group = g]
<1>1. /\ TypesOK /\ Game /\ Feed /\ Agree(m) /\ Lifetimes /\ Posted /\ (Whole => Chain)
      /\ obj \in [Ids -> Objects] /\ obj[i] \in Objects /\ now \in Nat /\ nlib \in Nat
      /\ obj[i].made <= now /\ obj[i].made \in Nat /\ (Begun(i) <=> obj[i].made # 0)
      /\ obj[i].libs \subseteq Libs
  BY GameParts
<1>2. /\ Alive(i) /\ plan.kinds[i] \in {"heap", "committed"}
      /\ obj' = [obj EXCEPT ![i].group = g]
      /\ \E lib \in obj[i].libs : etwq' = etwq \o Recorded(<<"group">>, i, lib, g)
      /\ plan' = plan /\ nlib' = nlib /\ left' = [left EXCEPT !.moves = @ - 1]
      /\ behind' = behind /\ exitAt' = exitAt /\ pipeq' = pipeq /\ m' = m
  BY <1>g DEF MoveGroup
<1>3. /\ o.phase = obj[i].phase /\ o.addr = obj[i].addr /\ o.made = obj[i].made
      /\ o.freed = obj[i].freed /\ o.died = obj[i].died /\ o.group = g
      /\ o.libs = obj[i].libs
  BY <1>1 DEF Objects
<1>4. obj'[i] = o /\ \A j \in Ids : j # i => obj'[j] = obj[j]
  BY <1>1, <1>2
<1> HIDE DEF o
<1>5. Begun(i) /\ obj[i].freed = 0 /\ HasMemory(i) /\ g # "Unknown"
  BY <1>1, <1>2, <1>g DEF Alive, HasMemory
<1>6. Onward(i)
  <2>1. left'.lost = left.lost
    BY <1>1, <1>2 DEF TypesOK, Plan
  <2>2. QED
    BY <1>2, <1>3, <1>4, <1>5, <2>1 DEF Onward, Begun
<1>7. Begun(i)' /\ (Hooked(i)' <=> Hooked(i)) /\ (HasMemory(i)' <=> HasMemory(i))
      /\ obj'[i].made = obj[i].made
  BY <1>1, <1>5, <1>6, OnwardSame
<1>8. LifeOf(i)'
  <2>1. /\ obj[i].libs # {}
        /\ obj[i].libs \subseteq 1 .. nlib
        /\ obj[i].phase # "gone" => obj[i].died = 0
        /\ obj[i].phase \in {"sent", "dying", "gone"} => Hooked(i)
    BY <1>1, <1>5 DEF Lifetimes
  <2>2. QED
    BY <1>1, <1>2, <1>3, <1>4, <1>5, <1>7, <2>1 DEF LifeOf, Begun
<1>9. Lifetimes'
  BY <1>1, <1>2, <1>3, <1>4, <1>5, <1>6, <1>8, LifetimesKept
<1>10. Posted'
  <2>1. obj'[i].phase = obj[i].phase
    BY <1>3, <1>4
  <2>2. QED
    BY <1>1, <1>2, <1>6, <2>1, PostedKept
<1>11. ASSUME Whole PROVE Chain'
  <2>1. PICK lib \in obj[i].libs : etwq' = etwq \o Recorded(<<"group">>, i, lib, g)
    BY <1>2
  <2>2. PICK op : op = "group"
    OBVIOUS
  <2>3. PICK W : W = {Rec(op, i, lib, g)}
    OBVIOUS
  <2>4. Pending' = Pending \union W /\ Sorted'
    <3>1. op \in Ops /\ etwq' = etwq \o Recorded(<<op>>, i, lib, g)
      BY <2>1, <2>2 DEF Ops
    <3>2. QED
      BY <1>1, <1>11, <2>3, <3>1, OneLogged DEF Chain
  <2>5. \A r \in W : r.op = "group" /\ r.id = i /\ r.lib = lib /\ r.group = g /\ r.ts = now + 1
    BY <2>2, <2>3 DEF Rec
  <2>6. W # {} /\ \A r, s \in W : r = s
    BY <2>3
  <2>7. Adds(i, W)
    BY <1>1, <1>3, <1>4, <1>5, <2>4, <2>5, <2>6 DEF Adds, Single
  <2>8. ASSUME NEW r \in W PROVE RecordOk(Pending, r)'
    <3>1. r \in Pending' /\ r.op = "group" /\ r.id = i /\ r.lib = lib /\ r.group = g /\ r.ts = now + 1
      BY <2>4, <2>5, <2>8
    <3>2. Tracked(Pending, r.id)' /\ obj'[i].freed = 0
      BY <1>3, <1>4, <1>5, <1>7, <3>1 DEF Tracked
    <3>3. \A s \in Pending' : s.op = "address" => s.ts < r.ts
      <4>1. \A s \in Pending : s.ts \in Nat /\ s.ts <= now
        BY <1>1, PendingFacts
      <4>2. QED
        BY <1>1, <2>4, <2>5, <3>1, <4>1
    <3>4. r.lib \in obj'[i].libs /\ obj'[i].made <= r.ts /\ obj'[i].group = g
      BY <1>1, <1>3, <1>4, <1>7, <3>1
    <3>5. HasMemory(r.id)' <=> HasMemory(i)
      BY <1>7, <3>1
    <3>6. QED
      BY <1>5, <3>1, <3>2, <3>3, <3>4, <3>5 DEF RecordOk
  <2>9. QED
    BY <1>1, <1>6, <1>11, <2>7, <2>8, LogChain
<1>12. QED
  BY <1>6, <1>9, <1>10, <1>11, GameSettles

\* A new library id of i is logged.
LEMMA AddedChain ==
  ASSUME TypesOK, Game, Agree(m), Lifetimes, Chain, NEW i \in Ids, Onward(i), NEW g, NEW l,
         l = nlib + 1, l \in Libs,
         etwq' = etwq \o Recorded(<<"create", "address">>, i, l, g),
         obj[i].freed = 0, obj'[i].freed = 0, obj'[i].libs = obj[i].libs \union {l},
         obj'[i].made <= now + 1, obj'[i].group = g, g = "Unknown" <=> ~HasMemory(i)
  PROVE  Chain'
<1>1. PICK W : W = {Rec("create", i, l, g), Rec("address", i, l, g)}
  OBVIOUS
<1>2. /\ obj[i].libs \subseteq Libs /\ Begun(i)' /\ (HasMemory(i)' <=> HasMemory(i))
  BY ObjectFacts, OnwardSame DEF Onward, Begun
<1>3. Pending' = Pending \union W /\ Sorted'
  <2>1. Sorted
    BY DEF Chain
  <2>2. etwq' = etwq \o Recorded(<<"create", "address">>, i, l, g)
    OBVIOUS
  <2>3. QED
    BY ONLY TypesOK, <1>1, <2>1, <2>2, TwoLogged
<1>4. \A r \in W : /\ r.op \in {"create", "address"} /\ r.id = i /\ r.lib = l
                   /\ r.group = g /\ r.ts = now + 1
  BY <1>1 DEF Rec
<1>5. /\ \A r, s \in W : r.op = s.op => r = s
      /\ \E r \in W : r.op = "create" /\ r.lib = nlib + 1
      /\ \E r \in W : r.op = "address" /\ r.lib = nlib + 1
      /\ \A r \in W : r.op = "create" => AddressOf(r) \in W
  BY <1>1 DEF Rec, AddressOf
<1>6. Adds(i, W)
  <2>1. obj'[i].libs \subseteq Libs /\ obj'[i].libs = obj[i].libs \union {nlib + 1}
    BY <1>2
  <2>2. \A r, s \in W : Single(r, s)
    BY <1>5 DEF Single
  <2>3. W # {}
    BY <1>1
  <2>4. QED
    BY <1>3, <1>4, <1>5, <2>1, <2>2, <2>3 DEF Adds
<1>7. ASSUME NEW r \in W PROVE RecordOk(Pending, r)'
  <2>1. /\ r \in Pending' /\ r.op \in {"create", "address"} /\ r.id = i /\ r.lib = l
        /\ r.group = g /\ r.ts = now + 1
    BY <1>3, <1>4, <1>7
  <2>2. Tracked(Pending, r.id)'
    BY <1>2, <2>1 DEF Tracked
  <2>3. r.op = "create" => AddressOf(r) \in Pending'
    BY <1>3, <1>5, <1>7
  <2>4. HasMemory(r.id)' <=> HasMemory(i)
    BY <1>2, <2>1
  <2>5. QED
    BY <2>1, <2>2, <2>3, <2>4 DEF RecordOk, AddressOf
<1>8. QED
  BY <1>6, <1>7, LogChain

LEMMA RereportSettles ==
  ASSUME Inv, Settling, NEW i \in Ids, Rereport(i)
  PROVE  Settling'
<1> DEFINE o == [obj[i] EXCEPT !.libs = @ \union {nlib + 1}]
<1>1. /\ TypesOK /\ Game /\ Feed /\ Agree(m) /\ Lifetimes /\ Posted /\ (Whole => Chain)
      /\ obj \in [Ids -> Objects] /\ obj[i] \in Objects /\ now \in Nat /\ nlib \in Nat
      /\ obj[i].made <= now /\ obj[i].made \in Nat /\ (Begun(i) <=> obj[i].made # 0)
  BY GameParts
<1>2. /\ left.reports > 0 /\ Alive(i) /\ obj' = [obj EXCEPT ![i].libs = @ \union {nlib + 1}]
      /\ etwq' = etwq \o Recorded(<<"create", "address">>, i, nlib + 1, obj[i].group)
      /\ plan' = plan /\ nlib' = nlib + 1 /\ left' = [left EXCEPT !.reports = @ - 1]
      /\ behind' = behind /\ exitAt' = exitAt /\ pipeq' = pipeq /\ m' = m
  BY DEF Rereport
<1>3. /\ o.phase = obj[i].phase /\ o.addr = obj[i].addr /\ o.made = obj[i].made
      /\ o.freed = obj[i].freed /\ o.died = obj[i].died /\ o.group = obj[i].group
      /\ o.libs = obj[i].libs \union {nlib + 1}
  BY <1>1 DEF Objects
<1>4. obj'[i] = o /\ \A j \in Ids : j # i => obj'[j] = obj[j]
  BY <1>1, <1>2
<1> HIDE DEF o
<1>5. Begun(i) /\ obj[i].freed = 0
  BY <1>1, <1>2 DEF Alive
<1>6. Onward(i)
  <2>1. left'.lost = left.lost
    BY <1>1, <1>2 DEF TypesOK, Plan
  <2>2. QED
    BY <1>2, <1>3, <1>4, <1>5, <2>1 DEF Onward, Begun
<1>7. Begun(i)' /\ (Hooked(i)' <=> Hooked(i)) /\ (HasMemory(i)' <=> HasMemory(i))
  BY <1>1, <1>5, <1>6, OnwardSame
<1>8. /\ obj[i].libs # {} /\ (obj[i].group = "Unknown" <=> ~HasMemory(i))
      /\ obj[i].libs \subseteq 1 .. nlib
      /\ obj[i].phase # "gone" => obj[i].died = 0
      /\ obj[i].phase \in {"sent", "dying", "gone"} => Hooked(i)
  BY <1>1, <1>5 DEF Lifetimes
<1>9. LifeOf(i)'
  <2>1. obj'[i].libs \subseteq 1 .. nlib' /\ obj'[i].libs # {}
    BY <1>1, <1>2, <1>3, <1>4, <1>8
  <2>2. QED
    BY <1>1, <1>3, <1>4, <1>5, <1>7, <1>8, <2>1 DEF LifeOf, Begun
<1>10. Lifetimes'
  <2>1. /\ obj'[i].libs = obj[i].libs \union {nlib + 1} /\ nlib' = nlib + 1
        /\ nlib' \in Nat
    BY <1>1, <1>2, <1>3, <1>4
  <2>2. QED
    BY ONLY i \in Ids, <1>1, <1>5, <1>6, <1>9, <2>1, LifetimesKept
<1>11. Posted'
  <2>1. obj'[i].phase = obj[i].phase
    BY <1>3, <1>4
  <2>2. QED
    BY <1>1, <1>2, <1>6, <2>1, PostedKept
<1>12. ASSUME Whole PROVE Chain'
  <2>1. PICK l : l = nlib + 1
    OBVIOUS
  <2>2. PICK g : g = obj[i].group
    OBVIOUS
  <2>3. l \in Libs
    BY <1>1, <1>2, <2>1, NextLib
  <2>4. etwq' = etwq \o Recorded(<<"create", "address">>, i, l, g)
    BY <1>2, <2>1, <2>2
  <2>5. /\ obj'[i].freed = 0 /\ obj'[i].libs = obj[i].libs \union {l}
        /\ obj'[i].made <= now + 1 /\ obj'[i].group = g
    BY <1>1, <1>3, <1>4, <1>5, <2>1, <2>2
  <2>6. g = "Unknown" <=> ~HasMemory(i)
    BY <1>8, <2>2
  <2>7. QED
    BY <1>1, <1>5, <1>6, <1>12, <2>1, <2>3, <2>4, <2>5, <2>6, AddedChain
<1>13. QED
  BY <1>6, <1>10, <1>11, <1>12, GameSettles

LEMMA ConstructSettles ==
  ASSUME Inv, Settling, NEW i \in Ids, NEW p \in plan.addrs, NEW h \in Ids, Construct(i, p, h)
  PROVE  Settling'
<1>g. PICK g : g = IF HasMemory(i) THEN "Vram" ELSE "Unknown"
  OBVIOUS
<1>b. PICK b : b = IF Placed(i) THEN h ELSE 0
  OBVIOUS
<1> DEFINE o == [obj[i] EXCEPT !.phase = "made", !.addr = p, !.made = now + 1, !.group = g,
                               !.parent = b, !.libs = {nlib + 1}]
<1>1. /\ TypesOK /\ Game /\ Feed /\ Agree(m) /\ Lifetimes /\ Posted /\ (Whole => Chain)
      /\ obj \in [Ids -> Objects] /\ obj[i] \in Objects /\ now \in Nat /\ nlib \in Nat
  BY GameParts
<1>2. /\ obj[i].phase = "new" /\ obj' = [obj EXCEPT ![i] = o]
      /\ \A j \in Ids : Alive(j) => obj[j].addr # p
      /\ etwq' = etwq \o Recorded(<<"create", "address">>, i, nlib + 1, g)
      /\ plan' = plan /\ nlib' = nlib + 1 /\ left' = left
      /\ behind' = behind /\ exitAt' = exitAt /\ pipeq' = pipeq /\ m' = m
  BY <1>g, <1>b DEF Construct
<1>3. /\ o.phase = "made" /\ o.addr = p /\ o.made = now + 1
      /\ o.freed = obj[i].freed /\ o.died = obj[i].died /\ o.group = g
      /\ o.libs = {nlib + 1}
  BY <1>1 DEF Objects
<1> HIDE DEF o
<1>4. obj'[i] = o /\ \A j \in Ids : j # i => obj'[j] = obj[j]
  BY <1>1, <1>2
<1>5. ~Begun(i) /\ obj[i].freed = 0 /\ obj[i].libs = {} /\ obj[i].died = 0
  BY <1>1, <1>2 DEF Begun, Lifetimes
<1>6. Onward(i)
  BY <1>2, <1>3, <1>4, <1>5 DEF Onward
<1>7. /\ Ids' = Ids
      /\ \A j : /\ TypeOf(j)' = TypeOf(j) /\ (HasMemory(j)' <=> HasMemory(j))
                /\ (Hooked(j)' <=> Hooked(j))
      /\ Begun(i)' /\ \A j \in Ids : j # i => (Begun(j)' <=> Begun(j))
  BY <1>1, <1>3, <1>4, <1>6, OnwardSame DEF Begun
<1>8. g = "Unknown" <=> ~HasMemory(i)
  BY <1>g
<1>9. Lifetimes'
  <2>1. ASSUME NEW j \in Ids, Begun(j)'
        PROVE  /\ obj'[j].libs # {}
               /\ obj'[j].freed # 0 => obj'[j].made < obj'[j].freed
               /\ obj'[j].group = "Unknown" <=> ~HasMemory(j)'
    <3>1. CASE j = i
      BY <1>3, <1>4, <1>5, <1>7, <1>8, <3>1
    <3>2. CASE j # i
      BY <1>1, <1>4, <1>7, <2>1, <3>2 DEF Lifetimes
    <3>3. QED
      BY <3>1, <3>2
  <2>2. ASSUME NEW j \in Ids
        PROVE  /\ obj'[j].libs \subseteq 1 .. nlib'
               /\ obj'[j].phase = "new" => obj'[j].libs = {} /\ obj'[j].freed = 0
               /\ obj'[j].phase = "sent" => obj'[j].freed = 0
               /\ obj'[j].phase = "made" /\ Hooked(j)' => obj'[j].freed = 0
               /\ obj'[j].phase # "gone" => obj'[j].died = 0
               /\ obj'[j].phase \in {"sent", "dying", "gone"} => Hooked(j)'
    <3>1. CASE j = i
      BY <1>1, <1>2, <1>3, <1>4, <1>5, <3>1
    <3>2. CASE j # i
      <4>1. obj[j].libs \subseteq 1 .. nlib
        BY <1>1 DEF Lifetimes
      <4>2. obj'[j].libs \subseteq 1 .. nlib'
        BY <1>1, <1>2, <1>4, <3>2, <4>1
      <4>3. QED
        BY <1>1, <1>4, <1>7, <3>2, <4>2 DEF Lifetimes
    <3>3. QED
      BY <3>1, <3>2
  <2>3. ASSUME NEW j \in Ids, NEW k \in Ids, j # k
        PROVE  obj'[j].libs \intersect obj'[k].libs = {}
    <3>1. \A c \in Ids : nlib + 1 \notin obj[c].libs
      BY <1>1 DEF Lifetimes
    <3>2. obj[j].libs \intersect obj[k].libs = {}
      BY <1>1, <2>3 DEF Lifetimes
    <3>3. QED
      BY <1>3, <1>4, <2>3, <3>1, <3>2
  <2>4. ASSUME NEW j \in Ids, j # i, Begun(j), obj[j].addr = p
        PROVE  obj[j].freed # 0 /\ obj[j].freed < now + 1
    <3>1. obj[j].made # 0 /\ obj[j].freed \in Nat /\ obj[j].freed <= now
      BY <1>1, <2>4, ObjectFacts DEF Game
    <3>2. ~Alive(j)
      BY <1>2, <2>4
    <3>3. QED
      BY <1>1, <3>1, <3>2 DEF Alive
  <2>5. ASSUME NEW j \in Ids, NEW k \in Ids, j # k, Begun(j)', Begun(k)',
               obj'[j].addr = obj'[k].addr
        PROVE  Apart(j, k)' \/ Apart(k, j)'
    <3>1. CASE j = i
      BY <1>3, <1>4, <1>7, <2>4, <2>5, <3>1 DEF Apart
    <3>2. CASE k = i
      BY <1>3, <1>4, <1>7, <2>4, <2>5, <3>2 DEF Apart
    <3>3. CASE j # i /\ k # i
      BY <1>1, <1>4, <1>7, <2>5, <3>3 DEF Apart, Lifetimes
    <3>4. QED
      BY <3>1, <3>2, <3>3
  <2>6. QED
    BY <1>7, <2>1, <2>2, <2>3, <2>5 DEF Lifetimes
<1>10. Posted'
  <2>1. obj'[i].phase = "made"
    BY <1>3, <1>4
  <2>2. QED
    BY <1>1, <1>2, <1>6, <2>1, PostedKept
<1>11. ASSUME Whole PROVE Chain'
  <2>1. PICK l : l = nlib + 1
    OBVIOUS
  <2>2. l \in Libs
    BY <1>1, <1>5, <2>1, NextLib
  <2>3. etwq' = etwq \o Recorded(<<"create", "address">>, i, l, g)
    BY <1>2, <2>1
  <2>4. /\ obj'[i].freed = 0 /\ obj'[i].libs = obj[i].libs \union {l}
        /\ obj'[i].made <= now + 1 /\ obj'[i].group = g
    BY <1>1, <1>3, <1>4, <1>5, <2>1
  <2>5. QED
    BY <1>1, <1>5, <1>6, <1>8, <1>11, <2>1, <2>2, <2>3, <2>4, AddedChain
<1>12. QED
  BY <1>6, <1>9, <1>10, <1>11, GameSettles

-----------------------------------------------------------------------------
(* The invariant, and what it says once the feeds are drained.             *)
LEMMA SettlingStarts == Init => Settling
<1> SUFFICES ASSUME Init
             PROVE  Settling
  OBVIOUS
<1>1. /\ now = 0 /\ nlib = 0 /\ left = plan /\ pipeq = <<>> /\ etwq = <<>>
      /\ obj = [i \in Ids |-> Object] /\ plan \in Plan
      /\ m.live = [i \in Ids |-> NoObj] /\ m.dead = [p \in plan.addrs |-> <<>>]
      /\ m.etw = [k \in Libs |-> NoObj]
  BY JoinConstants DEF Init
<1>2. \A i \in Ids : /\ ~Begun(i) /\ ~In(m, i) /\ obj[i].phase = "new"
                     /\ obj[i].libs = {} /\ obj[i].freed = 0 /\ obj[i].died = 0
  BY <1>1 DEF Begun, In, Object
<1>3. \A k \in Libs : ~KnownIn(m, k)
  BY <1>1 DEF KnownIn
<1>4. Pending = {} /\ DOMAIN etwq = {} /\ DOMAIN pipeq = {}
  BY <1>1 DEF Pending
<1>5. left.lost <= plan.lost
  BY <1>1 DEF Plan
<1>6. Lifetimes
  BY <1>2 DEF Lifetimes
<1>7. Posted
  BY <1>2, <1>4 DEF Posted
<1>8. Buried(m)
  BY <1>1 DEF Buried
<1>9. Owned(m) /\ Present(m) /\ Found(m)
  BY <1>2, <1>3 DEF Owned, Present, Found
<1>10. Sorted /\ Queue(Pending) /\ Entries(Pending, m)
  BY <1>3, <1>4 DEF Sorted, Queue, Entries
<1>11. Progress(Pending, m)
  BY <1>2 DEF Progress, Tracked
<1>12. QED
  BY <1>5, <1>6, <1>7, <1>8, <1>9, <1>10, <1>11 DEF Settling, Chain

LEMMA SettlingKept == Inv /\ Settling /\ [Next]_vars => Settling'
<1> SUFFICES ASSUME Inv, Settling, [Next]_vars
             PROVE  Settling'
  OBVIOUS
<1>1. CASE UNCHANGED vars
  <2>1. UNCHANGED game /\ m' = m /\ pipeq' = pipeq /\ etwq' = etwq
    BY <1>1 DEF vars, feeds
  <2>2. QED
    BY <2>1, StillSettles
<1>2. ASSUME NEW i \in Ids, NEW p \in plan.addrs, NEW h \in Ids, Construct(i, p, h)
      PROVE  Settling'
  BY <1>2, ConstructSettles
<1>3. ASSUME NEW i \in Ids, SendCreated(i) \/ SendDestroyed(i)
      PROVE  Settling'
  BY <1>3, SendCreatedSettles, SendDestroyedSettles
<1>4. ASSUME NEW i \in Ids, Release(i) \/ Drop(i) \/ RuntimeFree(i)
      PROVE  Settling'
  BY <1>4, ReleaseSettles, DropSettles, RuntimeFreeSettles
<1>5. ASSUME NEW i \in Ids, Rereport(i) \/ MoveGroup(i)
      PROVE  Settling'
  BY <1>5, RereportSettles, MoveGroupSettles
<1>6. CASE ChildExit
  BY <1>6, ChildExitSettles
<1>7. CASE PipeCreated \/ PipeDestroyed
  BY <1>7, PipeCreatedSettles, PipeDestroyedSettles
<1>8. CASE OnEtwObjectCreated \/ OnEtwObjectAddress \/ OnEtwObjectDestroyed
  BY <1>8, CreatedSettles, AddressSettles, DestroySettles
<1>9. CASE OnEtwGroupChanges \/ EtwLose
  BY <1>9, GroupSettles, EtwLoseSettles
<1>10. CASE PollChild
  <2>1. UNCHANGED game /\ m' = m /\ pipeq' = pipeq /\ etwq' = etwq
    BY <1>10 DEF PollChild, feeds
  <2>2. QED
    BY <2>1, StillSettles
<1>11. CASE ForgetDead
  BY <1>11, ForgetDeadSettles
<1>12. QED
  BY <1>1, <1>2, <1>3, <1>4, <1>5, <1>6, <1>7, <1>8, <1>9, <1>10, <1>11 DEF Next

\* Once both feeds are drained, what the Model has of i is true.
Joined(i) ==
  /\ Begun(i)
  /\ m.live[i].key # 0 /\ m.etw[m.live[i].key].obj = i
  /\ m.live[i].own = obj[i].group
LEMMA DrainedJoins ==
  ASSUME Inv, Settling, Fair, Hushed, NEW i \in Ids, In(m, i)
  PROVE  Joined(i)
<1>1. /\ TypesOK /\ Game /\ Feed /\ Agree(m) /\ Lifetimes /\ Posted /\ Owned(m)
      /\ Chain /\ Found(m)
  BY DEF Inv, Settling, Fair
<1>2. Pending = {} /\ DOMAIN pipeq = {}
  BY DEF Hushed, Pending
<1>3. obj[i].phase = "sent"
  <2>1. obj[i].phase \in {"new", "made", "sent", "dying", "gone"}
    BY <1>1, ObjectFacts
  <2>2. obj[i].phase \notin {"new", "made"}
    BY <1>1 DEF Feed, In
  <2>3. obj[i].phase # "dying"
    BY DEF Hushed
  <2>4. obj[i].phase # "gone"
    BY <1>1, <1>2 DEF Posted
  <2>5. QED
    BY <2>1, <2>2, <2>3, <2>4
<1>4. Begun(i) /\ obj[i].freed = 0
  BY <1>1, <1>3 DEF Begun, Lifetimes
<1>5. Silent(Pending, i)
  BY <1>2 DEF Silent
<1>6. PICK k : k = m.byAddr[obj[i].addr]
  OBVIOUS
<1>7. /\ k \in Libs /\ KnownIn(m, k) /\ m.etw[k].obj = i
      /\ m.etw[k].address = obj[i].addr /\ obj[i].addr # NoAddr
  <2>1. PICK Q : Q = Pending
    OBVIOUS
  <2>2. Q \subseteq Pending /\ Queue(Q) /\ Progress(Q, m) /\ Silent(Q, i)
    BY <1>1, <1>5, <2>1 DEF Chain
  <2>3. QED
    BY ONLY <1>1, i \in Ids, <1>4, <1>6, <2>2, SilentSettled
<1>8. m.etw[k].bound = i
  BY <1>1, <1>3, <1>7 DEF Found, FoundBy
<1>9. i # 0 /\ k # 0
  BY Numbers, <1>7 DEF Ids, Libs
<1>10. m.live[i].key = k
  BY <1>1, <1>7, <1>8, <1>9 DEF Agree, Bindings
<1>11. m.live[i].own = m.etw[k].group
  BY <1>1, <1>9, <1>10 DEF Owned
<1>12. m.etw[k].group = obj[i].group
  BY <1>1, <1>4, <1>5, <1>6 DEF Chain, Progress
<1>13. QED
  BY <1>4, <1>7, <1>9, <1>10, <1>11, <1>12 DEF Joined

\* The join finds every object, in every game of any plan: with ETW behind the
\* pipe, no record lost, every death stamped within kBindSlackNs of the next
\* construction at its address and both feeds drained, each live object is bound
\* to the ETW object that is really it and has the location its memory is in,
\* whatever addresses were used again, re-reports folded and groups changed on
\* the way (Model.cpp:590-661, 788-899).
THEOREM JoinCorrect == Spec => []JoinSettles
<1>1. Inv /\ Settling => JoinSettles
  <2> SUFFICES ASSUME Inv, Settling, behind, Hushed, Punctual, left.lost = plan.lost, Running,
                      NEW i \in Live
               PROVE  /\ m.live[i].key # 0
                      /\ m.etw[m.live[i].key].obj = i
                      /\ m.live[i].eff = RealLoc(i)
    BY DEF JoinSettles
  <2>1. Fair
    BY DEF Fair, Whole
  <2>2. TypesOK /\ Game /\ Lifetimes /\ Follows(m)
    BY DEF Inv, Settling, Agree
  <2>3. i \in Ids /\ In(m, i)
    BY DEF Live, In
  <2>4. Joined(i)
    BY <2>1, <2>3, DrainedJoins
  <2>5. m.live[i].eff = EffLoc(m, i)
    BY <2>2, <2>3 DEF Follows
  <2>6. CASE Placed(i) /\ m.live[obj[i].parent] # NoObj
    <3>1. PICK h \in Ids : h = obj[i].parent /\ plan.kinds[h] = "heap"
      <4>1. Begun(i)
        BY <2>4 DEF Joined
      <4>2. QED
        BY <2>2, <2>3, <2>6, <4>1 DEF Game
    <3>2. Joined(h)
      <4>1. In(m, h)
        BY <2>6, <3>1 DEF In
      <4>2. QED
        BY <2>1, <4>1, DrainedJoins
    <3>3. HasMemory(h)
      BY <3>1 DEF HasMemory
    <3>4. obj[h].group # "Unknown"
      <4>1. Begun(h)
        BY <3>2 DEF Joined
      <4>2. \A j \in Ids : Begun(j) => (obj[j].group = "Unknown" <=> ~HasMemory(j))
        BY <2>2 DEF Lifetimes
      <4>3. QED
        BY <3>3, <4>1, <4>2
    <3>5. h # 0
      BY <2>2, Numbers
    <3>6. EffLoc(m, i) = obj[h].group
      BY <2>6, <3>1, <3>2, <3>4, <3>5 DEF EffLoc, Joined
    <3>7. QED
      BY <2>4, <2>5, <2>6, <3>1, <3>6 DEF RealLoc, Joined
  <2>7. CASE ~(Placed(i) /\ m.live[obj[i].parent] # NoObj)
    <3>1. EffLoc(m, i) = m.live[i].own
      BY <2>7 DEF EffLoc
    <3>2. QED
      BY <2>4, <2>5, <2>7, <3>1 DEF RealLoc, Joined
  <2>8. QED
    BY <2>6, <2>7
<1>2. Spec => []Settling
  BY SettlingStarts, SettlingKept, AlwaysInv, PTL DEF Spec
<1>3. QED
  BY <1>1, <1>2, AlwaysInv, PTL

=============================================================================
