------------------------------ MODULE EtwJoin ------------------------------
(***************************************************************************)
(* The launcher's Model (launcher/Model.cpp) under --etw.  Two feeds about *)
(* the same objects of the game arrive on two threads, each in its own     *)
(* order: the pipe (objects by id, from the DLL's hooks) and ETW (objects  *)
(* by library id, from the D3D12 runtime).  The Model joins them by        *)
(* address and time stamp, and keeps, for each live object, the memory it  *)
(* is in.                                                                  *)
(*                                                                         *)
(* The first half of the state is the game, the runtime and the two feeds; *)
(* m is the Model's own state, and the operators on it are the member      *)
(* functions that expect mu_ held: each takes the Model and returns it     *)
(* changed.  Every handler takes mu_ once, so it is one action.            *)
(*                                                                         *)
(* Time is counted in stamped steps.  Left out: pending_q_ and `expired`   *)
(* (statistics: they do not keep an object from binding), sizes reported   *)
(* by drivers, counters, residency operations, sidecar lines and the name  *)
(* of an object.  Hello is handled before anything else.                   *)
(***************************************************************************)
EXTENDS Integers, Sequences, FiniteSets, FiniteSetsExt, SequencesExt

CONSTANTS
  Addrs,       \* addresses the runtime allocates objects at
  NoAddr,      \* the null address
  NoObj,       \* nothing under a key
  Plans,       \* the games: what each may create, and how often what else happens
  Regimes,     \* a set of BOOLEANs: TRUE, ETW runs behind the pipe; FALSE, anyhow
  Overtaking,  \* may a Created overtake the Destroyed of the same address?
  Slack,       \* kBindSlackNs
  DeadCap,     \* kDeadPerAddress
  History      \* kDestroyHistoryNs

\* A plan bounds one game: the kinds of its objects, by id, the addresses it
\* uses, and how many rundown re-reports, moves of an allocation between
\* segment groups, lost ETW records and exits there are.
Kinds == {"heap", "placed", "committed", "pso", "internal"}
Plan == [kinds : Seq(Kinds), addrs : SUBSET Addrs,
         reports : Nat, moves : Nat, lost : Nat, exits : {0, 1}]

ASSUME JoinConstants ==
  /\ Plans \subseteq Plan
  /\ Regimes \subseteq BOOLEAN
  /\ Overtaking \in BOOLEAN
  /\ {Slack, History} \subseteq Nat
  /\ DeadCap \in Nat \ {0}
  /\ NoAddr \notin Addrs

Locs == {"Unknown", "Vram", "Sys"}
Types == {"Heap", "Resource", "PipelineState"}

\* A map has no record under a key that it does not hold.
ASSUME NothingIsNoRecord ==
  /\ NoObj \notin [prev : Nat, key : Nat, own : Locs, eff : Locs]
  /\ NoObj \notin [type : Types, address : Addrs \union {NoAddr}, group : Locs,
                   created : Nat, bound : Nat, orphan : BOOLEAN,
                   aliases : SUBSET Nat, obj : Nat]

VARIABLES
  plan,     \* the plan of this game
  behind,   \* TRUE: an ETW record is delivered after what the pipe says of its time
  now,      \* the clock, counted in stamped steps
  obj,      \* the objects as they really are
  nlib,     \* library ids handed out
  left,     \* what is left of its bounds
  exitAt,   \* when the exit code of the game was set, 0 while it runs
  pipeq,    \* pipe messages not yet handled
  etwq,     \* ETW records not yet handled
  m,        \* the Model
  aliveTs,  \* child_alive_ts_
  exiting   \* child_exiting_; exit_cutoff_ts_ is then aliveTs

game == <<plan, behind, now, obj, nlib, left, exitAt>>
feeds == <<pipeq, etwq>>
poll == <<aliveTs, exiting>>
vars == <<game, feeds, m, poll>>

Ids == DOMAIN plan.kinds
Libs == 1 .. (Len(plan.kinds) + plan.reports)

TypeOf(i) ==
  CASE plan.kinds[i] = "heap" -> "Heap"
    [] plan.kinds[i] = "pso" -> "PipelineState"
    [] OTHER -> "Resource"
Hooked(i) == plan.kinds[i] # "internal"
Placed(i) == plan.kinds[i] = "placed"
HasMemory(i) == plan.kinds[i] # "pso"
Size(i) == i

Object == [phase |-> "new", addr |-> NoAddr, parent |-> 0, made |-> 0,
           dropped |-> 0, freed |-> 0, died |-> 0, group |-> "Unknown", libs |-> {}]
Alive(i) == obj[i].made # 0 /\ obj[i].freed = 0

Live == {i \in Ids : m.live[i] # NoObj}
Known == {k \in Libs : m.etw[k] # NoObj}

Init ==
  /\ plan \in Plans
  /\ behind \in Regimes
  /\ now = 0 /\ nlib = 0 /\ exitAt = 0
  /\ obj = [i \in Ids |-> Object]
  /\ left = plan
  /\ pipeq = <<>> /\ etwq = <<>>
  /\ m = [live     |-> [i \in Ids |-> NoObj],
          bytes    |-> 0,
          loc      |-> [l \in Locs |-> 0],
          ptr      |-> [p \in plan.addrs |-> 0],
          dead     |-> [p \in plan.addrs |-> <<>>],
          children |-> [i \in Ids |-> {}],
          etw      |-> [k \in Libs |-> NoObj],
          alias    |-> [k \in Libs |-> 0],
          byAddr   |-> [p \in plan.addrs |-> 0]]
  /\ aliveTs = 0
  /\ exiting = FALSE

-----------------------------------------------------------------------------
(* The Model's member functions.                                           *)

Minus(a, b) == IF a >= b THEN a - b ELSE 0

Bindable(type) == type \in {"Resource", "Heap", "PipelineState"}

CanBind(M, k, i) ==
  /\ M.etw[k].bound = 0
  /\ ~M.etw[k].orphan
  /\ M.etw[k].type = TypeOf(i)
  /\ M.etw[k].created + Slack >= M.live[i].prev

EffLoc(M, i) ==
  LET h == obj[i].parent
  IN  IF Placed(i) /\ h # 0 /\ M.live[h] # NoObj /\ M.live[h].own # "Unknown"
      THEN M.live[h].own
      ELSE M.live[i].own

AddLoc(M, i) ==
  IF HasMemory(i) THEN [M EXCEPT !.loc[M.live[i].eff] = @ + Size(i)] ELSE M
SubLoc(M, i) ==
  IF HasMemory(i)
  THEN [M EXCEPT !.loc[M.live[i].eff] = Minus(@, Size(i))] ELSE M
\* Mutant: the location is changed before the bytes are taken off it.
SwappedMoveLoc(M, i, l) == AddLoc(SubLoc([M EXCEPT !.live[i].eff = l], i), i)

MoveLoc(M, i, l) == AddLoc([SubLoc(M, i) EXCEPT !.live[i].eff = l], i)

RecomputeLoc(M, i) ==
  IF EffLoc(M, i) = M.live[i].eff THEN M ELSE MoveLoc(M, i, EffLoc(M, i))

\* Objects that are not there yet move to the locations given, one by one.
MoveEach(M, to) ==
  FoldSet(LAMBDA c, acc : MoveLoc(acc, c, to[c]), M,
          {c \in DOMAIN to : M.live[c].eff # to[c]})
LiveChildren(M, h) == {c \in M.children[h] : M.live[c] # NoObj}

RecomputeChildren(M, h) ==
  MoveEach(M, [c \in LiveChildren(M, h) |-> EffLoc(M, c)])

\* Mutant: the placed resources of a heap are not told.
SetOwnLocOnly(M, i, l) == RecomputeLoc([M EXCEPT !.live[i].own = l], i)
\* What Bind and ApplyGroup do to the object and, for a heap, its children.
SetOwnLoc(M, i, l) ==
  LET M1 == RecomputeLoc([M EXCEPT !.live[i].own = l], i)
  IN  IF TypeOf(i) = "Heap" THEN RecomputeChildren(M1, i) ELSE M1

UnbindOld(M, k, i) ==
  LET old == M.live[i].key
  IN  IF old \notin {0, k} /\ M.etw[old] # NoObj
      THEN [M EXCEPT !.etw[old].bound = 0] ELSE M

Bind(M, k, i) ==
  SetOwnLoc([UnbindOld(M, k, i) EXCEPT !.etw[k].bound = i, !.live[i].key = k],
            i, M.etw[k].group)

LateMatch(M, k) ==
  \E j \in DOMAIN M.dead[M.etw[k].address] :
    LET x == M.dead[M.etw[k].address][j]
    IN  /\ x.type = M.etw[k].type
        /\ M.etw[k].created <= x.destroyed + Slack
        /\ M.etw[k].created + Slack >= x.prev

TryBindEtw(M, k) ==
  LET e == M.etw[k]
      i == IF e.address = NoAddr THEN 0 ELSE M.ptr[e.address]
  IN  IF e.bound # 0 \/ e.orphan \/ e.address = NoAddr \/ ~Bindable(e.type)
      THEN M
      ELSE IF i # 0 /\ M.live[i] # NoObj /\ CanBind(M, k, i)
      THEN Bind(M, k, i)
      ELSE IF LateMatch(M, k)
      THEN [M EXCEPT !.etw[k].orphan = TRUE]
      ELSE M

ApplyGroup(M, k, g) ==
  LET i  == M.etw[k].bound
      M1 == [M EXCEPT !.etw[k].group = g]
  IN  IF i # 0 /\ M.live[i] # NoObj THEN SetOwnLoc(M1, i, g) ELSE M1

EtwOnCreated(M, i) ==
  LET p    == obj[i].addr
      h    == obj[i].parent
      prev == IF M.dead[p] = <<>> THEN 0 ELSE Last(M.dead[p]).destroyed
      M1   == [M EXCEPT !.live[i].prev = prev, !.ptr[p] = i]
      M2   == IF Placed(i) /\ h # 0
              THEN [M1 EXCEPT !.children[h] = @ \union {i}] ELSE M1
      M3   == AddLoc([M2 EXCEPT !.live[i].eff = EffLoc(M2, i)], i)
      k    == M3.byAddr[p]
  IN  IF k # 0 /\ M3.etw[k] # NoObj /\ CanBind(M3, k, i)
      THEN Bind(M3, k, i) ELSE M3

\* The placed resources of a heap that dies keep their own location.
OrphanChildren(M, h) ==
  MoveEach([M EXCEPT !.children[h] = {}],
           [c \in LiveChildren(M, h) |-> M.live[c].own])

\* Mutant: the address is given up without looking who is there now.
ErasePtrAlways(M, i) == [M EXCEPT !.ptr[obj[i].addr] = 0]
\* The address may already belong to the next object.
ErasePtr(M, i) ==
  IF M.ptr[obj[i].addr] = i THEN [M EXCEPT !.ptr[obj[i].addr] = 0] ELSE M

\* Mutant: the dead of an address are never dropped.
RememberAll(s, x) == Append(s, x)

Remember(s, x) == IF Len(s) >= DeadCap THEN Append(Tail(s), x) ELSE Append(s, x)

\* Mutant: the record of a dead object still names it.
OrphanKeepsBound(M, i) ==
  LET k == M.live[i].key
  IN  IF k # 0 THEN [M EXCEPT !.etw[k].orphan = TRUE] ELSE M

\* The record of an object that died: it binds to nothing any more.
OrphanRecord(M, i) ==
  LET k == M.live[i].key
  IN  IF k # 0 /\ M.etw[k] # NoObj /\ M.etw[k].bound = i
      THEN [M EXCEPT !.etw[k].bound = 0, !.etw[k].orphan = TRUE] ELSE M

EtwOnDestroyed(M, i, ts) ==
  LET p    == obj[i].addr
      h    == obj[i].parent
      tomb == [type |-> TypeOf(i), prev |-> M.live[i].prev, destroyed |-> ts]
      M1   == [ErasePtr(SubLoc(M, i), i) EXCEPT !.dead[p] = Remember(@, tomb)]
      M2   == OrphanRecord(M1, i)
      M3   == IF Placed(i) /\ h # 0
              THEN [M2 EXCEPT !.children[h] = @ \ {i}] ELSE M2
  IN  IF TypeOf(i) = "Heap" THEN OrphanChildren(M3, i) ELSE M3

-----------------------------------------------------------------------------
(* The game and its runtime: what the two feeds are about.                 *)

Running == exitAt = 0
Tick == now' = now + 1
Recorded(ops, i, lib, g) ==
  [n \in DOMAIN ops |-> [op |-> ops[n], id |-> i, lib |-> lib,
                         group |-> g, ts |-> now + 1]]

\* Inside Create*: the runtime constructs the object and logs it.
Construct(i, p, h) ==
  /\ Running
  /\ obj[i].phase = "new"
  /\ \A j \in Ids : Alive(j) => obj[j].addr # p
  /\ IF Placed(i) THEN plan.kinds[h] = "heap" /\ obj[h].phase = "sent" ELSE h = i
  /\ Tick
  /\ nlib' = nlib + 1
  /\ LET g == IF HasMemory(i) THEN "Vram" ELSE "Unknown"
     IN  /\ obj' = [obj EXCEPT ![i] = [@ EXCEPT
               !.phase = "made", !.addr = p, !.made = now + 1, !.group = g,
               !.parent = IF Placed(i) THEN h ELSE 0, !.libs = {nlib + 1}]]
         /\ etwq' = etwq \o Recorded(<<"create", "address">>, i, nlib + 1, g)
  /\ UNCHANGED <<plan, behind, left, exitAt, pipeq, m, poll>>

Unreported(p) == \E j \in Ids : obj[j].addr = p /\ obj[j].phase = "dying"

\* A message is stamped before the lock under which it is written, so
\* threads overtake each other: at the earliest or at the latest time it can.
Message(op, i, since) ==
  \E ts \in {since + 1, now + 1} :
    /\ pipeq' = Append(pipeq, [op |-> op, id |-> i, ts |-> ts])
    /\ obj' = IF op = "created" THEN [obj EXCEPT ![i].phase = "sent"]
              ELSE [obj EXCEPT ![i].phase = "gone", ![i].died = ts]

SendCreated(i) ==
  /\ Running
  /\ Hooked(i) /\ obj[i].phase = "made"
  /\ Overtaking \/ ~Unreported(obj[i].addr)
  /\ Tick
  /\ Message("created", i, obj[i].made)
  /\ UNCHANGED <<plan, behind, nlib, left, exitAt, etwq, m, poll>>

Forgotten(i) == \E lib \in obj[i].libs :
  etwq' = etwq \o Recorded(<<"destroy">>, i, lib, "Unknown")

\* The application's last Release: the object dies with it, except for a
\* pipeline state, which the runtime may keep.
Release(i) ==
  /\ Running
  /\ obj[i].phase = "sent" /\ plan.kinds[i] # "pso"
  /\ Tick
  /\ obj' = [obj EXCEPT ![i] = [@ EXCEPT !.phase = "dying",
                               !.dropped = now + 1, !.freed = now + 1]]
  /\ Forgotten(i)
  /\ UNCHANGED <<plan, behind, nlib, left, exitAt, pipeq, m, poll>>

Drop(i) ==
  /\ Running
  /\ obj[i].phase = "sent" /\ plan.kinds[i] = "pso"
  /\ Tick
  /\ obj' = [obj EXCEPT ![i] = [@ EXCEPT !.phase = "dying", !.dropped = now + 1]]
  /\ UNCHANGED <<plan, behind, nlib, left, exitAt, feeds, m, poll>>

RuntimeFree(i) ==
  /\ Running
  /\ Alive(i)
  /\ obj[i].phase \in (IF Hooked(i) THEN {"dying", "gone"} ELSE {"made"})
  /\ Tick
  /\ obj' = [obj EXCEPT ![i].freed = now + 1]
  /\ Forgotten(i)
  /\ UNCHANGED <<plan, behind, nlib, left, exitAt, pipeq, m, poll>>

SendDestroyed(i) ==
  /\ Running
  /\ obj[i].phase = "dying"
  /\ Tick
  /\ Message("destroyed", i, obj[i].dropped)
  /\ UNCHANGED <<plan, behind, nlib, left, exitAt, etwq, m, poll>>

\* A rundown reports a live object again, under a new library id.
Rereport(i) ==
  /\ Running /\ left.reports > 0
  /\ Alive(i)
  /\ Tick
  /\ nlib' = nlib + 1
  /\ left' = [left EXCEPT !.reports = @ - 1]
  /\ obj' = [obj EXCEPT ![i].libs = @ \union {nlib + 1}]
  /\ etwq' = etwq \o Recorded(<<"create", "address">>, i, nlib + 1, obj[i].group)
  /\ UNCHANGED <<plan, behind, exitAt, pipeq, m, poll>>

\* The kernel moves an allocation; after the exit, every allocation.
MoveGroup(i) ==
  /\ left.moves > 0
  /\ Alive(i) /\ plan.kinds[i] \in {"heap", "committed"}
  /\ Tick
  /\ left' = [left EXCEPT !.moves = @ - 1]
  /\ LET g == IF obj[i].group = "Vram" THEN "Sys" ELSE "Vram"
     IN  /\ obj' = [obj EXCEPT ![i].group = g]
         /\ \E lib \in obj[i].libs :
              etwq' = etwq \o Recorded(<<"group">>, i, lib, g)
  /\ UNCHANGED <<plan, behind, nlib, exitAt, pipeq, m, poll>>

ChildExit ==
  /\ Running /\ left.exits > 0
  /\ Tick
  /\ exitAt' = now + 1
  /\ left' = [left EXCEPT !.exits = 0]
  /\ UNCHANGED <<plan, behind, obj, nlib, feeds, m, poll>>

-----------------------------------------------------------------------------
(* The pipe thread: Model::OnEvent.                                        *)

PipeCreated ==
  /\ pipeq # <<>> /\ Head(pipeq).op = "created"
  /\ pipeq' = Tail(pipeq)
  /\ LET i == Head(pipeq).id
         o == [prev |-> 0, key |-> 0, own |-> "Unknown", eff |-> "Unknown"]
     IN  m' = EtwOnCreated([m EXCEPT !.live[i] = o, !.bytes = @ + Size(i)], i)
  /\ UNCHANGED <<game, etwq, poll>>

PipeDestroyed ==
  /\ pipeq # <<>> /\ Head(pipeq).op = "destroyed"
  /\ pipeq' = Tail(pipeq)
  /\ LET i == Head(pipeq).id
     IN  m' = IF m.live[i] = NoObj THEN m
              ELSE [EtwOnDestroyed(m, i, Head(pipeq).ts) EXCEPT
                      !.bytes = Minus(@, Size(i)), !.live[i] = NoObj]
  /\ UNCHANGED <<game, etwq, poll>>

-----------------------------------------------------------------------------
(* The ETW consumer thread: etw::Sink.                                     *)

\* ETW behind the pipe: the pipe has told everything up to the record's time.
Told(ts) ==
  /\ \A n \in DOMAIN pipeq : LET o == obj[pipeq[n].id]
       IN (IF pipeq[n].op = "created" THEN o.made ELSE o.dropped) > ts
  /\ Running => \A i \in Ids :
       /\ obj[i].phase = "made" /\ Hooked(i) => obj[i].made > ts
       /\ obj[i].phase = "dying" => obj[i].dropped > ts

Record(op) ==
  /\ etwq # <<>> /\ Head(etwq).op = op
  /\ behind => Told(Head(etwq).ts)
  /\ etwq' = Tail(etwq)

FindEtw(lib) == m.alias[lib]

\* (The field obj is a history variable: the object a record is really about.)
OnEtwObjectCreated ==
  /\ Record("create")
  /\ LET r == Head(etwq)
         e == [type |-> TypeOf(r.id), address |-> NoAddr, group |-> r.group,
               created |-> r.ts, bound |-> 0, orphan |-> FALSE, aliases |-> {},
               obj |-> r.id]
     IN  m' = IF m.alias[r.lib] # 0 THEN m
              ELSE [m EXCEPT !.etw[r.lib] = e, !.alias[r.lib] = r.lib]
  /\ UNCHANGED <<game, pipeq, poll>>

\* A re-report is folded into the object that is known at the address.
MergeInto(M, old, k) ==
  LET g  == M.etw[k].group
      M1 == IF g # "Unknown" /\ g # M.etw[old].group
            THEN ApplyGroup(M, old, g) ELSE M
  IN  TryBindEtw([M1 EXCEPT !.etw[k] = NoObj, !.alias[k] = old,
                            !.etw[old].aliases = @ \union {k},
                            !.etw[old].obj = M.etw[k].obj], old)

TakeAddress(M, k, p) ==
  TryBindEtw([M EXCEPT !.etw[k].address = p, !.byAddr[p] = k], k)

OnEtwObjectAddress ==
  /\ Record("address")
  /\ LET k   == FindEtw(Head(etwq).lib)
         p   == obj[Head(etwq).id].addr
         old == m.byAddr[p]
     IN  m' = IF k = 0 \/ m.etw[k].address # NoAddr THEN m
              ELSE IF old \notin {0, k} /\ m.etw[old] # NoObj
                      /\ m.etw[old].type = m.etw[k].type
              THEN MergeInto(m, old, k)
              ELSE TakeAddress(m, k, p)
  /\ UNCHANGED <<game, pipeq, poll>>

\* Mutant: only the first library id is forgotten.
FirstId(k) == {k}

AllIds(k) == m.etw[k].aliases \union {k}

OnEtwObjectDestroyed ==
  /\ Record("destroy")
  /\ LET k == FindEtw(Head(etwq).lib)
         e == m.etw[k]
         Unbind(M) == IF e.bound # 0 /\ M.live[e.bound] # NoObj
                         /\ M.live[e.bound].key = k
                      THEN [M EXCEPT !.live[e.bound].key = 0] ELSE M
         Unindex(M) == IF e.address # NoAddr /\ M.byAddr[e.address] = k
                       THEN [M EXCEPT !.byAddr[e.address] = 0] ELSE M
     IN  m' = IF k = 0 THEN m
              ELSE [Unindex(Unbind(m)) EXCEPT
                      !.alias = [a \in Libs |-> IF a \in AllIds(k) THEN 0 ELSE @[a]],
                      !.etw[k] = NoObj]
  /\ UNCHANGED <<game, pipeq, poll>>

\* The clock is sampled first: `now` is a time the game still ran at.
PollChildLocked ==
  IF exiting THEN UNCHANGED poll
  ELSE IF Running THEN aliveTs' = now /\ UNCHANGED exiting
  ELSE exiting' = TRUE /\ UNCHANGED aliveTs

\* Mutant: it waits for the main loop to notice the exit.
WithoutSample(ts) == UNCHANGED poll

AfterChildExitLocked(ts) ==
  IF ts > aliveTs THEN PollChildLocked ELSE UNCHANGED poll

OnEtwGroupChanges ==
  /\ Record("group")
  /\ LET r == Head(etwq)
         k == FindEtw(r.lib)
     IN  /\ AfterChildExitLocked(r.ts)
         /\ m' = IF (exiting' /\ r.ts > aliveTs') \/ k = 0 \/ m.etw[k].group = r.group
                 THEN m ELSE ApplyGroup(m, k, r.group)
  /\ UNCHANGED <<game, pipeq>>

EtwLose ==
  /\ etwq # <<>> /\ left.lost > 0
  /\ etwq' = Tail(etwq)
  /\ left' = [left EXCEPT !.lost = @ - 1]
  /\ UNCHANGED <<plan, behind, now, obj, nlib, exitAt, pipeq, m, poll>>

-----------------------------------------------------------------------------
(* The main thread, ten times a second.                                    *)

\* (What it samples is used only if the game exits.)
PollChild ==
  /\ plan.exits > 0
  /\ PollChildLocked
  /\ UNCHANGED <<game, feeds, m>>

\* EtwTick forgets the objects destroyed more than History ago.
Recent(s) ==
  LET keep == {n \in DOMAIN s : s[n].destroyed + History >= now}
  IN  IF keep = {} THEN <<>> ELSE SubSeq(s, Min(keep), Len(s))

ForgetDead ==
  /\ m' = [m EXCEPT !.dead = [p \in plan.addrs |-> Recent(m.dead[p])]]
  /\ UNCHANGED <<game, feeds, poll>>

Next ==
  \/ \E i \in Ids :
       \/ \E p \in plan.addrs, h \in Ids : Construct(i, p, h)
       \/ SendCreated(i)
       \/ Release(i)
       \/ Drop(i)
       \/ RuntimeFree(i)
       \/ SendDestroyed(i)
       \/ Rereport(i)
       \/ MoveGroup(i)
  \/ ChildExit
  \/ PipeCreated \/ PipeDestroyed
  \/ OnEtwObjectCreated \/ OnEtwObjectAddress \/ OnEtwObjectDestroyed
  \/ OnEtwGroupChanges \/ EtwLose
  \/ PollChild \/ ForgetDead

Spec == Init /\ [][Next]_vars

-----------------------------------------------------------------------------
(* Properties.                                                             *)

Stamps == 0 .. now
TypeOK ==
  /\ plan \in Plans /\ behind \in BOOLEAN /\ exiting \in BOOLEAN
  /\ {exitAt, aliveTs} \subseteq Stamps
  /\ obj \in [Ids -> [phase : {"new", "made", "sent", "dying", "gone"},
                      addr : Addrs \union {NoAddr}, parent : {0} \union Ids,
                      made : Stamps, dropped : Stamps, freed : Stamps,
                      died : Stamps, group : Locs, libs : SUBSET Libs]]
  /\ m.live \in [Ids -> {NoObj} \union [prev : Stamps, key : {0} \union Libs,
                                        own : Locs, eff : Locs]]
  /\ m.loc \in [Locs -> Nat] /\ m.bytes \in Nat
  /\ m.ptr \in [plan.addrs -> {0} \union Ids]
  /\ m.children \in [Ids -> SUBSET Ids]
  /\ m.alias \in [Libs -> {0} \union Libs]
  /\ m.byAddr \in [plan.addrs -> {0} \union Libs]
  /\ \A a \in plan.addrs : Len(m.dead[a]) <= DeadCap
  /\ \A k \in Known : m.etw[k] \in
       [type : Types, address : Addrs \union {NoAddr}, group : Locs, created : Stamps,
        bound : {0} \union Ids, orphan : BOOLEAN, aliases : SUBSET Libs, obj : Ids]

\* The two ends of a binding name each other: a live object's etw_key is an
\* ETW object whose bound_id is that object, and a bound_id is a live object
\* whose etw_key is that ETW object; an orphan is bound to nothing.  Bind,
\* the two destroy handlers and the merging of re-reports each touch one end
\* on one thread (Model.cpp:652-661, 775-782, 843-866, 884-899).
BindingsAgree ==
  /\ \A i \in Live : LET k == m.live[i].key
       IN k # 0 => m.etw[k] # NoObj /\ m.etw[k].bound = i
  /\ \A k \in Known : LET i == m.etw[k].bound
       IN i # 0 => /\ ~m.etw[k].orphan
                   /\ m.live[i] # NoObj /\ m.live[i].key = k

\* No index keeps an entry for what has gone: ptr_to_id_ names a live object
\* at that address; an alias names a known ETW object, which lists it; an
\* address in etw_by_addr_ names a known ETW object at that address; and a
\* heap's children are exactly its live placed resources.
IndexesAgree ==
  /\ \A p \in plan.addrs : m.ptr[p] # 0 =>
       m.live[m.ptr[p]] # NoObj /\ obj[m.ptr[p]].addr = p
  /\ \A k \in Libs : m.alias[k] # 0 =>
       m.etw[m.alias[k]] # NoObj /\ k \in m.etw[m.alias[k]].aliases \union {m.alias[k]}
  /\ \A k \in Known : \A a \in m.etw[k].aliases \union {k} : m.alias[a] = k
  /\ \A p \in plan.addrs : m.byAddr[p] # 0 =>
       m.etw[m.byAddr[p]] # NoObj /\ m.etw[m.byAddr[p]].address = p
  /\ \A h \in Ids : m.live[h] # NoObj =>
       m.children[h] = {i \in Live : Placed(i) /\ obj[i].parent = h}

\* The totals on the screen are those of the live objects: live_bytes counts
\* each of them once, and loc_bytes each one that has memory, under the
\* location it has now; no subtraction was ever cut off at zero.
TotalsMatch ==
  /\ m.bytes = SumSet({Size(i) : i \in Live})
  /\ \A l \in Locs :
       m.loc[l] = SumSet({Size(i) : i \in {j \in Live : HasMemory(j) /\ m.live[j].eff = l}})

\* A live object's location is always the one EffLoc gives now: a placed
\* resource has followed its heap through every bind, move and death.
LocationsFollowHeaps == \A i \in Live : m.live[i].eff = EffLoc(m, i)

\* Once both feeds are drained, the join has found every object: each live
\* object is bound to the ETW object that is really it, whatever it was bound
\* to on the way, and has the location its memory is really in.  ETW runs
\* behind the pipe and loses nothing; each death is stamped within Slack of
\* the next construction at its address.
Hushed == pipeq = <<>> /\ etwq = <<>>
          /\ \A i \in Ids : obj[i].phase # "dying" /\ (Hooked(i) => obj[i].phase # "made")
Punctual == \A i, j \in Ids :
  obj[i].addr = obj[j].addr /\ obj[i].freed # 0 /\ obj[j].made > obj[i].freed
    => obj[i].died <= obj[j].made + Slack
RealLoc(i) ==
  IF Placed(i) /\ m.live[obj[i].parent] # NoObj
  THEN obj[obj[i].parent].group ELSE obj[i].group
JoinSettles ==
  behind /\ Hushed /\ Punctual /\ left.lost = plan.lost /\ Running =>
    \A i \in Live :
      /\ m.live[i].key # 0
      /\ m.etw[m.live[i].key].obj = i
      /\ m.live[i].eff = RealLoc(i)

\* What the kernel does to the memory of a game that is exiting moves
\* nothing: a group change stamped after the exit code was set is not applied.
TeardownIgnored ==
  [][ etwq # <<>> /\ Head(etwq).op = "group" /\ etwq' = Tail(etwq)
      /\ exitAt # 0 /\ Head(etwq).ts > exitAt => UNCHANGED m ]_vars

\* An ETW object is bound to the object whose lifetime contains its creation
\* (Model.cpp:17-18).
BoundInsideLifetime ==
  \A k \in Known : LET e == m.etw[k] IN
    e.bound # 0 => /\ obj[e.bound].made <= e.created
                   /\ obj[e.bound].freed = 0 \/ e.created <= obj[e.bound].freed

=============================================================================
