--------------------------- MODULE EtwJoinProofs ----------------------------
(***************************************************************************)
(* Theorems about EtwJoin, for any games, address sets, delays of the two  *)
(* feeds and bounds of the Model.                                          *)
(*                                                                         *)
(* Agree(M) is what the maps of a Model say of each other.  Each member    *)
(* function is shown to keep it, as a function on Models: given any M that *)
(* agrees, it returns one that does.  The handlers then keep Inv, which    *)
(* adds what the game and the messages not yet handled must be like for    *)
(* the member functions to be called as they expect.                       *)
(***************************************************************************)
EXTENDS EtwJoin, FiniteSetTheorems, TLAPS

-----------------------------------------------------------------------------
(* Sums over finite sets of numbers.                                       *)

\* Induction over the subsets of a finite set, without an operator parameter:
\* a set of subsets that is not empty has a minimal member.
HasMinimal(B) == \E T \in B : \A U \in B : U \subseteq T => U = T

LEMMA MinimalSet ==
  ASSUME NEW S, IsFiniteSet(S), NEW B \in SUBSET (SUBSET S), B # {}
  PROVE  HasMinimal(B)
<1>1. IsWellFoundedOn(StrictSubsetOrdering(S), SUBSET S)
  BY FS_FiniteSubsetsOfFinite, FS_StrictSubsetOrderingWellFounded
<1>2. PICK T \in B : \A U \in B : <<U, T>> \notin StrictSubsetOrdering(S)
  BY <1>1, WFMin
<1>3. QED
  BY <1>2 DEF StrictSubsetOrdering, HasMinimal

\* ... and a set of numbers has a least one.
LEMMA LeastNat ==
  ASSUME NEW B \in SUBSET Nat, B # {}
  PROVE  \E n \in B : \A k \in B : n <= k
<1> DEFINE Less == {p \in Nat \X Nat : p[1] < p[2]}
<1>1. Less = OpToRel(<, Nat)
  BY DEF OpToRel
<1>2. IsWellFoundedOn(Less, Nat)
  BY <1>1, NatLessThanWellFounded
<1> HIDE DEF Less
<1>3. PICK n \in B : \A k \in B : <<k, n>> \notin Less
  BY <1>2, WFMin
<1>4. \A k \in Nat : k < n => <<k, n>> \in Less
  BY DEF Less
<1>5. \A k \in B : k \in Nat /\ ~(k < n)
  BY <1>3, <1>4
<1>6. n \in Nat /\ n \in B
  BY <1>3
<1>7. QED
  BY <1>5, <1>6

\* The member that a fold takes first.
First(s) == CHOOSE x \in s : TRUE

LEMMA FirstIn == \A s : s # {} => First(s) \in s
  BY DEF First

Sums(S, g) == g = [s \in SUBSET S |-> IF s = {} THEN 0 ELSE First(s) + g[s \ {First(s)}]]

LEMMA SumIsChosen == \A S : SumSet(S) = (CHOOSE g : Sums(S, g))[S]
  BY DEF Sums, First, SumSet, FoldSet, MapThenFoldSet

\* Sums of the subsets with at most n members.
SumsTo(S, n, g) ==
  LET Small == {s \in SUBSET S : Cardinality(s) <= n}
  IN  g = [s \in Small |-> IF s = {} THEN 0 ELSE First(s) + g[s \ {First(s)}]]

LEMMA SumsExist ==
  ASSUME NEW S, IsFiniteSet(S)
  PROVE  \E g : Sums(S, g)
<1> DEFINE Small(n) == {s \in SUBSET S : Cardinality(s) <= n}
           Bad == {n \in Nat : ~ \E g : SumsTo(S, n, g)}
<1>a. \A s \in SUBSET S :
        IsFiniteSet(s) /\ Cardinality(s) \in Nat /\ Cardinality(s) <= Cardinality(S)
  BY FS_Subset, FS_CardinalityType
<1>b. \A s \in SUBSET S : s # {} =>
        /\ s \ {First(s)} \in SUBSET S
        /\ Cardinality(s \ {First(s)}) = Cardinality(s) - 1
  BY <1>a, FirstIn, FS_RemoveElement
<1>c. \A s \in SUBSET S : Cardinality(s) <= 0 => s = {}
  BY <1>a, FS_EmptySet
<1>1. 0 \notin Bad
  <2> DEFINE g == [s \in Small(0) |-> 0]
  <2>1. \A s \in Small(0) : s = {}
    BY <1>c
  <2>2. SumsTo(S, 0, g)
    BY <2>1 DEF SumsTo
  <2>3. QED
    BY <2>2
<1>2. ASSUME NEW n \in Nat, n \notin Bad
      PROVE  n + 1 \notin Bad
  <2>1. PICK g : SumsTo(S, n, g)
    BY <1>2
  <2> DEFINE v(s) == IF s = {} THEN 0 ELSE First(s) + g[s \ {First(s)}]
             f == [s \in Small(n + 1) |-> v(s)]
  <2>2. g = [s \in Small(n) |-> v(s)]
    BY <2>1 DEF SumsTo
  <2>3. \A s \in Small(n) : s \in Small(n + 1) /\ f[s] = g[s]
    <3>1. \A s \in Small(n) : s \in Small(n + 1)
      BY <1>a
    <3>2. \A s \in Small(n) : g[s] = v(s)
      BY <2>2
    <3>3. QED
      BY <3>1, <3>2
  <2>4. \A s \in Small(n + 1) : s # {} => s \ {First(s)} \in Small(n)
    BY <1>a, <1>b
  <2>5. \A s \in Small(n + 1) : s # {} => f[s \ {First(s)}] = g[s \ {First(s)}]
    BY <2>3, <2>4
  <2>6. SumsTo(S, n + 1, f)
    BY <2>5 DEF SumsTo
  <2>7. QED
    BY <2>6
<1>3. Bad = {}
  <2> SUFFICES ASSUME Bad # {} PROVE FALSE
    OBVIOUS
  <2>1. PICK n \in Bad : \A k \in Bad : n <= k
    BY LeastNat
  <2>2. n # 0 /\ n - 1 \in Nat /\ n - 1 \notin Bad
    BY <1>1, <2>1
  <2>3. QED
    BY <1>2, <2>1, <2>2
<1>4. PICK g : SumsTo(S, Cardinality(S), g)
  BY <1>3, FS_CardinalityType
<1>5. Small(Cardinality(S)) = SUBSET S
  BY <1>a
<1>6. QED
  BY <1>4, <1>5 DEF SumsTo, Sums

\* Two solutions agree where both are defined.
LEMMA SumsAgree ==
  ASSUME NEW S, IsFiniteSet(S), NEW R \in SUBSET S, NEW g, Sums(S, g), NEW h, Sums(R, h)
  PROVE  g[R] = h[R]
<1> DEFINE Bad == {s \in SUBSET R : g[s] # h[s]}
<1>1. SUFFICES ASSUME Bad # {} PROVE FALSE
  BY FS_Subset
<1>2. IsFiniteSet(R) /\ Bad \in SUBSET (SUBSET R)
  BY FS_Subset
<1>3. PICK s \in Bad : \A u \in Bad : u \subseteq s => u = s
  <2>1. HasMinimal(Bad)
    BY <1>1, <1>2, MinimalSet
  <2>2. QED
    BY <2>1 DEF HasMinimal
<1>4. s \in SUBSET R /\ s \in SUBSET S
  OBVIOUS
<1>5. /\ g[s] = IF s = {} THEN 0 ELSE First(s) + g[s \ {First(s)}]
      /\ h[s] = IF s = {} THEN 0 ELSE First(s) + h[s \ {First(s)}]
  BY <1>4 DEF Sums
<1>6. s # {}
  BY <1>5
<1>7. s \ {First(s)} \notin Bad
  BY <1>3, <1>6, FirstIn
<1>8. QED
  BY <1>4, <1>5, <1>6, <1>7

LEMMA SumSetEquation ==
  ASSUME NEW S, IsFiniteSet(S)
  PROVE  SumSet(S) = IF S = {} THEN 0 ELSE First(S) + SumSet(S \ {First(S)})
<1> DEFINE g == CHOOSE f : Sums(S, f)
           R == S \ {First(S)}
           h == CHOOSE f : Sums(R, f)
<1>1. IsFiniteSet(R) /\ R \in SUBSET S
  BY FS_Subset
<1>2. Sums(S, g) /\ Sums(R, h)
  BY <1>1, SumsExist
<1>3. SumSet(S) = g[S] /\ SumSet(R) = h[R]
  BY SumIsChosen
<1> HIDE DEF g, h
<1>4. g[S] = IF S = {} THEN 0 ELSE First(S) + g[R]
  BY <1>2 DEF Sums
<1>5. g[R] = h[R]
  BY <1>1, <1>2, SumsAgree
<1>6. QED
  BY <1>3, <1>4, <1>5

\* The sum of a finite set of numbers is that of the set without a member, and
\* the member.
LEMMA SumOfNats ==
  ASSUME NEW S, IsFiniteSet(S), S \subseteq Nat
  PROVE  /\ SumSet(S) \in Nat
         /\ \A x \in S : SumSet(S) = SumSet(S \ {x}) + x
<1> DEFINE Good(s) == SumSet(s) \in Nat /\ \A x \in s : SumSet(s) = SumSet(s \ {x}) + x
           Bad == {s \in SUBSET S : ~Good(s)}
<1>1. SUFFICES ASSUME Bad # {} PROVE FALSE
  OBVIOUS
<1>2. PICK s \in Bad : \A u \in Bad : u \subseteq s => u = s
  <2>1. HasMinimal(Bad)
    BY <1>1, MinimalSet
  <2>2. QED
    BY <2>1 DEF HasMinimal
<1>3. s \in SUBSET S /\ IsFiniteSet(s) /\ ~Good(s)
  BY FS_Subset DEF Bad
<1>4. \A u \in SUBSET s : u # s => u \in SUBSET S /\ IsFiniteSet(u) /\ Good(u)
  BY <1>2, <1>3, FS_Subset DEF Bad
<1>5. SumSet(s) = IF s = {} THEN 0 ELSE First(s) + SumSet(s \ {First(s)})
  BY <1>3, SumSetEquation
<1> DEFINE y == First(s)
<1>6. s # {} /\ y \in s /\ y \in Nat
  <2>1. s # {}
    BY <1>3, <1>5
  <2>2. QED
    BY <1>3, <2>1, FirstIn
<1>7. SumSet(s) = y + SumSet(s \ {y}) /\ SumSet(s \ {y}) \in Nat
  BY <1>4, <1>5, <1>6
<1> HIDE DEF y
<1>8. ASSUME NEW x \in s
      PROVE  SumSet(s) = SumSet(s \ {x}) + x
  <2>1. CASE x = y
    BY <1>3, <1>6, <1>7, <2>1
  <2>2. CASE x # y
    <3> DEFINE u == (s \ {y}) \ {x}
    <3>1. u = (s \ {x}) \ {y} /\ SumSet(u) \in Nat
      BY <1>4, <1>6
    <3>2. SumSet(s \ {y}) = SumSet(u) + x
      BY <1>4, <1>6, <2>2
    <3>3. SumSet(s \ {x}) = SumSet(u) + y
      BY <1>4, <1>6, <2>2, <3>1
    <3>4. x \in Nat /\ y \in Nat
      BY <1>3, <1>6
    <3>5. QED
      BY <1>7, <3>1, <3>2, <3>3, <3>4
  <2>3. QED
    BY <2>1, <2>2
<1>9. QED
  BY <1>3, <1>6, <1>7, <1>8

-----------------------------------------------------------------------------
(* Types.  M stands for any Model: the member functions are given one and  *)
(* return one.                                                             *)

Tombs == [type : Types, prev : Stamps, destroyed : Stamps]
LiveRecords == [prev : Stamps, key : {0} \union Libs, own : Locs, eff : Locs]
EtwRecords ==
  [type : Types, address : {NoAddr} \union plan.addrs, group : Locs,
   created : Stamps, bound : {0} \union Ids, orphan : BOOLEAN,
   aliases : SUBSET Libs, obj : Ids]
Models ==
  [live     : [Ids -> {NoObj} \union LiveRecords],
   bytes    : Nat,
   loc      : [Locs -> Nat],
   ptr      : [plan.addrs -> {0} \union Ids],
   dead     : [plan.addrs -> Seq(Tombs)],
   children : [Ids -> SUBSET Ids],
   etw      : [Libs -> {NoObj} \union EtwRecords],
   alias    : [Libs -> {0} \union Libs],
   byAddr   : [plan.addrs -> {0} \union Libs]]

Objects ==
  [phase : {"new", "made", "sent", "dying", "gone"},
   addr : {NoAddr} \union plan.addrs, parent : {0} \union Ids,
   made : Stamps, dropped : Stamps, freed : Stamps, died : Stamps,
   group : Locs, libs : SUBSET Libs]
Messages == [op : {"created", "destroyed"}, id : Ids, ts : Stamps]
Records == [op : {"create", "address", "destroy", "group"}, id : Ids,
            lib : Libs, group : Locs, ts : Stamps]

In(M, i) == M.live[i] # NoObj
KnownIn(M, k) == M.etw[k] # NoObj
Capped(M) == \A p \in plan.addrs : Len(M.dead[p]) <= DeadCap

TypesOK ==
  /\ plan \in Plans /\ behind \in BOOLEAN /\ exiting \in BOOLEAN
  /\ now \in Nat /\ nlib \in Nat /\ exitAt \in Stamps /\ aliveTs \in Stamps
  /\ obj \in [Ids -> Objects]
  /\ left \in Plan
  /\ pipeq \in Seq(Messages) /\ etwq \in Seq(Records)
  /\ m \in Models

-----------------------------------------------------------------------------
(* What the game is like.                                                  *)

Begun(i) == obj[i].phase # "new"
ChildOf(i, h) == Placed(i) /\ Begun(i) /\ obj[i].parent = h

Game ==
  /\ nlib = Cardinality({i \in Ids : Begun(i)}) + plan.reports - left.reports
  /\ \A i \in Ids :
       /\ obj[i].made # 0 <=> Begun(i)
       /\ Begun(i) => obj[i].addr \in plan.addrs
       /\ ~Placed(i) => obj[i].parent = 0
       /\ Placed(i) /\ Begun(i) =>
            LET h == obj[i].parent
            IN  h \in Ids /\ plan.kinds[h] = "heap"
                /\ obj[h].phase \in {"sent", "dying", "gone"}
  /\ \A n \in DOMAIN etwq : Begun(etwq[n].id)

Creates(n, i) == pipeq[n].op = "created" /\ pipeq[n].id = i
Feed ==
  /\ \A i \in Ids : obj[i].phase \in {"new", "made"} => m.live[i] = NoObj
  /\ \A n \in DOMAIN pipeq, i \in Ids : Creates(n, i) =>
       /\ obj[i].phase \in {"sent", "dying", "gone"}
       /\ m.live[i] = NoObj
       /\ \A k \in DOMAIN pipeq : Creates(k, i) => k = n
       /\ \A c \in Ids : ChildOf(c, i) =>
            m.live[c] = NoObj /\ \A k \in DOMAIN pipeq : Creates(k, c) => n < k

-----------------------------------------------------------------------------
(* What the member functions of the Model keep.                            *)

Bindings(M) ==
  /\ \A i \in Ids : In(M, i) /\ M.live[i].key # 0 =>
       KnownIn(M, M.live[i].key) /\ M.etw[M.live[i].key].bound = i
  /\ \A k \in Libs : KnownIn(M, k) /\ M.etw[k].bound # 0 =>
       /\ ~M.etw[k].orphan
       /\ In(M, M.etw[k].bound) /\ M.live[M.etw[k].bound].key = k

Pointers(M) == \A p \in plan.addrs : M.ptr[p] # 0 =>
  In(M, M.ptr[p]) /\ obj[M.ptr[p]].addr = p
Aliases(M) ==
  /\ \A a \in Libs : M.alias[a] # 0 =>
       /\ KnownIn(M, M.alias[a])
       /\ a \in M.etw[M.alias[a]].aliases \union {M.alias[a]}
  /\ \A k \in Libs : KnownIn(M, k) =>
       /\ \A a \in M.etw[k].aliases \union {k} : M.alias[a] = k
       /\ M.etw[k].address = NoAddr => M.etw[k].aliases = {} /\ M.etw[k].bound = 0
Addresses(M) == \A p \in plan.addrs : M.byAddr[p] # 0 =>
  KnownIn(M, M.byAddr[p]) /\ M.etw[M.byAddr[p]].address = p
Children(M) == \A h \in Ids :
  /\ M.children[h] \subseteq {c \in Ids : In(M, c) /\ ChildOf(c, h)}
  /\ In(M, h) => \A c \in Ids : In(M, c) /\ ChildOf(c, h) => c \in M.children[h]
Indexes(M) == Pointers(M) /\ Aliases(M) /\ Addresses(M) /\ Children(M)

Follows(M) == \A i \in Ids : In(M, i) => M.live[i].eff = EffLoc(M, i)

\* What a member function makes of M besides: R is the Model that it returns.
SameIndexes(M, R) == R.ptr = M.ptr /\ R.dead = M.dead /\ R.alias = M.alias /\ R.byAddr = M.byAddr
SameLive(M, R) == \A j \in Ids :
  /\ In(R, j) <=> In(M, j)
  /\ In(M, j) => R.live[j].prev = M.live[j].prev
SameFacts(e, f) ==
  /\ f.type = e.type /\ f.address = e.address /\ f.group = e.group
  /\ f.created = e.created /\ f.aliases = e.aliases /\ f.obj = e.obj
\* i has l of its own now.
Owns(M, R, i, l) == \A j \in Ids :
  In(M, j) => R.live[j].own = IF j = i THEN l ELSE M.live[j].own
\* k is bound to i, and what was bound to i is not.
Rebinds(M, R, k, i) ==
  /\ SameIndexes(M, R) /\ SameLive(M, R) /\ Owns(M, R, i, M.etw[k].group)
  /\ \A j \in Ids : In(M, j) => R.live[j].key = IF j = i THEN k ELSE M.live[j].key
  /\ \A a \in Libs :
       /\ KnownIn(R, a) <=> KnownIn(M, a)
       /\ KnownIn(M, a) =>
            /\ SameFacts(M.etw[a], R.etw[a]) /\ R.etw[a].orphan = M.etw[a].orphan
            /\ R.etw[a].bound = IF a = k THEN i
                                ELSE IF a = M.live[i].key THEN 0 ELSE M.etw[a].bound
Regroups(M, R, k, g) ==
  /\ SameIndexes(M, R) /\ SameLive(M, R) /\ Owns(M, R, M.etw[k].bound, g)
  /\ \A j \in Ids : In(M, j) => R.live[j].key = M.live[j].key

\* The live objects that have memory in l, but those of X.
At(M, l, X) == {i \in Ids \ X : In(M, i) /\ HasMemory(i) /\ M.live[i].eff = l}
Totals(M, X) ==
  /\ M.bytes = SumSet({i \in Ids : In(M, i)})
  /\ \A l \in Locs : M.loc[l] = SumSet(At(M, l, X))

Exit ==
  /\ Running => aliveTs <= now
  /\ exitAt # 0 => aliveTs <= exitAt
  /\ exiting => exitAt # 0

-----------------------------------------------------------------------------
(* Facts about the types.                                                  *)

LEMMA Numbers ==
  ASSUME TypesOK
  PROVE  /\ IsFiniteSet(Ids) /\ Ids \subseteq Nat /\ 0 \notin Ids
         /\ Ids = 1 .. Len(plan.kinds) /\ Len(plan.kinds) \in Nat
         /\ Libs \subseteq Nat /\ 0 \notin Libs
         /\ Stamps \subseteq Nat /\ 0 \in Stamps /\ now \in Stamps
         /\ plan \in Plan /\ plan.addrs \subseteq Addrs /\ NoAddr \notin plan.addrs
         /\ plan.reports \in Nat
         /\ \A i \in Ids : plan.kinds[i] \in Kinds
<1>1. plan \in Plan /\ NoAddr \notin Addrs
  BY JoinConstants DEF TypesOK
<1>2. /\ plan.kinds \in Seq(Kinds) /\ plan.addrs \in SUBSET Addrs
      /\ plan.reports \in Nat
  BY <1>1 DEF Plan
<1>3. Len(plan.kinds) \in Nat /\ Ids = 1 .. Len(plan.kinds)
  BY <1>2 DEF Ids
<1>4. \A i \in Ids : plan.kinds[i] \in Kinds
  BY <1>2 DEF Ids
<1>5. IsFiniteSet(Ids) /\ Ids \subseteq Nat /\ 0 \notin Ids
  BY <1>3, FS_Interval
<1>6. Libs \subseteq Nat /\ 0 \notin Libs
  BY <1>2, <1>3 DEF Libs
<1>7. Stamps \subseteq Nat /\ 0 \in Stamps /\ now \in Stamps
  BY DEF TypesOK, Stamps
<1>8. QED
  BY <1>1, <1>2, <1>3, <1>4, <1>5, <1>6, <1>7

LEMMA NoRecords ==
  ASSUME TypesOK
  PROVE  NoObj \notin LiveRecords /\ NoObj \notin EtwRecords
<1>1. LiveRecords \subseteq [prev : Nat, key : Nat, own : Locs, eff : Locs]
  BY Numbers DEF LiveRecords
<1>2. EtwRecords \subseteq
        [type : Types, address : Addrs \union {NoAddr}, group : Locs,
         created : Nat, bound : Nat, orphan : BOOLEAN,
         aliases : SUBSET Nat, obj : Nat]
  BY Numbers DEF EtwRecords
<1>3. QED
  BY <1>1, <1>2, NothingIsNoRecord

\* The fields of a Model, and what is under their keys.
LEMMA Fields ==
  ASSUME TypesOK, NEW M \in Models
  PROVE  /\ M.live \in [Ids -> {NoObj} \union LiveRecords]
         /\ M.bytes \in Nat
         /\ M.loc \in [Locs -> Nat]
         /\ M.ptr \in [plan.addrs -> {0} \union Ids]
         /\ M.dead \in [plan.addrs -> Seq(Tombs)]
         /\ M.children \in [Ids -> SUBSET Ids]
         /\ M.etw \in [Libs -> {NoObj} \union EtwRecords]
         /\ M.alias \in [Libs -> {0} \union Libs]
         /\ M.byAddr \in [plan.addrs -> {0} \union Libs]
         /\ \A i \in Ids : In(M, i) => M.live[i] \in LiveRecords
         /\ \A k \in Libs : KnownIn(M, k) => M.etw[k] \in EtwRecords
<1>1. /\ M.live \in [Ids -> {NoObj} \union LiveRecords]
      /\ M.bytes \in Nat
      /\ M.loc \in [Locs -> Nat]
      /\ M.ptr \in [plan.addrs -> {0} \union Ids]
      /\ M.dead \in [plan.addrs -> Seq(Tombs)]
      /\ M.children \in [Ids -> SUBSET Ids]
      /\ M.etw \in [Libs -> {NoObj} \union EtwRecords]
      /\ M.alias \in [Libs -> {0} \union Libs]
      /\ M.byAddr \in [plan.addrs -> {0} \union Libs]
  BY DEF Models
<1>2. QED
  BY <1>1 DEF In, KnownIn

-----------------------------------------------------------------------------
(* Moving an object from one location to another.                          *)

\* R is M but for the locations of objects.
Moved(M, R) ==
  /\ R \in Models
  /\ R.bytes = M.bytes /\ R.ptr = M.ptr /\ R.dead = M.dead /\ R.children = M.children
  /\ R.etw = M.etw /\ R.alias = M.alias /\ R.byAddr = M.byAddr
  /\ \A i \in Ids : In(M, i) <=> In(R, i)
  /\ \A i \in Ids : In(M, i) =>
       R.live[i].prev = M.live[i].prev /\ R.live[i].key = M.live[i].key

\* What a change of one location does to the totals.
LEMMA MoveLocMoves ==
  ASSUME TypesOK, NEW M \in Models, NEW X, Totals(M, X),
         NEW i \in Ids \ X, In(M, i), NEW l \in Locs
  PROVE  LET R == MoveLoc(M, i, l)
         IN  /\ Moved(M, R) /\ Totals(R, X)
             /\ R.live = [M.live EXCEPT ![i].eff = l]
<1> DEFINE R == MoveLoc(M, i, l)
           o == M.live[i]
           live == [M.live EXCEPT ![i].eff = l]
           b == o.eff
           loc1 == [M.loc EXCEPT ![b] = Minus(@, Size(i))]
           loc2 == [loc1 EXCEPT ![l] = @ + Size(i)]
<1>1. /\ M.live \in [Ids -> {NoObj} \union LiveRecords]
      /\ M.loc \in [Locs -> Nat] /\ M.live[i] \in LiveRecords
      /\ \A j \in Ids : In(M, j) => M.live[j] \in LiveRecords
  BY Fields
<1>2. b \in Locs /\ i \in Nat
  BY <1>1, Numbers DEF LiveRecords
<1>3. live \in [Ids -> {NoObj} \union LiveRecords] /\ live[i] = [o EXCEPT !.eff = l]
      /\ live[i] \in LiveRecords /\ live[i].eff = l
      /\ \A j \in Ids : j # i => live[j] = M.live[j]
  BY <1>1 DEF LiveRecords
<1>4. R = IF HasMemory(i) THEN [M EXCEPT !.live = live, !.loc = loc2]
                          ELSE [M EXCEPT !.live = live]
  <2>1. CASE HasMemory(i)
    <3>1. SubLoc(M, i) = [M EXCEPT !.loc = loc1]
      BY <2>1 DEF SubLoc, Models
    <3>2. [SubLoc(M, i) EXCEPT !.live[i].eff = l] = [M EXCEPT !.loc = loc1, !.live = live]
      BY <3>1 DEF Models
    <3> HIDE DEF live, loc1, b, o
    <3>3. R = AddLoc([M EXCEPT !.loc = loc1, !.live = live], i)
      BY <3>2 DEF MoveLoc
    <3>4. [M EXCEPT !.loc = loc1, !.live = live].live[i].eff = l
      BY <1>3 DEF Models
    <3>5. R = [[M EXCEPT !.loc = loc1, !.live = live] EXCEPT !.loc[l] = @ + Size(i)]
      BY <2>1, <3>3, <3>4 DEF AddLoc
    <3>6. QED
      BY <2>1, <3>5 DEF Models
  <2>2. CASE ~HasMemory(i)
    BY <2>2 DEF MoveLoc, AddLoc, SubLoc, Models
  <2>3. QED
    BY <2>1, <2>2
<1>5. R.live = live
  BY <1>4 DEF Models
<1>6. /\ R.loc = IF HasMemory(i) THEN loc2 ELSE M.loc
      /\ loc1 \in [Locs -> Nat] /\ loc2 \in [Locs -> Nat]
  <2>1. loc1 \in [Locs -> Nat]
    BY <1>1, <1>2 DEF Minus, Size
  <2>2. loc2 \in [Locs -> Nat]
    BY <1>2, <2>1 DEF Size
  <2>3. QED
    BY <1>4, <2>1, <2>2 DEF Models
<1>7. Moved(M, R)
  <2> DEFINE loc == IF HasMemory(i) THEN loc2 ELSE M.loc
  <2>a. loc \in [Locs -> Nat]
    BY <1>1, <1>6
  <2>b. R = [M EXCEPT !.live = live, !.loc = loc]
    BY <1>4 DEF Models
  <2> HIDE DEF live, loc, loc1, loc2, b, o, R
  <2>1. R \in Models
    BY <1>3, <2>a, <2>b DEF Models
  <2>2. /\ R.bytes = M.bytes /\ R.ptr = M.ptr /\ R.dead = M.dead /\ R.children = M.children
        /\ R.etw = M.etw /\ R.alias = M.alias /\ R.byAddr = M.byAddr
    BY <2>b DEF Models
  <2> USE DEF live, o
  <2>3. live[i].prev = M.live[i].prev /\ live[i].key = M.live[i].key
    BY <1>1, <1>3 DEF LiveRecords
  <2>4. live[i] # NoObj
    BY <1>3, NoRecords
  <2>5. QED
    BY <1>3, <1>5, <2>1, <2>2, <2>3, <2>4 DEF Moved, In
<1>8. Totals(R, X)
  <2>1. \A j \in Ids : In(M, j) <=> In(R, j)
    BY <1>7 DEF Moved
  <2>2. R.bytes = SumSet({j \in Ids : In(R, j)})
    <3>1. {j \in Ids : In(R, j)} = {j \in Ids : In(M, j)}
      BY <2>1
    <3>2. QED
      BY <3>1, <1>7 DEF Totals, Moved
  <2>3. CASE ~HasMemory(i)
    <3>1. \A w \in Locs : At(R, w, X) = At(M, w, X)
      BY <1>3, <1>5, <2>1, <2>3 DEF At
    <3>2. QED
      BY <1>6, <2>2, <2>3, <3>1 DEF Totals
  <2>4. CASE HasMemory(i)
    <3>1. /\ At(M, b, X) \ {i} = At(R, b, X) \ {i}
          /\ i \in At(M, b, X) /\ i \in At(R, l, X)
          /\ \A w \in Locs : w # b => i \notin At(M, w, X)
          /\ \A w \in Locs : w # l => i \notin At(R, w, X)
          /\ \A w \in Locs : At(M, w, X) \ {i} = At(R, w, X) \ {i}
      BY <1>2, <1>3, <1>5, <2>1, <2>4 DEF At
    <3>2. \A w \in Locs : IsFiniteSet(At(M, w, X)) /\ IsFiniteSet(At(R, w, X))
                          /\ At(M, w, X) \subseteq Nat /\ At(R, w, X) \subseteq Nat
      BY Numbers, FS_Subset DEF At
    <3>3. /\ SumSet(At(M, b, X)) = SumSet(At(M, b, X) \ {i}) + i
          /\ SumSet(At(R, l, X)) = SumSet(At(R, l, X) \ {i}) + i
      BY <1>2, <3>1, <3>2, SumOfNats
    <3>4. \A w \in Locs : SumSet(At(M, w, X)) \in Nat /\ SumSet(At(R, w, X)) \in Nat
      BY <3>2, SumOfNats
    <3>5. \A w \in Locs : SumSet(At(M, w, X) \ {i}) \in Nat /\ SumSet(At(R, w, X) \ {i}) \in Nat
      <4>1. \A w \in Locs : IsFiniteSet(At(M, w, X) \ {i}) /\ At(M, w, X) \ {i} \subseteq Nat
        BY <3>2, FS_Subset
      <4>2. QED
        BY <3>1, <4>1, SumOfNats
    <3>6. \A w \in Locs : M.loc[w] = SumSet(At(M, w, X))
      BY DEF Totals
    <3>7. \A w \in Locs : loc1[w] = SumSet(At(M, w, X) \ {i})
      <4>1. loc1[b] = SumSet(At(M, b, X) \ {i})
        <5>1. loc1[b] = Minus(M.loc[b], i) /\ M.loc[b] = SumSet(At(M, b, X))
          BY <1>1, <1>2, <3>6 DEF Size
        <5>2. SumSet(At(M, b, X) \ {i}) \in Nat
          BY <1>2, <3>5
        <5> HIDE DEF b
        <5>3. QED
          BY <1>2, <3>3, <5>1, <5>2 DEF Minus
      <4>2. \A w \in Locs : w # b => At(M, w, X) \ {i} = At(M, w, X)
        BY <3>1
      <4>3. QED
        BY <1>1, <1>2, <3>6, <4>1, <4>2
    <3>8. \A w \in Locs : loc2[w] = SumSet(At(R, w, X))
      <4> HIDE DEF loc1
      <4>1. loc2[l] = SumSet(At(R, l, X))
        BY <1>6, <3>1, <3>3, <3>7 DEF Size
      <4>2. \A w \in Locs : w # l => At(R, w, X) \ {i} = At(R, w, X)
        BY <3>1
      <4>3. QED
        BY <1>6, <3>1, <3>7, <4>1, <4>2
    <3>9. QED
      BY <1>6, <2>2, <2>4, <3>8 DEF Totals
  <2>5. QED
    BY <2>3, <2>4
<1>9. QED
  BY <1>5, <1>7, <1>8

-----------------------------------------------------------------------------
(* Moving objects one by one.                                              *)

Step(M, to, s, g) ==
  IF s = {} THEN M ELSE MoveLoc(g[s \ {First(s)}], First(s), to[First(s)])

Moves(M, to, S, g) == g = [s \in SUBSET S |-> Step(M, to, s, g)]

\* Moves of the sets with at most n members.
MovesTo(M, to, S, n, g) ==
  LET Small == {s \in SUBSET S : Cardinality(s) <= n}
  IN  g = [s \in Small |-> Step(M, to, s, g)]

ToMove(M, to) == {c \in DOMAIN to : M.live[c].eff # to[c]}

LEMMA MoveEachIsChosen ==
  \A M, to : MoveEach(M, to) =
    (CHOOSE g : Moves(M, to, ToMove(M, to), g))[ToMove(M, to)]
  BY DEF Moves, Step, First, ToMove, MoveEach, FoldSet, MapThenFoldSet

LEMMA MovesExist ==
  ASSUME NEW M, NEW to, NEW S, IsFiniteSet(S)
  PROVE  \E g : Moves(M, to, S, g)
<1> DEFINE Small(n) == {s \in SUBSET S : Cardinality(s) <= n}
           Bad == {n \in Nat : ~ \E g : MovesTo(M, to, S, n, g)}
<1>a. \A s \in SUBSET S :
        IsFiniteSet(s) /\ Cardinality(s) \in Nat /\ Cardinality(s) <= Cardinality(S)
  BY FS_Subset, FS_CardinalityType
<1>b. \A s \in SUBSET S : s # {} =>
        /\ s \ {First(s)} \in SUBSET S
        /\ Cardinality(s \ {First(s)}) = Cardinality(s) - 1
  BY <1>a, FirstIn, FS_RemoveElement
<1>c. \A s \in SUBSET S : Cardinality(s) <= 0 => s = {}
  BY <1>a, FS_EmptySet
<1>1. 0 \notin Bad
  <2> DEFINE g == [s \in Small(0) |-> M]
  <2>1. \A s \in Small(0) : s = {}
    BY <1>c
  <2>2. MovesTo(M, to, S, 0, g)
    BY <2>1 DEF MovesTo, Step
  <2>3. QED
    BY <2>2
<1>2. ASSUME NEW n \in Nat, n \notin Bad
      PROVE  n + 1 \notin Bad
  <2>1. PICK g : MovesTo(M, to, S, n, g)
    BY <1>2
  <2> DEFINE f == [s \in Small(n + 1) |-> Step(M, to, s, g)]
  <2>2. g = [s \in Small(n) |-> Step(M, to, s, g)]
    BY <2>1 DEF MovesTo
  <2>3. \A s \in Small(n) : s \in Small(n + 1) /\ f[s] = g[s]
    <3>1. \A s \in Small(n) : s \in Small(n + 1)
      BY <1>a
    <3>2. \A s \in Small(n) : g[s] = Step(M, to, s, g)
      BY <2>2
    <3>3. QED
      BY <3>1, <3>2
  <2>4. \A s \in Small(n + 1) : s # {} => s \ {First(s)} \in Small(n)
    BY <1>a, <1>b
  <2>5. \A s \in Small(n + 1) : Step(M, to, s, f) = Step(M, to, s, g)
    <3>1. \A s \in Small(n + 1) : s # {} => f[s \ {First(s)}] = g[s \ {First(s)}]
      BY <2>3, <2>4
    <3> HIDE DEF f
    <3>2. QED
      BY <3>1 DEF Step
  <2>6. MovesTo(M, to, S, n + 1, f)
    BY <2>5 DEF MovesTo
  <2>7. QED
    BY <2>6
<1>3. Bad = {}
  <2> SUFFICES ASSUME Bad # {} PROVE FALSE
    OBVIOUS
  <2>1. PICK n \in Bad : \A k \in Bad : n <= k
    BY LeastNat
  <2>2. n # 0 /\ n - 1 \in Nat /\ n - 1 \notin Bad
    BY <1>1, <2>1
  <2>3. QED
    BY <1>2, <2>1, <2>2
<1>4. PICK g : MovesTo(M, to, S, Cardinality(S), g)
  BY <1>3, FS_CardinalityType
<1>5. Small(Cardinality(S)) = SUBSET S
  BY <1>a
<1>6. QED
  BY <1>4, <1>5 DEF MovesTo, Moves

MovedTo(M, to, s) ==
  [i \in Ids |-> IF i \in s THEN [M.live[i] EXCEPT !.eff = to[i]] ELSE M.live[i]]

LEMMA MovedTrans ==
  \A M, N, R : Moved(M, N) /\ Moved(N, R) => Moved(M, R)
  BY DEF Moved

LEMMA MovedRefl == \A M \in Models : Moved(M, M)
  BY DEF Moved

LEMMA MoveEachMoves ==
  ASSUME TypesOK, NEW M \in Models, NEW X, Totals(M, X),
         NEW D \in SUBSET (Ids \ X), NEW to \in [D -> Locs],
         \A c \in D : In(M, c)
  PROVE  LET R == MoveEach(M, to)
         IN  Moved(M, R) /\ Totals(R, X) /\ R.live = MovedTo(M, to, D)
<1> DEFINE S == ToMove(M, to)
           g == CHOOSE f : Moves(M, to, S, f)
           Good(s) == /\ Moved(M, g[s]) /\ Totals(g[s], X)
                      /\ g[s].live = MovedTo(M, to, s)
           Bad == {s \in SUBSET S : ~Good(s)}
<1>1. S \in SUBSET D /\ IsFiniteSet(S)
  BY Numbers, FS_Subset DEF ToMove
<1>2. Moves(M, to, S, g)
  BY <1>1, MovesExist
<1>3. MoveEach(M, to) = g[S]
  BY MoveEachIsChosen
<1> HIDE DEF S, g
<1>4. \A s \in SUBSET S : g[s] = Step(M, to, s, g)
  BY <1>2 DEF Moves
<1>l. M.live \in [Ids -> {NoObj} \union LiveRecords]
  BY Fields
<1>5. Bad = {}
  <2> SUFFICES ASSUME Bad # {} PROVE FALSE
    OBVIOUS
  <2>1. PICK s \in Bad : \A u \in Bad : u \subseteq s => u = s
    <3>1. HasMinimal(Bad)
      BY <1>1, MinimalSet
    <3>2. QED
      BY <3>1 DEF HasMinimal
  <2>2. CASE s = {}
    <3>1. g[s] = M
      BY <1>4, <2>1, <2>2 DEF Step
    <3>2. M.live = MovedTo(M, to, s)
      BY <1>l, <2>2 DEF MovedTo
    <3>3. Good(s)
      BY <3>1, <3>2, MovedRefl
    <3>4. QED
      BY <2>1, <3>3
  <2>3. CASE s # {}
    <3> DEFINE c == First(s)
               r == s \ {c}
               N == g[r]
    <3>1. c \in s /\ c \in D /\ c \in Ids \ X /\ to[c] \in Locs /\ In(M, c)
      BY <1>1, <2>1, <2>3, FirstIn
    <3>2. r \in SUBSET S /\ r \subseteq s /\ r # s
      BY <2>1, <3>1
    <3>3. Good(r)
      BY <2>1, <3>2
    <3>4. g[s] = MoveLoc(N, c, to[c])
      BY <1>4, <2>1, <2>3 DEF Step
    <3> HIDE DEF c, N
    <3>5. N \in Models /\ In(N, c) /\ Totals(N, X) /\ N.live = MovedTo(M, to, r)
      BY <3>1, <3>3 DEF Moved, N
    <3>6. /\ Moved(N, g[s]) /\ Totals(g[s], X)
          /\ g[s].live = [N.live EXCEPT ![c].eff = to[c]]
      <4> DEFINE l == to[c]
      <4>1. c \in Ids \ X /\ l \in Locs
        BY <3>1
      <4>n. N \in Models /\ Totals(N, X) /\ In(N, c)
        BY <3>5
      <4> HIDE DEF l, Good, Bad, r
      <4>2. /\ Moved(N, MoveLoc(N, c, l)) /\ Totals(MoveLoc(N, c, l), X)
            /\ MoveLoc(N, c, l).live = [N.live EXCEPT ![c].eff = l]
        BY <4>n, <4>1, MoveLocMoves
      <4>3. QED
        BY <3>4, <4>2 DEF l
    <3>7. Moved(M, g[s])
      BY <3>3, <3>6, MovedTrans DEF N
    <3>8. g[s].live = MovedTo(M, to, s)
      <4>1. N.live[c] = M.live[c]
        BY <3>1, <3>5 DEF MovedTo
      <4>2. g[s].live = [N.live EXCEPT ![c] = [M.live[c] EXCEPT !.eff = to[c]]]
        BY <3>6, <4>1
      <4>3. N.live = MovedTo(M, to, r)
        BY <3>5
      <4>4. s = r \union {c} /\ c \notin r
        BY <3>1
      <4> HIDE DEF r
      <4>5. QED
        BY <3>1, <4>2, <4>3, <4>4 DEF MovedTo
    <3>9. QED
      BY <2>1, <3>6, <3>7, <3>8
  <2>4. QED
    BY <2>2, <2>3
<1>6. Good(S)
  BY <1>5
<1>7. MovedTo(M, to, S) = MovedTo(M, to, D)
  <2>1. \A c \in D \ S : M.live[c] \in LiveRecords /\ M.live[c].eff = to[c]
    BY Fields DEF ToMove, S
  <2>2. \A c \in D \ S : [M.live[c] EXCEPT !.eff = to[c]] = M.live[c]
    BY <2>1 DEF LiveRecords
  <2>3. QED
    BY <1>1, <2>2 DEF MovedTo
<1>8. QED
  BY <1>3, <1>6, <1>7

-----------------------------------------------------------------------------
(* Locations.                                                              *)

\* The objects the Model holds have been created.
Real(M) == \A i \in Ids : In(M, i) => Begun(i)

SameOwn(M, R) ==
  \A i \in Ids : /\ In(M, i) <=> In(R, i)
                 /\ In(M, i) => R.live[i].own = M.live[i].own

LEMMA ParentType ==
  ASSUME TypesOK, NEW i \in Ids
  PROVE  obj[i].parent \in {0} \union Ids
BY DEF TypesOK, Objects

LEMMA EffLocType ==
  ASSUME TypesOK, NEW M \in Models, NEW i \in Ids, In(M, i)
  PROVE  EffLoc(M, i) \in Locs
<1>1. \A j \in Ids : In(M, j) => M.live[j].own \in Locs
  BY Fields DEF LiveRecords
<1>2. obj[i].parent \in {0} \union Ids
  BY ParentType
<1>3. QED
  BY <1>1, <1>2 DEF EffLoc, In

\* EffLoc looks at nothing but the own locations.
LEMMA EffLocSame ==
  ASSUME TypesOK, NEW M, NEW R, SameOwn(M, R), NEW i \in Ids, In(M, i)
  PROVE  EffLoc(R, i) = EffLoc(M, i)
<1>1. obj[i].parent \in {0} \union Ids
  BY ParentType
<1>2. QED
  BY <1>1 DEF EffLoc, In, SameOwn

LEMMA MovedToOwn ==
  ASSUME TypesOK, NEW M \in Models, NEW R, Moved(M, R), NEW D \in SUBSET Ids,
         NEW to, R.live = MovedTo(M, to, D)
  PROVE  SameOwn(M, R)
<1>1. \A i \in Ids : R.live[i] = IF i \in D THEN [M.live[i] EXCEPT !.eff = to[i]] ELSE M.live[i]
  BY DEF MovedTo
<1>2. \A i \in Ids : In(M, i) => M.live[i] \in LiveRecords
  BY Fields
<1>3. \A i \in Ids : In(M, i) => R.live[i].own = M.live[i].own
  BY <1>1, <1>2 DEF LiveRecords
<1>4. QED
  BY <1>3 DEF Moved, SameOwn

LEMMA RecomputeLocMoves ==
  ASSUME TypesOK, NEW M \in Models, NEW X, Totals(M, X),
         NEW i \in Ids \ X, In(M, i)
  PROVE  LET R == RecomputeLoc(M, i)
         IN  /\ Moved(M, R) /\ Totals(R, X)
             /\ R.live = [M.live EXCEPT ![i].eff = EffLoc(M, i)]
<1> DEFINE l == EffLoc(M, i)
           o == M.live[i]
<1>1. l \in Locs
  BY EffLocType
<1>2. o \in LiveRecords /\ M.live \in [Ids -> {NoObj} \union LiveRecords]
  BY Fields
<1> HIDE DEF l
<1>3. CASE l = M.live[i].eff
  <2>1. RecomputeLoc(M, i) = M
    BY <1>3 DEF RecomputeLoc, l
  <2>2. [o EXCEPT !.eff = l] = o
    BY <1>2, <1>3 DEF LiveRecords
  <2>3. [M.live EXCEPT ![i].eff = l] = M.live
    BY <1>2, <2>2
  <2>4. QED
    BY <2>1, <2>3, MovedRefl DEF l
<1>4. CASE l # M.live[i].eff
  <2>1. RecomputeLoc(M, i) = MoveLoc(M, i, l)
    BY <1>4 DEF RecomputeLoc, l
  <2>2. QED
    BY <1>1, <2>1, MoveLocMoves DEF l
<1>5. QED
  BY <1>3, <1>4

LEMMA RecomputeChildrenMoves ==
  ASSUME TypesOK, NEW M \in Models, Totals(M, {}), NEW h \in Ids
  PROVE  LET R  == RecomputeChildren(M, h)
             D  == LiveChildren(M, h)
             to == [c \in D |-> EffLoc(M, c)]
         IN  Moved(M, R) /\ Totals(R, {}) /\ R.live = MovedTo(M, to, D)
<1> DEFINE D == LiveChildren(M, h)
           to == [c \in D |-> EffLoc(M, c)]
<1>1. D \in SUBSET (Ids \ {}) /\ \A c \in D : In(M, c)
  BY Fields DEF LiveChildren, In
<1>2. to \in [D -> Locs]
  BY <1>1, EffLocType
<1>3. RecomputeChildren(M, h) = MoveEach(M, to)
  BY DEF RecomputeChildren
<1> HIDE DEF D, to
<1>4. /\ Moved(M, MoveEach(M, to)) /\ Totals(MoveEach(M, to), {})
      /\ MoveEach(M, to).live = MovedTo(M, to, D)
  BY <1>1, <1>2, MoveEachMoves
<1>5. QED
  BY <1>3, <1>4 DEF D, to

\* A heap is the only object with children.
LEMMA ParentIsHeap ==
  ASSUME TypesOK, Game, NEW c \in Ids, NEW h \in Ids, ChildOf(c, h)
  PROVE  TypeOf(h) = "Heap" /\ c # h /\ ~Placed(h)
<1>1. plan.kinds[h] = "heap" /\ plan.kinds[c] = "placed"
  BY DEF Game, ChildOf, Placed
<1>2. QED
  BY <1>1 DEF TypeOf, Placed

\* After a change of an object's own location, its location and those of the
\* resources placed in it follow.
LEMMA SetOwnLocMoves ==
  ASSUME TypesOK, Game, NEW M \in Models, Totals(M, {}), Follows(M), Real(M),
         Children(M), NEW i \in Ids, In(M, i), NEW l \in Locs
  PROVE  LET R == SetOwnLoc(M, i, l)
         IN  Moved(M, R) /\ Totals(R, {}) /\ Follows(R) /\ Owns(M, R, i, l)
<1> DEFINE M0 == [M EXCEPT !.live[i].own = l]
           M1 == RecomputeLoc(M0, i)
           R == SetOwnLoc(M, i, l)
<1>1. /\ M.live \in [Ids -> {NoObj} \union LiveRecords]
      /\ \A j \in Ids : In(M, j) => M.live[j] \in LiveRecords
  BY Fields
<1>2. /\ M0.live = [M.live EXCEPT ![i].own = l]
      /\ M0.live \in [Ids -> {NoObj} \union LiveRecords]
      /\ M0.live[i] = [M.live[i] EXCEPT !.own = l]
      /\ M0.live[i] \in LiveRecords
      /\ M0.live[i].own = l
      /\ M0.live[i].prev = M.live[i].prev /\ M0.live[i].key = M.live[i].key
      /\ M0.live[i].eff = M.live[i].eff
      /\ \A j \in Ids : j # i => M0.live[j] = M.live[j]
  <2>1. M0.live = [M.live EXCEPT ![i].own = l]
    BY DEF Models
  <2> HIDE DEF M0
  <2>2. QED
    BY <1>1, <2>1 DEF LiveRecords
<1>3. Moved(M, M0)
  <2>1. /\ M0.bytes = M.bytes /\ M0.ptr = M.ptr /\ M0.dead = M.dead
        /\ M0.children = M.children /\ M0.etw = M.etw /\ M0.alias = M.alias
        /\ M0.byAddr = M.byAddr /\ M0.loc = M.loc
    BY DEF Models
  <2>2. M0 = [M EXCEPT !.live = M0.live]
    BY <1>2 DEF Models
  <2> HIDE DEF M0
  <2>3. M0 \in Models
    BY <1>2, <2>2 DEF Models
  <2>4. QED
    BY <1>2, <2>1, <2>3, NoRecords DEF Moved, In
<1>4. M0.loc = M.loc
  BY DEF Models
<1> HIDE DEF M0
<1>5. Totals(M0, {}) /\ M0 \in Models /\ In(M0, i)
  <2>1. \A j \in Ids : In(M, j) <=> In(M0, j)
    BY <1>3 DEF Moved
  <2>2. \A w \in Locs : At(M0, w, {}) = At(M, w, {})
    BY <1>2, <2>1 DEF At
  <2>3. {j \in Ids : In(M0, j)} = {j \in Ids : In(M, j)}
    BY <2>1
  <2>4. QED
    BY <1>3, <1>4, <2>1, <2>2, <2>3 DEF Totals, Moved
<1>6. /\ Moved(M0, M1) /\ Totals(M1, {})
      /\ M1.live = [M0.live EXCEPT ![i].eff = EffLoc(M0, i)]
  <2>1. i \in Ids \ {}
    OBVIOUS
  <2>2. QED
    BY <1>5, <2>1, RecomputeLocMoves
<1>7. /\ SameOwn(M0, M1) /\ M1 \in Models /\ Moved(M, M1)
      /\ M1.live[i].eff = EffLoc(M0, i)
      /\ \A j \in Ids : j # i => M1.live[j] = M0.live[j]
  <2>1. M1 \in Models /\ Moved(M, M1)
    BY <1>3, <1>6, MovedTrans DEF Moved
  <2>2. /\ M1.live[i] = [M0.live[i] EXCEPT !.eff = EffLoc(M0, i)]
        /\ \A j \in Ids : j # i => M1.live[j] = M0.live[j]
    BY <1>2, <1>6
  <2>3. M1.live[i].eff = EffLoc(M0, i) /\ M1.live[i].own = M0.live[i].own
    BY <1>2, <2>2 DEF LiveRecords
  <2>4. SameOwn(M0, M1)
    BY <1>6, <2>2, <2>3 DEF SameOwn, Moved
  <2>5. QED
    BY <2>1, <2>2, <2>3, <2>4
<1>o. Owns(M, M1, i, l)
  BY <1>2, <1>3, <1>7 DEF Owns, SameOwn, Moved
<1> HIDE DEF M1
\* Who is not a child of i is not affected.
<1>8. \A j \in Ids : In(M0, j) /\ j # i /\ ~ChildOf(j, i) => M1.live[j].eff = EffLoc(M0, j)
  <2> SUFFICES ASSUME NEW j \in Ids, In(M0, j), j # i, ~ChildOf(j, i)
               PROVE  M1.live[j].eff = EffLoc(M0, j)
    OBVIOUS
  <2>1. In(M, j) /\ Begun(j)
    BY <1>3 DEF Moved, Real
  <2>2. M1.live[j].eff = EffLoc(M, j)
    BY <1>2, <1>7, <2>1 DEF Follows
  <2>3. Placed(j) => obj[j].parent # i
    BY <2>1 DEF ChildOf
  <2>4. \A k \in Ids : k # i => M0.live[k] = M.live[k]
    BY <1>2
  <2>5. EffLoc(M0, j) = EffLoc(M, j)
    BY <2>3, <2>4, ParentType DEF EffLoc
  <2>6. QED
    BY <2>2, <2>5
<1>9. CASE TypeOf(i) # "Heap"
  <2>1. R = M1
    BY <1>9 DEF SetOwnLoc, M0, M1
  <2>2. \A j \in Ids : ~ChildOf(j, i)
    BY <1>9, ParentIsHeap
  <2>3. Follows(M1)
    <3> SUFFICES ASSUME NEW j \in Ids, In(M1, j)
                 PROVE  M1.live[j].eff = EffLoc(M1, j)
      BY DEF Follows
    <3>1. In(M0, j)
      BY <1>6 DEF Moved
    <3>2. EffLoc(M1, j) = EffLoc(M0, j)
      BY <1>7, <3>1, EffLocSame
    <3>3. QED
      BY <1>7, <1>8, <2>2, <3>1, <3>2
  <2>4. QED
    BY <1>6, <1>7, <1>o, <2>1, <2>3
<1>10. CASE TypeOf(i) = "Heap"
  <2> DEFINE D == LiveChildren(M1, i)
             to == [c \in D |-> EffLoc(M1, c)]
  <2>1. R = RecomputeChildren(M1, i)
    BY <1>10 DEF SetOwnLoc, M0, M1
  <2>2. Moved(M1, R) /\ Totals(R, {}) /\ R.live = MovedTo(M1, to, D)
    <3> DEFINE K == RecomputeChildren(M1, i)
    <3>1. Moved(M1, K) /\ Totals(K, {}) /\ K.live = MovedTo(M1, to, D)
      BY <1>6, <1>7, RecomputeChildrenMoves
    <3> HIDE DEF K
    <3>2. QED
      BY <2>1, <3>1 DEF K
  <2>3. /\ D \in SUBSET Ids
        /\ \A c \in D : ChildOf(c, i)
        /\ \A c \in Ids : In(M1, c) /\ ChildOf(c, i) => c \in D
    <3>1. M1.children = M.children /\ \A c \in Ids : In(M1, c) <=> In(M, c)
      BY <1>7 DEF Moved
    <3>2. QED
      BY <3>1 DEF LiveChildren, In, Children
  <2>4. SameOwn(M1, R)
    BY <1>7, <2>2, <2>3, MovedToOwn
  <2>5. Follows(R)
    <3> SUFFICES ASSUME NEW j \in Ids, In(R, j)
                 PROVE  R.live[j].eff = EffLoc(R, j)
      BY DEF Follows
    <3>1. In(M1, j) /\ In(M0, j)
      BY <1>6, <2>2 DEF Moved
    <3>2. EffLoc(R, j) = EffLoc(M1, j) /\ EffLoc(M1, j) = EffLoc(M0, j)
      BY <1>7, <2>4, <3>1, EffLocSame
    <3>3. CASE j \in D
      <4>1. R.live[j] = [M1.live[j] EXCEPT !.eff = EffLoc(M1, j)]
        BY <2>2, <2>3, <3>3 DEF MovedTo
      <4>2. M1.live[j] \in LiveRecords
        BY <1>7, <3>1, Fields
      <4>3. R.live[j].eff = EffLoc(M1, j)
        BY <4>1, <4>2 DEF LiveRecords
      <4>4. QED
        BY <3>2, <4>3
    <3>4. CASE j \notin D
      <4>1. R.live[j] = M1.live[j]
        BY <2>2, <3>4 DEF MovedTo
      <4>2. ~ChildOf(j, i)
        BY <2>3, <3>1, <3>4
      <4>3. QED
        BY <1>7, <1>8, <3>1, <3>2, <4>1, <4>2
    <3>5. QED
      BY <3>3, <3>4
  <2>6. Moved(M, R)
    BY <1>7, <2>2, MovedTrans
  <2>7. Owns(M, R, i, l)
    BY <1>7, <1>o, <2>4 DEF Owns, SameOwn, Moved
  <2>8. QED
    BY <2>2, <2>5, <2>6, <2>7
<1>11. QED
  BY <1>9, <1>10

-----------------------------------------------------------------------------
(* Binding.                                                                *)

\* All that the member functions keep.
Agree(M) ==
  /\ M \in Models /\ Capped(M) /\ Real(M)
  /\ Bindings(M) /\ Indexes(M) /\ Follows(M) /\ Totals(M, {})

\* No object is live that was not before.
NoNew(M, R) == \A j \in Ids : In(R, j) => In(M, j)

\* k was tried at its address: it is bound to who is there, or that failed.
Tried(M, R, k) ==
  LET i == IF M.etw[k].address = NoAddr THEN 0 ELSE M.ptr[M.etw[k].address]
      Able == i # 0 /\ In(M, i) /\ CanBind(M, k, i)
  IN  /\ Able => Rebinds(M, R, k, i)
      /\ ~Able => \/ R = M
                  \/ /\ M.etw[k].bound = 0
                     /\ R = [M EXCEPT !.etw[k] = [M.etw[k] EXCEPT !.orphan = TRUE]]
\* k has taken the address p, and was tried there.
Takes(M, R, k, p) == \E N :
  /\ Agree(N) /\ Tried(N, R, k)
  /\ N.live = M.live /\ N.ptr = M.ptr /\ N.dead = M.dead /\ N.alias = M.alias
  /\ N.byAddr = [M.byAddr EXCEPT ![p] = k]
  /\ N.etw = [M.etw EXCEPT ![k] = [M.etw[k] EXCEPT !.address = p]]
\* old has the group of k, then all of it, and was tried.
Merges(M, R, old, k) == \E M1, N :
  LET g == M.etw[k].group
  IN  /\ Agree(M1) /\ Agree(N) /\ Tried(N, R, old)
      /\ \/ M1 = M /\ (g = "Unknown" \/ g = M.etw[old].group)
         \/ /\ g # "Unknown"
            /\ Regroups(M, M1, old, g) /\ M1.etw = [M.etw EXCEPT ![old].group = g]
      /\ N.live = M1.live /\ N.ptr = M1.ptr /\ N.dead = M1.dead /\ N.byAddr = M1.byAddr
      /\ N.alias = [M1.alias EXCEPT ![k] = old]
      /\ N.etw = [M1.etw EXCEPT ![k] = NoObj,
                   ![old] = [M1.etw[old] EXCEPT !.aliases = @ \union {k}, !.obj = M.etw[k].obj]]
\* k is gone with all its library ids.
Forgets(M, R, k) ==
  /\ R.ptr = M.ptr /\ R.dead = M.dead /\ SameLive(M, R)
  /\ \A j \in Ids : In(M, j) =>
       /\ R.live[j].own = M.live[j].own
       /\ R.live[j].key = IF M.live[j].key = k THEN 0 ELSE M.live[j].key
  /\ R.etw = [M.etw EXCEPT ![k] = NoObj]
  /\ \A a \in Libs : R.alias[a] = IF a \in M.etw[k].aliases \union {k} THEN 0 ELSE M.alias[a]
  /\ \A p \in plan.addrs : R.byAddr[p] = IF M.byAddr[p] = k THEN 0 ELSE M.byAddr[p]
\* i is there, bound to the record of its address if it can be.
Arrives(M, R, i) == \E N :
  LET p == obj[i].addr
      k == M.byAddr[p]
  IN  /\ Agree(N)
      /\ N.dead = M.dead /\ N.alias = M.alias /\ N.byAddr = M.byAddr /\ N.etw = M.etw
      /\ N.ptr = [M.ptr EXCEPT ![p] = i]
      /\ In(N, i) /\ N.live[i].key = 0
      /\ N.live[i].prev = IF M.dead[p] = <<>> THEN 0 ELSE Last(M.dead[p]).destroyed
      /\ \A j \in Ids : j # i => N.live[j] = M.live[j]
      /\ \/ R = N
         \/ k \in Libs /\ KnownIn(N, k) /\ CanBind(N, k, i) /\ Rebinds(N, R, k, i)
\* i is buried, and its record is bound to nothing.
Departs(M, R, i, ts) ==
  /\ R.alias = M.alias /\ R.byAddr = M.byAddr
  /\ \A q \in plan.addrs : R.ptr[q] = IF M.ptr[q] = i THEN 0 ELSE M.ptr[q]
  /\ R.dead = [M.dead EXCEPT ![obj[i].addr] = Remember(@,
                 [type |-> TypeOf(i), prev |-> M.live[i].prev, destroyed |-> ts])]
  /\ \A j \in Ids : In(R, j) <=> In(M, j) /\ j # i
  /\ \A j \in Ids : In(R, j) =>
       /\ R.live[j].prev = M.live[j].prev /\ R.live[j].key = M.live[j].key
       /\ R.live[j].own = M.live[j].own
  /\ \A a \in Libs :
       /\ KnownIn(R, a) <=> KnownIn(M, a)
       /\ KnownIn(M, a) => /\ SameFacts(M.etw[a], R.etw[a])
                           /\ M.etw[a].bound # i => R.etw[a] = M.etw[a]

LEMMA MovedAgrees ==
  ASSUME NEW M, NEW R, Moved(M, R), Follows(R), Totals(R, {}),
         Capped(M), Real(M), Bindings(M), Indexes(M), TypesOK, M \in Models
  PROVE  Agree(R) /\ NoNew(M, R)
<1>1. R \in Models /\ NoNew(M, R)
  BY DEF Moved, NoNew
<1>2. Capped(R) /\ Real(R)
  BY DEF Moved, Capped, Real
<1>3. Bindings(R)
  <2>1. /\ \A i \in Ids : In(M, i) <=> In(R, i)
        /\ \A i \in Ids : In(M, i) => R.live[i].key = M.live[i].key
        /\ R.etw = M.etw
    BY DEF Moved
  <2>2. \A k \in Libs : KnownIn(M, k) => M.etw[k].bound \in {0} \union Ids
    BY Fields DEF EtwRecords
  <2>3. \A i \in Ids : In(M, i) => M.live[i].key \in {0} \union Libs
    BY Fields DEF LiveRecords
  <2>4. QED
    BY <2>1, <2>2, <2>3 DEF Bindings, KnownIn
<1>4. Indexes(R)
  <2>1. /\ \A i \in Ids : In(M, i) <=> In(R, i)
        /\ R.etw = M.etw /\ R.ptr = M.ptr /\ R.alias = M.alias
        /\ R.byAddr = M.byAddr /\ R.children = M.children
    BY DEF Moved
  <2>2. \A p \in plan.addrs : M.ptr[p] \in {0} \union Ids
    BY Fields
  <2>3. Pointers(R)
    BY <2>1, <2>2 DEF Pointers, Indexes
  <2>4. Aliases(R) /\ Addresses(R)
    BY <2>1 DEF Aliases, Addresses, Indexes, KnownIn
  <2>5. Children(R)
    BY <2>1 DEF Children, Indexes
  <2>6. QED
    BY <2>3, <2>4, <2>5 DEF Indexes
<1>5. QED
  BY <1>1, <1>2, <1>3, <1>4 DEF Agree

\* The same objects in the same places.
LEMMA SameAt ==
  ASSUME TypesOK, NEW M, NEW R, R.bytes = M.bytes, R.loc = M.loc,
         \A i \in Ids : In(M, i) <=> In(R, i),
         \A i \in Ids : In(M, i) => R.live[i].eff = M.live[i].eff,
         NEW X, Totals(M, X)
  PROVE  Totals(R, X)
<1>1. \A l \in Locs : At(R, l, X) = At(M, l, X)
  BY DEF At
<1>2. {i \in Ids : In(R, i)} = {i \in Ids : In(M, i)}
  OBVIOUS
<1>3. QED
  BY <1>1, <1>2 DEF Totals

LEMMA SameFollows ==
  ASSUME TypesOK, NEW M, NEW R, SameOwn(M, R),
         \A i \in Ids : In(M, i) => R.live[i].eff = M.live[i].eff,
         Follows(M)
  PROVE  Follows(R)
<1>1. \A i \in Ids : In(R, i) => In(M, i)
  BY DEF SameOwn
<1>2. QED
  BY <1>1, EffLocSame DEF Follows

LEMMA BindAgrees ==
  ASSUME TypesOK, Game, NEW M, Agree(M), NEW k \in Libs, KnownIn(M, k),
         M.etw[k].bound = 0, ~M.etw[k].orphan, M.etw[k].address # NoAddr,
         NEW i \in Ids, In(M, i)
  PROVE  /\ Agree(Bind(M, k, i)) /\ NoNew(M, Bind(M, k, i))
         /\ Rebinds(M, Bind(M, k, i), k, i)
<1> DEFINE old == M.live[i].key
           M2 == [UnbindOld(M, k, i) EXCEPT !.etw[k].bound = i, !.live[i].key = k]
           g == M.etw[k].group
<1>1. M \in Models /\ Bindings(M) /\ Totals(M, {}) /\ Follows(M) /\ Indexes(M)
      /\ Capped(M) /\ Real(M)
  BY DEF Agree
<1>2. /\ M.live \in [Ids -> {NoObj} \union LiveRecords]
      /\ M.etw \in [Libs -> {NoObj} \union EtwRecords]
      /\ M.live[i] \in LiveRecords /\ M.etw[k] \in EtwRecords
      /\ \A j \in Ids : In(M, j) => M.live[j] \in LiveRecords
      /\ \A a \in Libs : KnownIn(M, a) => M.etw[a] \in EtwRecords
  BY <1>1, Fields
<1>3. old \in {0} \union Libs /\ g \in Locs /\ i # 0 /\ k # 0 /\ i \in {0} \union Ids
  BY <1>2, Numbers DEF LiveRecords, EtwRecords
<1>4. old # 0 => KnownIn(M, old) /\ M.etw[old].bound = i /\ old # k /\ old \in Libs
  BY <1>1, <1>3 DEF Bindings
<1> DEFINE etw2 == [a \in Libs |-> IF a = k THEN [M.etw[k] EXCEPT !.bound = i]
                                   ELSE IF a = old THEN [M.etw[a] EXCEPT !.bound = 0]
                                   ELSE M.etw[a]]
           live2 == [M.live EXCEPT ![i].key = k]
<1>5. M2 = [M EXCEPT !.etw = etw2, !.live = live2]
  <2>1. CASE old = 0
    <3>1. UnbindOld(M, k, i) = M
      BY <2>1 DEF UnbindOld
    <3>2. M2 = [M EXCEPT !.etw[k].bound = i, !.live[i].key = k]
      BY <3>1
    <3>3. [M.etw EXCEPT ![k].bound = i] = etw2
      BY <1>2, <2>1, Numbers
    <3> HIDE DEF M2, etw2
    <3>4. QED
      BY <3>2, <3>3, <1>1 DEF Models
  <2>2. CASE old # 0
    <3>1. UnbindOld(M, k, i) = [M EXCEPT !.etw[old].bound = 0]
      BY <1>4, <2>2 DEF UnbindOld, KnownIn
    <3>2. M2 = [[M EXCEPT !.etw[old].bound = 0] EXCEPT !.etw[k].bound = i, !.live[i].key = k]
      BY <3>1
    <3>3. [[M.etw EXCEPT ![old].bound = 0] EXCEPT ![k].bound = i] = etw2
      BY <1>2, <1>4, <2>2
    <3> HIDE DEF M2, etw2, old
    <3>4. QED
      BY <3>2, <3>3, <1>1 DEF Models
  <2>3. QED
    BY <2>1, <2>2
<1>6. /\ M2.etw = etw2 /\ M2.live = live2 /\ M2.bytes = M.bytes /\ M2.loc = M.loc
      /\ M2.ptr = M.ptr /\ M2.dead = M.dead /\ M2.children = M.children
      /\ M2.alias = M.alias /\ M2.byAddr = M.byAddr
  <2> HIDE DEF M2, etw2, live2
  <2>1. QED
    BY <1>1, <1>5 DEF Models
<1>7. /\ live2 \in [Ids -> {NoObj} \union LiveRecords]
      /\ live2[i] = [M.live[i] EXCEPT !.key = k] /\ live2[i] \in LiveRecords
      /\ live2[i].key = k /\ live2[i].own = M.live[i].own
      /\ live2[i].eff = M.live[i].eff /\ live2[i].prev = M.live[i].prev
      /\ \A j \in Ids : j # i => live2[j] = M.live[j]
  BY <1>2 DEF LiveRecords
<1>8. /\ etw2 \in [Libs -> {NoObj} \union EtwRecords]
      /\ \A a \in Libs : KnownIn(M, a) =>
           etw2[a] \in EtwRecords /\ etw2[a].aliases = M.etw[a].aliases
           /\ etw2[a].address = M.etw[a].address /\ etw2[a].orphan = M.etw[a].orphan
           /\ etw2[a].group = M.etw[a].group
           /\ etw2[a].bound = IF a = k THEN i ELSE IF a = old THEN 0 ELSE M.etw[a].bound
      /\ \A a \in Libs : ~KnownIn(M, a) => etw2[a] = M.etw[a]
  <2>1. \A a \in Libs : ~KnownIn(M, a) => a # k /\ a # old
    BY <1>4, Numbers
  <2>2. \A a \in Libs : etw2[a] = IF a = k THEN [M.etw[k] EXCEPT !.bound = i]
                                   ELSE IF a = old THEN [M.etw[a] EXCEPT !.bound = 0]
                                   ELSE M.etw[a]
    OBVIOUS
  <2> HIDE DEF etw2, old
  <2>3. \A a \in Libs : KnownIn(M, a) =>
           etw2[a] \in EtwRecords /\ etw2[a].aliases = M.etw[a].aliases
           /\ etw2[a].address = M.etw[a].address /\ etw2[a].orphan = M.etw[a].orphan
           /\ etw2[a].group = M.etw[a].group
           /\ etw2[a].bound = IF a = k THEN i ELSE IF a = old THEN 0 ELSE M.etw[a].bound
    <3> SUFFICES ASSUME NEW a \in Libs, KnownIn(M, a)
                 PROVE  /\ etw2[a] \in EtwRecords /\ etw2[a].aliases = M.etw[a].aliases
                        /\ etw2[a].address = M.etw[a].address
                        /\ etw2[a].orphan = M.etw[a].orphan
                        /\ etw2[a].group = M.etw[a].group
                        /\ etw2[a].bound = IF a = k THEN i ELSE IF a = old THEN 0
                                           ELSE M.etw[a].bound
      OBVIOUS
    <3>1. M.etw[a] \in EtwRecords /\ i \in {0} \union Ids /\ 0 \in {0} \union Ids
      BY <1>2, <1>3
    <3>3. CASE a = k
      <4>1. etw2[a] = [M.etw[a] EXCEPT !.bound = i]
        BY <2>2, <3>3
      <4>2. QED
        BY <3>1, <3>3, <4>1 DEF EtwRecords
    <3>4. CASE a # k /\ a = old
      <4>1. etw2[a] = [M.etw[a] EXCEPT !.bound = 0]
        BY <2>2, <3>4
      <4>2. QED
        BY <3>1, <3>4, <4>1 DEF EtwRecords
    <3>5. CASE a # k /\ a # old
      BY <2>2, <3>1, <3>5
    <3>6. QED
      BY <3>3, <3>4, <3>5
  <2>4. \A a \in Libs : etw2[a] \in {NoObj} \union EtwRecords
    BY <1>2, <2>1, <2>2, <2>3
  <2>5. QED
    BY <2>1, <2>2, <2>3, <2>4 DEF etw2
<1>f. \A a \in Libs : KnownIn(M, a) => SameFacts(M.etw[a], etw2[a])
  <2> SUFFICES ASSUME NEW a \in Libs, KnownIn(M, a)
               PROVE  SameFacts(M.etw[a], etw2[a])
    OBVIOUS
  <2>1. M.etw[a] \in EtwRecords
    BY <1>2
  <2>2. \/ etw2[a] = [M.etw[a] EXCEPT !.bound = i]
        \/ etw2[a] = [M.etw[a] EXCEPT !.bound = 0]
        \/ etw2[a] = M.etw[a]
    OBVIOUS
  <2> HIDE DEF etw2
  <2>3. QED
    BY <2>1, <2>2 DEF SameFacts, EtwRecords
<1> HIDE DEF etw2, live2, old
<1>9. \A j \in Ids : In(M, j) <=> In(M2, j)
  BY <1>6, <1>7, NoRecords DEF In
<1>10. \A a \in Libs : KnownIn(M, a) <=> KnownIn(M2, a)
  BY <1>6, <1>8, NoRecords DEF KnownIn
<1>11. M2 \in Models
  <2> HIDE DEF M2
  <2>1. QED
    BY <1>1, <1>5, <1>7, <1>8 DEF Models
<1> HIDE DEF M2
<1>12. Bindings(M2)
  <2>1. \A j \in Ids : In(M2, j) /\ M2.live[j].key # 0 =>
          KnownIn(M2, M2.live[j].key) /\ M2.etw[M2.live[j].key].bound = j
    <3> SUFFICES ASSUME NEW j \in Ids, In(M2, j), M2.live[j].key # 0
                 PROVE  KnownIn(M2, M2.live[j].key) /\ M2.etw[M2.live[j].key].bound = j
      OBVIOUS
    <3>1. CASE j = i
      BY <1>6, <1>7, <1>8, <1>10, <3>1
    <3>2. CASE j # i
      <4> DEFINE a == M.live[j].key
      <4>1. M2.live[j].key = a /\ In(M, j)
        BY <1>6, <1>7, <1>9, <3>2
      <4>2. a \in Libs /\ KnownIn(M, a) /\ M.etw[a].bound = j
        BY <1>1, <1>2, <4>1 DEF Bindings, LiveRecords
      <4>3. a # k /\ a # old
        BY <1>3, <1>4, <3>2, <4>1, <4>2, Numbers
      <4>4. QED
        BY <1>6, <1>8, <1>10, <4>1, <4>2, <4>3
    <3>3. QED
      BY <3>1, <3>2
  <2>2. \A a \in Libs : KnownIn(M2, a) /\ M2.etw[a].bound # 0 =>
          /\ ~M2.etw[a].orphan
          /\ In(M2, M2.etw[a].bound) /\ M2.live[M2.etw[a].bound].key = a
    <3> SUFFICES ASSUME NEW a \in Libs, KnownIn(M2, a), M2.etw[a].bound # 0
                 PROVE  /\ ~M2.etw[a].orphan
                        /\ In(M2, M2.etw[a].bound) /\ M2.live[M2.etw[a].bound].key = a
      OBVIOUS
    <3>0. KnownIn(M, a)
      BY <1>10
    <3>1. CASE a = k
      BY <1>6, <1>7, <1>8, <1>9, <3>0, <3>1
    <3>2. CASE a # k
      <4> DEFINE j == M.etw[a].bound
      <4>1. a # old /\ M2.etw[a].bound = j /\ j # 0 /\ M2.etw[a].orphan = M.etw[a].orphan
        BY <1>6, <1>8, <3>0, <3>2
      <4>2. j \in Ids
        BY <1>2, <3>0, <4>1 DEF EtwRecords
      <4>3. ~M.etw[a].orphan /\ In(M, j) /\ M.live[j].key = a
        BY <1>1, <3>0, <4>1 DEF Bindings
      <4>4. j # i
        BY <4>1, <4>3 DEF old
      <4>5. QED
        BY <1>6, <1>7, <1>9, <4>1, <4>2, <4>3, <4>4
    <3>3. QED
      BY <3>1, <3>2
  <2>3. QED
    BY <2>1, <2>2 DEF Bindings
<1>13. Indexes(M2) /\ Children(M2)
  <2>1. Pointers(M2)
    BY <1>1, <1>6, <1>9, Fields DEF Indexes, Pointers
  <2>2. Aliases(M2)
    <3>1. \A a \in Libs : M2.alias[a] # 0 =>
             /\ KnownIn(M2, M2.alias[a])
             /\ a \in M2.etw[M2.alias[a]].aliases \union {M2.alias[a]}
      <4>1. \A a \in Libs : M.alias[a] \in {0} \union Libs
        BY <1>1, Fields
      <4>2. \A a \in Libs : M.alias[a] # 0 =>
               /\ KnownIn(M, M.alias[a])
               /\ a \in M.etw[M.alias[a]].aliases \union {M.alias[a]}
        BY <1>1 DEF Indexes, Aliases
      <4>3. QED
        BY <1>6, <1>8, <1>10, <4>1, <4>2
    <3>2. \A a \in Libs : KnownIn(M2, a) =>
             /\ \A b \in M2.etw[a].aliases \union {a} : M2.alias[b] = a
             /\ M2.etw[a].address = NoAddr => M2.etw[a].aliases = {} /\ M2.etw[a].bound = 0
      BY <1>1, <1>6, <1>8, <1>10 DEF Indexes, Aliases
    <3>3. QED
      BY <3>1, <3>2 DEF Aliases
  <2>3. Addresses(M2)
    <3>1. \A p \in plan.addrs : M.byAddr[p] \in {0} \union Libs
      BY <1>1, Fields
    <3>2. \A p \in plan.addrs : M.byAddr[p] # 0 =>
             KnownIn(M, M.byAddr[p]) /\ M.etw[M.byAddr[p]].address = p
      BY <1>1 DEF Indexes, Addresses
    <3>3. QED
      BY <1>6, <1>8, <1>10, <3>1, <3>2 DEF Addresses
  <2>4. Children(M2)
    BY <1>1, <1>6, <1>9 DEF Indexes, Children
  <2>5. QED
    BY <2>1, <2>2, <2>3, <2>4 DEF Indexes
<1>14. \A j \in Ids : In(M, j) =>
          M2.live[j].eff = M.live[j].eff /\ M2.live[j].own = M.live[j].own
  BY <1>6, <1>7
<1>15. Follows(M2) /\ Totals(M2, {})
  <2>1. SameOwn(M, M2)
    BY <1>9, <1>14 DEF SameOwn
  <2>2. QED
    BY <1>1, <1>6, <1>9, <1>14, <2>1, SameAt, SameFollows
<1>16. Capped(M2) /\ Real(M2)
  BY <1>1, <1>6, <1>9 DEF Capped, Real
<1>17. LET R == SetOwnLoc(M2, i, g)
       IN  Moved(M2, R) /\ Totals(R, {}) /\ Follows(R) /\ Owns(M2, R, i, g)
  <2> HIDE DEF g
  <2>1. In(M2, i)
    BY <1>9
  <2>2. QED
    BY <1>3, <1>11, <1>13, <1>15, <1>16, <2>1, SetOwnLocMoves
<1>18. Agree(SetOwnLoc(M2, i, g)) /\ NoNew(M2, SetOwnLoc(M2, i, g))
  BY <1>11, <1>12, <1>13, <1>16, <1>17, MovedAgrees
<1>19. NoNew(M, SetOwnLoc(M2, i, g))
  BY <1>9, <1>18 DEF NoNew
<1>20. Rebinds(M, SetOwnLoc(M2, i, g), k, i)
  <2> DEFINE R == SetOwnLoc(M2, i, g)
  <2>1. Moved(M2, R) /\ Owns(M2, R, i, g)
    BY <1>17
  <2> HIDE DEF R, g
  <2>2. SameIndexes(M, R) /\ SameLive(M, R)
    BY <1>6, <1>7, <1>9, <2>1 DEF Moved, SameIndexes, SameLive
  <2>3. Owns(M, R, i, g)
    BY <1>9, <1>14, <2>1 DEF Owns
  <2>4. \A j \in Ids : In(M, j) => R.live[j].key = IF j = i THEN k ELSE M.live[j].key
    BY <1>6, <1>7, <1>9, <2>1 DEF Moved
  <2>5. R.etw = etw2
    BY <1>6, <2>1 DEF Moved
  <2>6. \A a \in Libs : KnownIn(R, a) <=> KnownIn(M, a)
    BY <1>6, <1>10, <2>5 DEF KnownIn
  <2>7. \A a \in Libs : KnownIn(M, a) =>
            /\ SameFacts(M.etw[a], R.etw[a]) /\ R.etw[a].orphan = M.etw[a].orphan
            /\ R.etw[a].bound = IF a = k THEN i
                                ELSE IF a = M.live[i].key THEN 0 ELSE M.etw[a].bound
    BY <1>8, <1>f, <2>5 DEF old
  <2>8. QED
    BY <2>2, <2>3, <2>4, <2>6, <2>7 DEF Rebinds, R, g
<1>21. QED
  BY <1>18, <1>19, <1>20 DEF Bind, M2, g

-----------------------------------------------------------------------------
(* The ETW objects.                                                        *)

\* A record may change but for what the rest of the Model knows of it.
LEMMA RecordAgrees ==
  ASSUME TypesOK, NEW M, Agree(M), NEW k \in Libs, KnownIn(M, k), NEW e \in EtwRecords,
         e.aliases = M.etw[k].aliases, e.address = M.etw[k].address,
         e.bound = M.etw[k].bound, e.bound # 0 => ~e.orphan
  PROVE  Agree([M EXCEPT !.etw[k] = e]) /\ NoNew(M, [M EXCEPT !.etw[k] = e])
<1> DEFINE N == [M EXCEPT !.etw[k] = e]
<1>1. M \in Models /\ Bindings(M) /\ Totals(M, {}) /\ Follows(M) /\ Indexes(M)
      /\ Capped(M) /\ Real(M)
  BY DEF Agree
<1>2. M.etw \in [Libs -> {NoObj} \union EtwRecords]
  BY <1>1, Fields
<1>3. /\ N.live = M.live /\ N.bytes = M.bytes /\ N.loc = M.loc
      /\ N.ptr = M.ptr /\ N.dead = M.dead /\ N.children = M.children
      /\ N.alias = M.alias /\ N.byAddr = M.byAddr
      /\ N.etw = [M.etw EXCEPT ![k] = e]
  BY <1>1 DEF Models
<1>4. N \in Models
  BY <1>1, <1>2 DEF Models
<1> HIDE DEF N
<1>5. /\ N.etw[k] = e
      /\ \A a \in Libs : a # k => N.etw[a] = M.etw[a]
  BY <1>2, <1>3
<1>6. \A a \in Libs : /\ KnownIn(N, a) <=> KnownIn(M, a)
                      /\ N.etw[a].aliases = M.etw[a].aliases
                      /\ N.etw[a].address = M.etw[a].address
                      /\ N.etw[a].bound = M.etw[a].bound
                      /\ a # k => N.etw[a].orphan = M.etw[a].orphan
  BY <1>5, NoRecords DEF KnownIn
<1>7. \A i \in Ids : In(N, i) <=> In(M, i)
  BY <1>3 DEF In
<1>8. Bindings(N)
  <2>1. \A i \in Ids : In(M, i) => M.live[i].key \in {0} \union Libs
    BY <1>1, Fields DEF LiveRecords
  <2>2. \A a \in Libs : KnownIn(M, a) => M.etw[a].bound \in {0} \union Ids
    BY <1>1, Fields DEF EtwRecords
  <2>3. \A i \in Ids : In(N, i) /\ N.live[i].key # 0 =>
          KnownIn(N, N.live[i].key) /\ N.etw[N.live[i].key].bound = i
    BY <1>1, <1>3, <1>6, <1>7, <2>1 DEF Bindings
  <2>4. \A a \in Libs : KnownIn(N, a) /\ N.etw[a].bound # 0 =>
          /\ ~N.etw[a].orphan
          /\ In(N, N.etw[a].bound) /\ N.live[N.etw[a].bound].key = a
    <3> SUFFICES ASSUME NEW a \in Libs, KnownIn(N, a), N.etw[a].bound # 0
                 PROVE  /\ ~N.etw[a].orphan
                        /\ In(N, N.etw[a].bound) /\ N.live[N.etw[a].bound].key = a
      OBVIOUS
    <3>1. /\ ~M.etw[a].orphan /\ M.etw[a].bound \in Ids
          /\ In(M, M.etw[a].bound) /\ M.live[M.etw[a].bound].key = a
      BY <1>1, <1>6, <2>2 DEF Bindings
    <3>2. ~N.etw[a].orphan
      BY <1>5, <1>6, <3>1
    <3>3. QED
      BY <1>3, <1>6, <1>7, <3>1, <3>2
  <2>5. QED
    BY <2>3, <2>4 DEF Bindings
<1>9. Indexes(N)
  <2>1. Pointers(N) /\ Children(N)
    BY <1>1, <1>3 DEF Indexes, Pointers, Children, In
  <2>2. Aliases(N)
    <3>1. \A a \in Libs : M.alias[a] \in {0} \union Libs
      BY <1>1, Fields
    <3>2. Aliases(M)
      BY <1>1 DEF Indexes
    <3>3. QED
      BY <1>3, <1>6, <3>1, <3>2 DEF Aliases
  <2>3. Addresses(N)
    <3>1. \A p \in plan.addrs : M.byAddr[p] \in {0} \union Libs
      BY <1>1, Fields
    <3>2. Addresses(M)
      BY <1>1 DEF Indexes
    <3>3. QED
      BY <1>3, <1>6, <3>1, <3>2 DEF Addresses
  <2>4. QED
    BY <2>1, <2>2, <2>3 DEF Indexes
<1>10. Follows(N) /\ Totals(N, {}) /\ Capped(N) /\ Real(N)
  <2>1. SameOwn(M, N)
    BY <1>3 DEF SameOwn, In
  <2>2. QED
    BY <1>1, <1>3, <1>7, <2>1, SameAt, SameFollows DEF Capped, Real
<1>11. NoNew(M, N)
  BY <1>7 DEF NoNew
<1>12. QED
  BY <1>4, <1>8, <1>9, <1>10, <1>11 DEF Agree, N

LEMMA ApplyGroupAgrees ==
  ASSUME TypesOK, Game, NEW M, Agree(M), NEW k \in Libs, KnownIn(M, k), NEW g \in Locs
  PROVE  LET R == ApplyGroup(M, k, g)
         IN  /\ Agree(R) /\ NoNew(M, R)
             /\ R.etw = [M.etw EXCEPT ![k].group = g]
             /\ Regroups(M, R, k, g)
<1> DEFINE M1 == [M EXCEPT !.etw[k].group = g]
           i == M.etw[k].bound
           e == [M.etw[k] EXCEPT !.group = g]
<1>1. M \in Models /\ Bindings(M)
  BY DEF Agree
<1>2. M.etw[k] \in EtwRecords /\ M.etw \in [Libs -> {NoObj} \union EtwRecords]
  BY <1>1, Fields
<1>3. /\ e \in EtwRecords /\ e.aliases = M.etw[k].aliases
      /\ e.address = M.etw[k].address /\ e.bound = M.etw[k].bound
      /\ e.orphan = M.etw[k].orphan
  BY <1>2 DEF EtwRecords
<1>4. M1 = [M EXCEPT !.etw[k] = e] /\ M1.etw = [M.etw EXCEPT ![k].group = g]
  BY <1>1 DEF Models
<1>5. e.bound # 0 => ~e.orphan
  BY <1>1, <1>3 DEF Bindings
<1>6. Agree(M1) /\ NoNew(M, M1)
  <2> HIDE DEF e, M1
  <2>1. Agree([M EXCEPT !.etw[k] = e]) /\ NoNew(M, [M EXCEPT !.etw[k] = e])
    BY <1>3, <1>5, RecordAgrees
  <2>2. QED
    BY <1>4, <2>1
<1>7. M1.live = M.live /\ SameIndexes(M, M1)
  BY <1>1 DEF Models, SameIndexes
<1>8. i # 0 => i \in Ids /\ In(M, i) /\ In(M1, i)
  BY <1>1, <1>2, <1>7 DEF Bindings, EtwRecords, In
<1> HIDE DEF M1
<1>9. CASE i = 0
  <2>1. ApplyGroup(M, k, g) = M1
    BY <1>9 DEF ApplyGroup, M1
  <2>2. Regroups(M, M1, k, g)
    BY <1>7, <1>9, Numbers DEF Regroups, SameLive, Owns, In
  <2>3. QED
    BY <1>4, <1>6, <2>1, <2>2
<1>10. CASE i # 0
  <2>1. ApplyGroup(M, k, g) = SetOwnLoc(M1, i, g)
    BY <1>8, <1>10 DEF ApplyGroup, M1, In
  <2> HIDE DEF i
  <2>2. /\ M1 \in Models /\ Totals(M1, {}) /\ Follows(M1) /\ Real(M1)
        /\ Children(M1) /\ Capped(M1) /\ Bindings(M1) /\ Indexes(M1)
    BY <1>6 DEF Agree, Indexes
  <2>3. LET R == SetOwnLoc(M1, i, g)
        IN  Moved(M1, R) /\ Totals(R, {}) /\ Follows(R) /\ Owns(M1, R, i, g)
    BY <1>8, <1>10, <2>2, SetOwnLocMoves
  <2>4. Agree(SetOwnLoc(M1, i, g)) /\ SetOwnLoc(M1, i, g).etw = M1.etw
        /\ NoNew(M1, SetOwnLoc(M1, i, g))
    BY <2>2, <2>3, MovedAgrees DEF Moved
  <2>5. NoNew(M, SetOwnLoc(M1, i, g))
    BY <1>6, <2>4 DEF NoNew
  <2>6. Regroups(M, SetOwnLoc(M1, i, g), k, g)
    <3> DEFINE R == SetOwnLoc(M1, i, g)
    <3>1. Moved(M1, R) /\ Owns(M1, R, i, g)
      BY <2>3
    <3> HIDE DEF R
    <3>2. QED
      BY <1>7, <3>1 DEF Regroups, SameIndexes, SameLive, Owns, Moved, In, R, i
  <2>7. QED
    BY <1>4, <2>1, <2>4, <2>5, <2>6
<1>11. QED
  BY <1>9, <1>10

LEMMA TryBindEtwAgrees ==
  ASSUME TypesOK, Game, NEW M, Agree(M), NEW k \in Libs, KnownIn(M, k)
  PROVE  /\ Agree(TryBindEtw(M, k)) /\ NoNew(M, TryBindEtw(M, k))
         /\ Tried(M, TryBindEtw(M, k), k)
<1> DEFINE e == M.etw[k]
           i == IF e.address = NoAddr THEN 0 ELSE M.ptr[e.address]
           x == [e EXCEPT !.orphan = TRUE]
<1>1. M \in Models /\ e \in EtwRecords
  BY Fields DEF Agree
<1>2. i \in {0} \union Ids
  BY <1>1, Fields DEF EtwRecords
<1>t. Bindable(e.type)
  BY <1>1 DEF EtwRecords, Bindable, Types
<1>3. CASE e.bound # 0 \/ e.orphan \/ e.address = NoAddr \/ ~Bindable(e.type)
  BY <1>t, <1>3 DEF TryBindEtw, NoNew, Tried, CanBind
<1>4. CASE ~(e.bound # 0 \/ e.orphan \/ e.address = NoAddr \/ ~Bindable(e.type))
  <2>1. CASE i # 0 /\ M.live[i] # NoObj /\ CanBind(M, k, i)
    <3>1. TryBindEtw(M, k) = Bind(M, k, i)
      BY <1>4, <2>1 DEF TryBindEtw
    <3>2. i \in Ids /\ In(M, i)
      BY <1>2, <2>1 DEF In
    <3> HIDE DEF i
    <3>3. Agree(Bind(M, k, i)) /\ NoNew(M, Bind(M, k, i)) /\ Rebinds(M, Bind(M, k, i), k, i)
      BY <1>4, <3>2, BindAgrees
    <3>4. Tried(M, TryBindEtw(M, k), k)
      BY <2>1, <3>1, <3>2, <3>3 DEF Tried, i
    <3>5. QED
      BY <3>1, <3>3, <3>4
  <2>2. CASE ~(i # 0 /\ M.live[i] # NoObj /\ CanBind(M, k, i)) /\ LateMatch(M, k)
    <3>1. TryBindEtw(M, k) = [M EXCEPT !.etw[k].orphan = TRUE]
      BY <1>4, <2>2 DEF TryBindEtw
    <3>2. [M EXCEPT !.etw[k].orphan = TRUE] = [M EXCEPT !.etw[k] = x]
      BY <1>1 DEF Models
    <3>3. /\ x \in EtwRecords /\ x.aliases = e.aliases /\ x.address = e.address
          /\ x.bound = e.bound
      BY <1>1 DEF EtwRecords
    <3> HIDE DEF x
    <3>4. Agree([M EXCEPT !.etw[k] = x]) /\ NoNew(M, [M EXCEPT !.etw[k] = x])
      BY <1>4, <3>3, RecordAgrees
    <3>5. Tried(M, [M EXCEPT !.etw[k] = x], k)
      BY <1>4, <2>2 DEF Tried, In, x
    <3>6. QED
      BY <3>1, <3>2, <3>4, <3>5
  <2>3. CASE ~(i # 0 /\ M.live[i] # NoObj /\ CanBind(M, k, i)) /\ ~LateMatch(M, k)
    <3>1. TryBindEtw(M, k) = M
      BY <1>4, <2>3 DEF TryBindEtw
    <3>2. QED
      BY <2>3, <3>1 DEF NoNew, Tried, In
  <2>4. QED
    BY <2>1, <2>2, <2>3
<1>5. QED
  BY <1>3, <1>4

\* A record and its object take nothing from each other when neither changes:
\* what is common to the steps that change no live object.
SameObjects(M, N) ==
  /\ N.live = M.live /\ N.bytes = M.bytes /\ N.loc = M.loc
  /\ N.ptr = M.ptr /\ N.children = M.children

LEMMA SameObjectsAgree ==
  ASSUME TypesOK, NEW M, Agree(M), NEW N, SameObjects(M, N)
  PROVE  Real(N) /\ Pointers(N) /\ Children(N) /\ Follows(N) /\ Totals(N, {})
<1>1. M \in Models /\ Totals(M, {}) /\ Follows(M) /\ Real(M) /\ Pointers(M) /\ Children(M)
  BY DEF Agree, Indexes
<1>2. \A i \in Ids : In(N, i) <=> In(M, i)
  BY DEF In, SameObjects
<1>3. SameOwn(M, N) /\ \A i \in Ids : In(M, i) => N.live[i].eff = M.live[i].eff
  BY <1>2 DEF SameOwn, SameObjects
<1>4. Follows(N) /\ Totals(N, {})
  BY <1>1, <1>2, <1>3, SameAt, SameFollows DEF SameObjects
<1>5. Pointers(N)
  BY <1>1, <1>2, Fields DEF Pointers, SameObjects
<1>6. Children(N) /\ Real(N)
  BY <1>1, <1>2 DEF Children, Real, SameObjects
<1>7. QED
  BY <1>4, <1>5, <1>6

LEMMA TakeAddressAgrees ==
  ASSUME TypesOK, Game, NEW M, Agree(M), NEW k \in Libs, KnownIn(M, k),
         M.etw[k].address = NoAddr, NEW p \in plan.addrs
  PROVE  /\ Agree(TakeAddress(M, k, p)) /\ NoNew(M, TakeAddress(M, k, p))
         /\ Takes(M, TakeAddress(M, k, p), k, p)
<1> DEFINE N == [M EXCEPT !.etw[k].address = p, !.byAddr[p] = k]
           e == [M.etw[k] EXCEPT !.address = p]
<1>1. M \in Models /\ Bindings(M) /\ Indexes(M) /\ Capped(M)
  BY DEF Agree
<1>2. M.etw \in [Libs -> {NoObj} \union EtwRecords] /\ M.etw[k] \in EtwRecords
      /\ M.byAddr \in [plan.addrs -> {0} \union Libs]
  BY <1>1, Fields
<1>3. /\ e \in EtwRecords /\ e.aliases = M.etw[k].aliases /\ e.address = p
      /\ e.bound = M.etw[k].bound /\ e.orphan = M.etw[k].orphan /\ e # NoObj
  BY <1>2, NoRecords DEF EtwRecords
<1>4. /\ N.live = M.live /\ N.bytes = M.bytes /\ N.loc = M.loc
      /\ N.ptr = M.ptr /\ N.dead = M.dead /\ N.children = M.children
      /\ N.alias = M.alias /\ N.byAddr = [M.byAddr EXCEPT ![p] = k]
      /\ N.etw = [M.etw EXCEPT ![k] = e]
  BY <1>1 DEF Models
<1> HIDE DEF e
<1>5. N = [M EXCEPT !.etw = N.etw, !.byAddr = N.byAddr]
  BY <1>1 DEF Models
<1> HIDE DEF N
<1>6. N \in Models
  <2>1. N.etw \in [Libs -> {NoObj} \union EtwRecords]
    BY <1>2, <1>3, <1>4
  <2>2. N.byAddr \in [plan.addrs -> {0} \union Libs]
    BY <1>2, <1>4
  <2>3. QED
    BY <1>1, <1>5, <2>1, <2>2 DEF Models
<1>7. /\ N.etw[k] = e /\ N.byAddr[p] = k
      /\ \A a \in Libs : a # k => N.etw[a] = M.etw[a]
      /\ \A q \in plan.addrs : q # p => N.byAddr[q] = M.byAddr[q]
  BY <1>2, <1>4
<1>8. \A a \in Libs : /\ KnownIn(N, a) <=> KnownIn(M, a)
                      /\ N.etw[a].aliases = M.etw[a].aliases
                      /\ N.etw[a].bound = M.etw[a].bound
                      /\ N.etw[a].orphan = M.etw[a].orphan
                      /\ N.etw[a].address = IF a = k THEN p ELSE M.etw[a].address
  BY <1>3, <1>7 DEF KnownIn
<1>9. Real(N) /\ Pointers(N) /\ Children(N) /\ Follows(N) /\ Totals(N, {})
  BY <1>4, SameObjectsAgree DEF SameObjects
<1>10. Bindings(N)
  <2>1. \A i \in Ids : In(M, i) => M.live[i].key \in {0} \union Libs
    BY <1>1, Fields DEF LiveRecords
  <2>2. \A i \in Ids : In(N, i) <=> In(M, i)
    BY <1>4 DEF In
  <2>3. \A a \in Libs : KnownIn(M, a) => M.etw[a].bound \in {0} \union Ids
    BY <1>1, Fields DEF EtwRecords
  <2>4. QED
    BY <1>1, <1>4, <1>8, <2>1, <2>2, <2>3 DEF Bindings
<1>11. Aliases(N)
  <2>1. \A a \in Libs : M.alias[a] \in {0} \union Libs
    BY <1>1, Fields
  <2>2. Aliases(M) /\ p # NoAddr
    BY <1>1, Numbers DEF Indexes
  <2>3. \A a \in Libs : N.alias[a] # 0 =>
           /\ KnownIn(N, N.alias[a])
           /\ a \in N.etw[N.alias[a]].aliases \union {N.alias[a]}
    BY <1>4, <1>8, <2>1, <2>2 DEF Aliases
  <2>4. \A a \in Libs : KnownIn(N, a) =>
           /\ \A b \in N.etw[a].aliases \union {a} : N.alias[b] = a
           /\ N.etw[a].address = NoAddr => N.etw[a].aliases = {} /\ N.etw[a].bound = 0
    BY <1>4, <1>8, <2>2 DEF Aliases
  <2>5. QED
    BY <2>3, <2>4 DEF Aliases
<1>12. Addresses(N)
  <2>1. \A q \in plan.addrs : M.byAddr[q] \in {0} \union Libs
    BY <1>2
  <2>2. \A q \in plan.addrs : M.byAddr[q] # 0 =>
          KnownIn(M, M.byAddr[q]) /\ M.etw[M.byAddr[q]].address = q
    BY <1>1 DEF Indexes, Addresses
  <2>3. \A q \in plan.addrs : M.byAddr[q] # k
    BY <2>2, Numbers
  <2>4. QED
    BY <1>7, <1>8, <2>1, <2>2, <2>3 DEF Addresses
<1>13. Capped(N)
  BY <1>1, <1>4 DEF Capped
<1>14. Agree(N) /\ KnownIn(N, k) /\ NoNew(M, N)
  BY <1>4, <1>6, <1>8, <1>9, <1>10, <1>11, <1>12, <1>13 DEF Agree, Indexes, NoNew, In
<1>15. Agree(TryBindEtw(N, k)) /\ NoNew(N, TryBindEtw(N, k)) /\ Tried(N, TryBindEtw(N, k), k)
  BY <1>14, TryBindEtwAgrees
<1>16. NoNew(M, TryBindEtw(N, k))
  BY <1>14, <1>15 DEF NoNew
<1>17. TakeAddress(M, k, p) = TryBindEtw(N, k)
  BY DEF TakeAddress, N
<1>18. N.etw = [M.etw EXCEPT ![k] = [M.etw[k] EXCEPT !.address = p]]
  BY <1>4 DEF e
<1>19. Takes(M, TakeAddress(M, k, p), k, p)
  <2> DEFINE R == TakeAddress(M, k, p)
  <2>1. Tried(N, R, k)
    BY <1>15, <1>17
  <2> HIDE DEF R
  <2>2. QED
    BY <1>4, <1>14, <1>18, <2>1 DEF Takes, R
<1>20. QED
  BY <1>15, <1>16, <1>17, <1>19

LEMMA MergeIntoAgrees ==
  ASSUME TypesOK, Game, NEW M, Agree(M), NEW k \in Libs, KnownIn(M, k),
         M.etw[k].address = NoAddr,
         NEW old \in Libs, KnownIn(M, old), old # k, M.etw[old].address # NoAddr
  PROVE  /\ Agree(MergeInto(M, old, k)) /\ NoNew(M, MergeInto(M, old, k))
         /\ Merges(M, MergeInto(M, old, k), old, k)
<1> DEFINE g == M.etw[k].group
           M1 == IF g # "Unknown" /\ g # M.etw[old].group
                 THEN ApplyGroup(M, old, g) ELSE M
           N == [M1 EXCEPT !.etw[k] = NoObj, !.alias[k] = old,
                           !.etw[old].aliases = @ \union {k},
                           !.etw[old].obj = M.etw[k].obj]
<1>0. M.etw \in [Libs -> {NoObj} \union EtwRecords]
      /\ M.etw[k] \in EtwRecords /\ M.etw[old] \in EtwRecords
  BY Fields DEF Agree
<1>1. /\ Agree(M1) /\ KnownIn(M1, k) /\ KnownIn(M1, old) /\ NoNew(M, M1)
      /\ M1.etw[k].address = NoAddr /\ M1.etw[old].address # NoAddr
      /\ \/ M1 = M /\ (g = "Unknown" \/ g = M.etw[old].group)
         \/ /\ g # "Unknown"
            /\ Regroups(M, M1, old, g) /\ M1.etw = [M.etw EXCEPT ![old].group = g]
  <2>1. CASE g # "Unknown" /\ g # M.etw[old].group
    <3>1. g \in Locs
      BY <1>0 DEF EtwRecords
    <3>2. M1 = ApplyGroup(M, old, g)
      BY <2>1
    <3> HIDE DEF g, M1
    <3>3. /\ Agree(M1) /\ NoNew(M, M1) /\ M1.etw = [M.etw EXCEPT ![old].group = g]
          /\ Regroups(M, M1, old, g)
      BY <3>1, <3>2, ApplyGroupAgrees
    <3>4. M1.etw[k] = M.etw[k] /\ M1.etw[old] = [M.etw[old] EXCEPT !.group = g]
      BY <1>0, <3>3
    <3>5. M1.etw[old] \in EtwRecords /\ M1.etw[old].address = M.etw[old].address
      BY <1>0, <3>1, <3>4 DEF EtwRecords
    <3>6. QED
      BY <2>1, <3>3, <3>4, <3>5, NoRecords DEF KnownIn, g
  <2>2. CASE ~(g # "Unknown" /\ g # M.etw[old].group)
    BY <2>2 DEF NoNew
  <2>3. QED
    BY <2>1, <2>2
<1> HIDE DEF M1
<1>2. M1 \in Models /\ Bindings(M1) /\ Indexes(M1) /\ Capped(M1)
  BY <1>1 DEF Agree
<1>3. /\ M1.etw \in [Libs -> {NoObj} \union EtwRecords]
      /\ M1.alias \in [Libs -> {0} \union Libs]
      /\ M1.etw[old] \in EtwRecords /\ M1.etw[k] \in EtwRecords
  BY <1>1, <1>2, Fields
<1>4. M1.etw[k].aliases = {} /\ M1.etw[k].bound = 0
  BY <1>1, <1>2 DEF Indexes, Aliases
<1> DEFINE e == [M1.etw[old] EXCEPT !.aliases = @ \union {k}, !.obj = M.etw[k].obj]
<1>5. /\ e \in EtwRecords /\ e.aliases = M1.etw[old].aliases \union {k}
      /\ e.address = M1.etw[old].address /\ e.bound = M1.etw[old].bound
      /\ e.orphan = M1.etw[old].orphan /\ e # NoObj
  <2>1. M.etw[k].obj \in Ids
    BY <1>0 DEF EtwRecords
  <2>2. e \in EtwRecords
    BY <1>3, <2>1 DEF EtwRecords
  <2>3. QED
    BY <1>3, <2>2, NoRecords DEF EtwRecords
<1>6. /\ N.live = M1.live /\ N.bytes = M1.bytes /\ N.loc = M1.loc
      /\ N.ptr = M1.ptr /\ N.dead = M1.dead /\ N.children = M1.children
      /\ N.byAddr = M1.byAddr /\ N.alias = [M1.alias EXCEPT ![k] = old]
      /\ N.etw = [M1.etw EXCEPT ![k] = NoObj, ![old] = e]
  <2>1. /\ N.live = M1.live /\ N.bytes = M1.bytes /\ N.loc = M1.loc
        /\ N.ptr = M1.ptr /\ N.dead = M1.dead /\ N.children = M1.children
        /\ N.byAddr = M1.byAddr /\ N.alias = [M1.alias EXCEPT ![k] = old]
    BY <1>2 DEF Models
  <2>2. N.etw = [M1.etw EXCEPT ![k] = NoObj, ![old].aliases = @ \union {k},
                               ![old].obj = M.etw[k].obj]
    BY <1>2 DEF Models
  <2>3. [M1.etw EXCEPT ![k] = NoObj, ![old].aliases = @ \union {k},
                       ![old].obj = M.etw[k].obj]
        = [M1.etw EXCEPT ![k] = NoObj, ![old] = e]
    BY <1>3
  <2>4. QED
    BY <2>1, <2>2, <2>3
<1> HIDE DEF e
<1>7. N = [M1 EXCEPT !.etw = N.etw, !.alias = N.alias]
  BY <1>2 DEF Models
<1> HIDE DEF N
<1>8. N \in Models
  <2>1. N.etw \in [Libs -> {NoObj} \union EtwRecords]
    BY <1>3, <1>5, <1>6
  <2>2. N.alias \in [Libs -> {0} \union Libs]
    BY <1>3, <1>6
  <2>3. QED
    BY <1>2, <1>7, <2>1, <2>2 DEF Models
<1>9. /\ N.etw[k] = NoObj /\ N.etw[old] = e /\ N.alias[k] = old
      /\ \A a \in Libs : a # k /\ a # old => N.etw[a] = M1.etw[a]
      /\ \A a \in Libs : a # k => N.alias[a] = M1.alias[a]
  BY <1>3, <1>6
<1>10. \A a \in Libs : /\ KnownIn(N, a) <=> KnownIn(M1, a) /\ a # k
                       /\ a # k => /\ N.etw[a].bound = M1.etw[a].bound
                                   /\ N.etw[a].orphan = M1.etw[a].orphan
                                   /\ N.etw[a].address = M1.etw[a].address
                                   /\ N.etw[a].aliases =
                                        IF a = old THEN M1.etw[a].aliases \union {k}
                                        ELSE M1.etw[a].aliases
  BY <1>1, <1>5, <1>9 DEF KnownIn
<1>11. Real(N) /\ Pointers(N) /\ Children(N) /\ Follows(N) /\ Totals(N, {})
  BY <1>1, <1>6, SameObjectsAgree DEF SameObjects
<1>12. Bindings(N)
  <2>1. \A i \in Ids : In(M1, i) => M1.live[i].key \in {0} \union Libs
    BY <1>2, Fields DEF LiveRecords
  <2>2. \A i \in Ids : In(N, i) <=> In(M1, i)
    BY <1>6 DEF In
  <2>3. \A a \in Libs : KnownIn(M1, a) => M1.etw[a].bound \in {0} \union Ids
    BY <1>2, Fields DEF EtwRecords
  <2>4. \A i \in Ids : In(N, i) /\ N.live[i].key # 0 =>
          KnownIn(N, N.live[i].key) /\ N.etw[N.live[i].key].bound = i
    <3> SUFFICES ASSUME NEW i \in Ids, In(N, i), N.live[i].key # 0
                 PROVE  KnownIn(N, N.live[i].key) /\ N.etw[N.live[i].key].bound = i
      OBVIOUS
    <3>1. /\ KnownIn(M1, M1.live[i].key) /\ M1.etw[M1.live[i].key].bound = i
          /\ M1.live[i].key \in Libs
      BY <1>2, <1>6, <2>1, <2>2 DEF Bindings
    <3>2. M1.live[i].key # k
      BY <1>4, <3>1, Numbers
    <3>3. QED
      BY <1>6, <1>10, <3>1, <3>2
  <2>5. \A a \in Libs : KnownIn(N, a) /\ N.etw[a].bound # 0 =>
          /\ ~N.etw[a].orphan
          /\ In(N, N.etw[a].bound) /\ N.live[N.etw[a].bound].key = a
    <3> SUFFICES ASSUME NEW a \in Libs, KnownIn(N, a), N.etw[a].bound # 0
                 PROVE  /\ ~N.etw[a].orphan
                        /\ In(N, N.etw[a].bound) /\ N.live[N.etw[a].bound].key = a
      OBVIOUS
    <3>1. /\ KnownIn(M1, a) /\ N.etw[a].bound = M1.etw[a].bound
          /\ N.etw[a].orphan = M1.etw[a].orphan
      BY <1>10
    <3>2. /\ ~M1.etw[a].orphan /\ M1.etw[a].bound \in Ids
          /\ In(M1, M1.etw[a].bound) /\ M1.live[M1.etw[a].bound].key = a
      BY <1>2, <2>3, <3>1 DEF Bindings
    <3>3. QED
      BY <1>6, <2>2, <3>1, <3>2
  <2>6. QED
    BY <2>4, <2>5 DEF Bindings
<1>13. Aliases(N)
  <2>1. \A a \in Libs : M1.alias[a] \in {0} \union Libs
    BY <1>2, Fields
  <2>2. Aliases(M1)
    BY <1>2 DEF Indexes
  <2>3. \A a \in Libs : N.alias[a] # 0 =>
           /\ KnownIn(N, N.alias[a])
           /\ a \in N.etw[N.alias[a]].aliases \union {N.alias[a]}
    <3> SUFFICES ASSUME NEW a \in Libs, N.alias[a] # 0
                 PROVE  /\ KnownIn(N, N.alias[a])
                        /\ a \in N.etw[N.alias[a]].aliases \union {N.alias[a]}
      OBVIOUS
    <3>1. CASE a = k
      BY <1>1, <1>9, <1>10, <3>1
    <3>2. CASE a # k
      <4> DEFINE b == M1.alias[a]
      <4>1. N.alias[a] = b /\ b \in Libs
        BY <1>9, <2>1, <3>2
      <4>2. KnownIn(M1, b) /\ a \in M1.etw[b].aliases \union {b}
        BY <2>2, <4>1 DEF Aliases
      <4>3. b # k
        BY <1>4, <3>2, <4>2
      <4>4. QED
        BY <1>10, <4>1, <4>2, <4>3
    <3>3. QED
      BY <3>1, <3>2
  <2>4. \A a \in Libs : KnownIn(N, a) =>
           /\ \A b \in N.etw[a].aliases \union {a} : N.alias[b] = a
           /\ N.etw[a].address = NoAddr => N.etw[a].aliases = {} /\ N.etw[a].bound = 0
    <3> SUFFICES ASSUME NEW a \in Libs, KnownIn(N, a)
                 PROVE  /\ \A b \in N.etw[a].aliases \union {a} : N.alias[b] = a
                        /\ N.etw[a].address = NoAddr =>
                             N.etw[a].aliases = {} /\ N.etw[a].bound = 0
      OBVIOUS
    <3>1. KnownIn(M1, a) /\ a # k
      BY <1>10
    <3>2. /\ \A b \in M1.etw[a].aliases \union {a} : M1.alias[b] = a
          /\ M1.etw[a].address = NoAddr => M1.etw[a].aliases = {} /\ M1.etw[a].bound = 0
      BY <2>2, <3>1 DEF Aliases
    <3>3. M1.etw[a].aliases \subseteq Libs
      BY <1>2, <3>1, Fields DEF EtwRecords
    <3>4. M1.alias[k] = k
      BY <1>1, <2>2 DEF Aliases
    <3>5. \A b \in N.etw[a].aliases \union {a} : N.alias[b] = a
      <4>1. CASE a = old
        <5>1. N.etw[a].aliases = M1.etw[a].aliases \union {k}
          BY <1>10, <3>1, <4>1
        <5>2. \A b \in M1.etw[a].aliases \union {a} : b # k => N.alias[b] = a
          BY <1>9, <3>2, <3>3
        <5>3. QED
          BY <1>9, <4>1, <5>1, <5>2
      <4>2. CASE a # old
        <5>1. N.etw[a].aliases = M1.etw[a].aliases
          BY <1>10, <3>1, <4>2
        <5>2. \A b \in M1.etw[a].aliases \union {a} : b # k
          BY <3>1, <3>2, <3>4
        <5>3. QED
          BY <1>9, <3>2, <3>3, <5>1, <5>2
      <4>3. QED
        BY <4>1, <4>2
    <3>6. QED
      BY <1>1, <1>10, <3>1, <3>2, <3>5
  <2>5. QED
    BY <2>3, <2>4 DEF Aliases
<1>14. Addresses(N)
  <2>1. \A q \in plan.addrs : M1.byAddr[q] \in {0} \union Libs
    BY <1>2, Fields
  <2>2. \A q \in plan.addrs : M1.byAddr[q] # 0 =>
          KnownIn(M1, M1.byAddr[q]) /\ M1.etw[M1.byAddr[q]].address = q
    BY <1>2 DEF Indexes, Addresses
  <2>3. \A q \in plan.addrs : M1.byAddr[q] # k
    BY <1>1, <2>2, Numbers
  <2>4. QED
    <3> SUFFICES ASSUME NEW q \in plan.addrs, N.byAddr[q] # 0
                 PROVE  KnownIn(N, N.byAddr[q]) /\ N.etw[N.byAddr[q]].address = q
      BY DEF Addresses
    <3> DEFINE b == M1.byAddr[q]
    <3>1. N.byAddr[q] = b /\ b \in Libs /\ b # k
      BY <1>6, <2>1, <2>3
    <3>2. KnownIn(M1, b) /\ M1.etw[b].address = q
      BY <2>2, <3>1
    <3> HIDE DEF b
    <3>3. QED
      BY <1>10, <3>1, <3>2
<1>15. Capped(N)
  BY <1>2, <1>6 DEF Capped
<1>16. Agree(N) /\ KnownIn(N, old)
  BY <1>1, <1>8, <1>10, <1>11, <1>12, <1>13, <1>14, <1>15 DEF Agree, Indexes
<1>17. NoNew(M, N)
  BY <1>1, <1>6 DEF NoNew, In
<1>18. Agree(TryBindEtw(N, old)) /\ NoNew(N, TryBindEtw(N, old))
       /\ Tried(N, TryBindEtw(N, old), old)
  BY <1>16, TryBindEtwAgrees
<1>19. NoNew(M, TryBindEtw(N, old))
  BY <1>17, <1>18 DEF NoNew
<1>20. MergeInto(M, old, k) = TryBindEtw(N, old)
  BY DEF MergeInto, N, M1
<1>21. Merges(M, MergeInto(M, old, k), old, k)
  <2> DEFINE R == MergeInto(M, old, k)
  <2>1. Tried(N, R, old)
    BY <1>18, <1>20
  <2>2. N.etw = [M1.etw EXCEPT ![k] = NoObj,
                   ![old] = [M1.etw[old] EXCEPT !.aliases = @ \union {k}, !.obj = M.etw[k].obj]]
    BY <1>6 DEF e
  <2>3. \/ M1 = M /\ (M.etw[k].group = "Unknown" \/ M.etw[k].group = M.etw[old].group)
        \/ /\ M.etw[k].group # "Unknown"
           /\ Regroups(M, M1, old, M.etw[k].group)
           /\ M1.etw = [M.etw EXCEPT ![old].group = M.etw[k].group]
    BY <1>1
  <2> HIDE DEF R
  <2>4. Merges(M, R, old, k)
    BY <1>1, <1>6, <1>16, <2>1, <2>2, <2>3 DEF Merges
  <2>5. QED
    BY <2>4 DEF R
<1>22. QED
  BY <1>18, <1>19, <1>20, <1>21

LEMMA NewRecordAgrees ==
  ASSUME TypesOK, NEW M, Agree(M), NEW k \in Libs, M.alias[k] = 0, NEW e \in EtwRecords,
         e.aliases = {}, e.address = NoAddr, e.bound = 0
  PROVE  LET R == [M EXCEPT !.etw[k] = e, !.alias[k] = k]
         IN  Agree(R) /\ NoNew(M, R)
<1> DEFINE N == [M EXCEPT !.etw[k] = e, !.alias[k] = k]
<1>1. M \in Models /\ Bindings(M) /\ Indexes(M) /\ Capped(M)
  BY DEF Agree
<1>2. M.etw \in [Libs -> {NoObj} \union EtwRecords]
      /\ M.alias \in [Libs -> {0} \union Libs] /\ e # NoObj /\ k # 0
  BY <1>1, Fields, NoRecords, Numbers
<1>3. /\ N.live = M.live /\ N.bytes = M.bytes /\ N.loc = M.loc
      /\ N.ptr = M.ptr /\ N.dead = M.dead /\ N.children = M.children
      /\ N.byAddr = M.byAddr /\ N.alias = [M.alias EXCEPT ![k] = k]
      /\ N.etw = [M.etw EXCEPT ![k] = e]
  BY <1>1 DEF Models
<1>4. N = [M EXCEPT !.etw = N.etw, !.alias = N.alias]
  BY <1>1 DEF Models
<1> HIDE DEF N
<1>5. N \in Models
  <2>1. N.etw \in [Libs -> {NoObj} \union EtwRecords] /\ N.alias \in [Libs -> {0} \union Libs]
    BY <1>2, <1>3
  <2>2. QED
    BY <1>1, <1>4, <2>1 DEF Models
<1>6. /\ N.etw[k] = e /\ N.alias[k] = k
      /\ \A a \in Libs : a # k => N.etw[a] = M.etw[a] /\ N.alias[a] = M.alias[a]
  BY <1>2, <1>3
<1>7. ~KnownIn(M, k) /\ \A a \in Libs : M.alias[a] # k
  <2>1. Aliases(M)
    BY <1>1 DEF Indexes
  <2>2. ~KnownIn(M, k)
    BY <1>2, <2>1 DEF Aliases
  <2>3. QED
    BY <1>2, <2>1, <2>2 DEF Aliases
<1>8. \A a \in Libs : /\ KnownIn(N, a) <=> KnownIn(M, a) \/ a = k
                      /\ KnownIn(M, a) => N.etw[a] = M.etw[a]
  BY <1>2, <1>6, <1>7 DEF KnownIn
<1>9. Real(N) /\ Pointers(N) /\ Children(N) /\ Follows(N) /\ Totals(N, {})
  BY <1>3, SameObjectsAgree DEF SameObjects
<1>10. Bindings(N)
  <2>1. \A i \in Ids : In(M, i) => M.live[i].key \in {0} \union Libs
    BY <1>1, Fields DEF LiveRecords
  <2>2. \A i \in Ids : In(N, i) <=> In(M, i)
    BY <1>3 DEF In
  <2>3. \A i \in Ids : In(N, i) /\ N.live[i].key # 0 =>
          KnownIn(N, N.live[i].key) /\ N.etw[N.live[i].key].bound = i
    BY <1>1, <1>3, <1>8, <2>1, <2>2 DEF Bindings
  <2>4. \A a \in Libs : KnownIn(N, a) /\ N.etw[a].bound # 0 =>
          /\ ~N.etw[a].orphan
          /\ In(N, N.etw[a].bound) /\ N.live[N.etw[a].bound].key = a
    <3> SUFFICES ASSUME NEW a \in Libs, KnownIn(N, a), N.etw[a].bound # 0
                 PROVE  /\ ~N.etw[a].orphan
                        /\ In(N, N.etw[a].bound) /\ N.live[N.etw[a].bound].key = a
      OBVIOUS
    <3>1. KnownIn(M, a) /\ N.etw[a] = M.etw[a]
      BY <1>6, <1>8
    <3>2. M.etw[a].bound \in Ids
      BY <1>1, <3>1, Fields DEF EtwRecords
    <3>3. QED
      BY <1>1, <1>3, <2>2, <3>1, <3>2 DEF Bindings
  <2>5. QED
    BY <2>3, <2>4 DEF Bindings
<1>11. Aliases(N)
  <2>1. \A a \in Libs : M.alias[a] \in {0} \union Libs
    BY <1>1, Fields
  <2>2. Aliases(M)
    BY <1>1 DEF Indexes
  <2>3. \A a \in Libs : N.alias[a] # 0 =>
           /\ KnownIn(N, N.alias[a])
           /\ a \in N.etw[N.alias[a]].aliases \union {N.alias[a]}
    <3> SUFFICES ASSUME NEW a \in Libs, N.alias[a] # 0
                 PROVE  /\ KnownIn(N, N.alias[a])
                        /\ a \in N.etw[N.alias[a]].aliases \union {N.alias[a]}
      OBVIOUS
    <3>1. CASE a = k
      BY <1>6, <1>8, <3>1
    <3>2. CASE a # k
      <4>1. N.alias[a] = M.alias[a] /\ M.alias[a] \in Libs
        BY <1>6, <2>1, <3>2
      <4>2. KnownIn(M, M.alias[a]) /\ a \in M.etw[M.alias[a]].aliases \union {M.alias[a]}
        BY <2>2, <4>1 DEF Aliases
      <4>3. QED
        BY <1>8, <4>1, <4>2
    <3>3. QED
      BY <3>1, <3>2
  <2>4. \A a \in Libs : KnownIn(N, a) =>
           /\ \A b \in N.etw[a].aliases \union {a} : N.alias[b] = a
           /\ N.etw[a].address = NoAddr => N.etw[a].aliases = {} /\ N.etw[a].bound = 0
    <3> SUFFICES ASSUME NEW a \in Libs, KnownIn(N, a)
                 PROVE  /\ \A b \in N.etw[a].aliases \union {a} : N.alias[b] = a
                        /\ N.etw[a].address = NoAddr =>
                             N.etw[a].aliases = {} /\ N.etw[a].bound = 0
      OBVIOUS
    <3>1. CASE a = k
      BY <1>6, <3>1
    <3>2. CASE a # k
      <4>1. KnownIn(M, a) /\ N.etw[a] = M.etw[a]
        BY <1>6, <1>8, <3>2
      <4>2. /\ \A b \in M.etw[a].aliases \union {a} : M.alias[b] = a
            /\ M.etw[a].address = NoAddr => M.etw[a].aliases = {} /\ M.etw[a].bound = 0
        BY <2>2, <4>1 DEF Aliases
      <4>3. M.etw[a].aliases \subseteq Libs
        BY <1>1, <4>1, Fields DEF EtwRecords
      <4>4. \A b \in M.etw[a].aliases \union {a} : b # k /\ b \in Libs
        BY <1>2, <4>2, <4>3, Numbers
      <4>5. QED
        BY <1>6, <4>1, <4>2, <4>4
    <3>3. QED
      BY <3>1, <3>2
  <2>5. QED
    BY <2>3, <2>4 DEF Aliases
<1>12. Addresses(N)
  <2>1. \A q \in plan.addrs : M.byAddr[q] \in {0} \union Libs
    BY <1>1, Fields
  <2>2. Addresses(M)
    BY <1>1 DEF Indexes
  <2>3. QED
    BY <1>3, <1>8, <2>1, <2>2 DEF Addresses
<1>13. Capped(N)
  BY <1>1, <1>3 DEF Capped
<1>14. NoNew(M, N)
  BY <1>3 DEF NoNew, In
<1>15. QED
  BY <1>5, <1>9, <1>10, <1>11, <1>12, <1>13, <1>14 DEF Agree, Indexes, N

\* What OnEtwObjectDestroyed does to a Model.
Forget(M, k) ==
  LET e == M.etw[k]
      Unbind(K) == IF e.bound # 0 /\ K.live[e.bound] # NoObj
                      /\ K.live[e.bound].key = k
                   THEN [K EXCEPT !.live[e.bound].key = 0] ELSE K
      Unindex(K) == IF e.address # NoAddr /\ K.byAddr[e.address] = k
                    THEN [K EXCEPT !.byAddr[e.address] = 0] ELSE K
  IN  [Unindex(Unbind(M)) EXCEPT
         !.alias = [a \in Libs |-> IF a \in e.aliases \union {k} THEN 0 ELSE @[a]],
         !.etw[k] = NoObj]

LEMMA ForgetAgrees ==
  ASSUME TypesOK, NEW M, Agree(M), NEW k \in Libs, KnownIn(M, k)
  PROVE  Agree(Forget(M, k)) /\ NoNew(M, Forget(M, k)) /\ Forgets(M, Forget(M, k), k)
<1> DEFINE e == M.etw[k]
           b == e.bound
           live2 == IF b # 0 THEN [M.live EXCEPT ![b].key = 0] ELSE M.live
           M1 == IF b # 0 /\ M.live[b] # NoObj /\ M.live[b].key = k
                 THEN [M EXCEPT !.live[b].key = 0] ELSE M
           M2 == IF e.address # NoAddr /\ M1.byAddr[e.address] = k
                 THEN [M1 EXCEPT !.byAddr[e.address] = 0] ELSE M1
           byAddr2 == [p \in plan.addrs |-> IF M.byAddr[p] = k THEN 0 ELSE M.byAddr[p]]
           alias2 == [a \in Libs |-> IF a \in e.aliases \union {k} THEN 0 ELSE M.alias[a]]
           N == [M EXCEPT !.live = live2, !.byAddr = byAddr2, !.alias = alias2,
                          !.etw = [M.etw EXCEPT ![k] = NoObj]]
<1>1. M \in Models /\ Bindings(M) /\ Indexes(M) /\ Capped(M) /\ Real(M)
      /\ Totals(M, {}) /\ Follows(M)
  BY DEF Agree
<1>2. /\ M.live \in [Ids -> {NoObj} \union LiveRecords]
      /\ M.etw \in [Libs -> {NoObj} \union EtwRecords]
      /\ M.alias \in [Libs -> {0} \union Libs]
      /\ M.byAddr \in [plan.addrs -> {0} \union Libs]
      /\ e \in EtwRecords /\ k # 0
      /\ \A i \in Ids : In(M, i) => M.live[i] \in LiveRecords
  BY <1>1, Fields, Numbers
<1>3. b # 0 => b \in Ids /\ In(M, b) /\ M.live[b].key = k /\ M.live[b] \in LiveRecords
  BY <1>1, <1>2 DEF Bindings, EtwRecords
<1>4. M1 = [M EXCEPT !.live = live2]
  <2>1. CASE b = 0
    BY <1>1, <2>1 DEF Models
  <2>2. CASE b # 0
    <3>1. M1 = [M EXCEPT !.live[b].key = 0]
      BY <1>3, <2>2 DEF In
    <3>2. QED
      BY <1>1, <2>2, <3>1 DEF Models
  <2>3. QED
    BY <2>1, <2>2
<1>5. \A p \in plan.addrs : M.byAddr[p] = k => e.address = p /\ p # NoAddr
  BY <1>1, <1>2, Numbers DEF Indexes, Addresses
<1>6. M1.byAddr = M.byAddr
  <2> HIDE DEF M1, live2
  <2>1. QED
    BY <1>1, <1>4 DEF Models
<1>7. M2 = [M EXCEPT !.live = live2, !.byAddr = byAddr2]
  <2> DEFINE q == e.address
  <2>0. q \in {NoAddr} \union plan.addrs
    BY <1>2 DEF EtwRecords
  <2>1. CASE q # NoAddr /\ M.byAddr[q] = k
    <3>1. M2 = [M1 EXCEPT !.byAddr[q] = 0]
      BY <1>6, <2>1
    <3>2. [M.byAddr EXCEPT ![q] = 0] = byAddr2
      BY <1>2, <1>5, <2>0, <2>1
    <3> HIDE DEF M1, M2, byAddr2, q, live2
    <3>3. QED
      BY <1>1, <1>4, <3>1, <3>2 DEF Models
  <2>2. CASE ~(q # NoAddr /\ M.byAddr[q] = k)
    <3>1. M2 = M1
      BY <1>6, <2>2
    <3>2. \A p \in plan.addrs : M.byAddr[p] # k
      BY <1>5, <2>2
    <3>3. M.byAddr = byAddr2
      BY <1>2, <3>2
    <3> HIDE DEF M1, M2, byAddr2, q, live2
    <3>4. QED
      BY <1>1, <1>4, <3>1, <3>3 DEF Models
  <2>3. QED
    BY <2>1, <2>2
<1>8. Forget(M, k) = N
  <2>1. Forget(M, k) =
          [M2 EXCEPT !.alias = [a \in Libs |-> IF a \in e.aliases \union {k} THEN 0 ELSE @[a]],
                     !.etw[k] = NoObj]
    BY DEF Forget
  <2> HIDE DEF M2, M1, byAddr2, live2, e
  <2>2. M2.alias = M.alias /\ M2.etw = M.etw
    BY <1>1, <1>7 DEF Models
  <2>3. Forget(M, k) = [M2 EXCEPT !.alias = alias2, !.etw = [M.etw EXCEPT ![k] = NoObj]]
    BY <2>1, <2>2
  <2> HIDE DEF alias2
  <2>4. QED
    BY <1>1, <1>7, <2>3 DEF Models
<1> HIDE DEF M1, M2
<1>9. /\ N.live = live2 /\ N.bytes = M.bytes /\ N.loc = M.loc
      /\ N.ptr = M.ptr /\ N.dead = M.dead /\ N.children = M.children
      /\ N.byAddr = byAddr2 /\ N.alias = alias2
      /\ N.etw = [M.etw EXCEPT ![k] = NoObj]
  <2> HIDE DEF live2, byAddr2, alias2
  <2>1. QED
    BY <1>1 DEF Models
<1>10. /\ live2 \in [Ids -> {NoObj} \union LiveRecords]
       /\ \A i \in Ids : (live2[i] # NoObj) <=> In(M, i)
       /\ \A i \in Ids : In(M, i) =>
            /\ live2[i].eff = M.live[i].eff /\ live2[i].own = M.live[i].own
            /\ live2[i].key = IF i = b THEN 0 ELSE M.live[i].key
  <2>1. CASE b = 0
    BY <1>2, <2>1, Numbers DEF In
  <2>2. CASE b # 0
    <3>1. /\ live2[b] = [M.live[b] EXCEPT !.key = 0]
          /\ \A i \in Ids : i # b => live2[i] = M.live[i]
          /\ live2 = [M.live EXCEPT ![b].key = 0]
      BY <1>2, <1>3, <2>2
    <3>2. live2[b] \in LiveRecords /\ live2[b].eff = M.live[b].eff
          /\ live2[b].own = M.live[b].own /\ live2[b].key = 0
      BY <1>3, <2>2, <3>1 DEF LiveRecords
    <3> HIDE DEF live2
    <3>3. live2 \in [Ids -> {NoObj} \union LiveRecords]
      BY <1>2, <1>3, <2>2, <3>1, <3>2
    <3>4. QED
      BY <1>3, <2>2, <3>1, <3>2, <3>3, NoRecords DEF In
  <2>3. QED
    BY <2>1, <2>2
<1>11. byAddr2 \in [plan.addrs -> {0} \union Libs] /\ alias2 \in [Libs -> {0} \union Libs]
  BY <1>2
<1>12. N \in Models
  <2>1. [M.etw EXCEPT ![k] = NoObj] \in [Libs -> {NoObj} \union EtwRecords]
    BY <1>2
  <2> HIDE DEF live2, byAddr2, alias2
  <2>2. QED
    BY <1>1, <1>10, <1>11, <2>1 DEF Models
<1>13. \A a \in Libs : N.alias[a] = IF a \in e.aliases \union {k} THEN 0 ELSE M.alias[a]
  BY <1>9
<1>14. \A p \in plan.addrs : N.byAddr[p] = IF M.byAddr[p] = k THEN 0 ELSE M.byAddr[p]
  BY <1>9
<1> HIDE DEF N, live2, byAddr2, alias2
<1>15. \A a \in Libs : /\ KnownIn(N, a) <=> KnownIn(M, a) /\ a # k
                       /\ a # k => N.etw[a] = M.etw[a]
  BY <1>2, <1>9 DEF KnownIn
<1>16. \A i \in Ids : In(N, i) <=> In(M, i)
  BY <1>9, <1>10 DEF In
<1>17. Bindings(N)
  <2>1. \A i \in Ids : In(N, i) /\ N.live[i].key # 0 =>
          KnownIn(N, N.live[i].key) /\ N.etw[N.live[i].key].bound = i
    <3> SUFFICES ASSUME NEW i \in Ids, In(N, i), N.live[i].key # 0
                 PROVE  KnownIn(N, N.live[i].key) /\ N.etw[N.live[i].key].bound = i
      OBVIOUS
    <3>1. In(M, i) /\ i # b /\ N.live[i].key = M.live[i].key
      BY <1>9, <1>10, <1>16
    <3>2. M.live[i].key \in Libs
      BY <1>2, <3>1 DEF LiveRecords
    <3>3. KnownIn(M, M.live[i].key) /\ M.etw[M.live[i].key].bound = i
      BY <1>1, <3>1 DEF Bindings
    <3>4. M.live[i].key # k
      BY <3>1, <3>3
    <3>5. QED
      BY <1>15, <3>1, <3>2, <3>3, <3>4
  <2>2. \A a \in Libs : KnownIn(N, a) /\ N.etw[a].bound # 0 =>
          /\ ~N.etw[a].orphan
          /\ In(N, N.etw[a].bound) /\ N.live[N.etw[a].bound].key = a
    <3> SUFFICES ASSUME NEW a \in Libs, KnownIn(N, a), N.etw[a].bound # 0
                 PROVE  /\ ~N.etw[a].orphan
                        /\ In(N, N.etw[a].bound) /\ N.live[N.etw[a].bound].key = a
      OBVIOUS
    <3>1. KnownIn(M, a) /\ a # k /\ N.etw[a] = M.etw[a]
      BY <1>15
    <3>2. M.etw[a].bound \in Ids
      BY <1>1, <3>1, Fields DEF EtwRecords
    <3>3. /\ ~M.etw[a].orphan
          /\ In(M, M.etw[a].bound) /\ M.live[M.etw[a].bound].key = a
      BY <1>1, <3>1 DEF Bindings
    <3>4. M.etw[a].bound # b
      BY <1>3, <3>1, <3>2, <3>3, Numbers
    <3>5. QED
      BY <1>9, <1>10, <1>16, <3>1, <3>2, <3>3, <3>4
  <2>3. QED
    BY <2>1, <2>2 DEF Bindings
<1>18. Aliases(N)
  <2>1. \A a \in Libs : M.alias[a] \in {0} \union Libs
    BY <1>2
  <2>2. Aliases(M)
    BY <1>1 DEF Indexes
  <2>3. \A a \in Libs : N.alias[a] # 0 =>
           /\ KnownIn(N, N.alias[a])
           /\ a \in N.etw[N.alias[a]].aliases \union {N.alias[a]}
    <3> SUFFICES ASSUME NEW a \in Libs, N.alias[a] # 0
                 PROVE  /\ KnownIn(N, N.alias[a])
                        /\ a \in N.etw[N.alias[a]].aliases \union {N.alias[a]}
      OBVIOUS
    <3>1. a \notin e.aliases \union {k} /\ N.alias[a] = M.alias[a] /\ M.alias[a] \in Libs
      BY <1>13, <2>1
    <3>2. KnownIn(M, M.alias[a]) /\ a \in M.etw[M.alias[a]].aliases \union {M.alias[a]}
      BY <2>2, <3>1 DEF Aliases
    <3>3. M.alias[a] # k
      BY <3>1, <3>2
    <3>4. QED
      BY <1>15, <3>1, <3>2, <3>3
  <2>4. \A a \in Libs : KnownIn(N, a) =>
           /\ \A c \in N.etw[a].aliases \union {a} : N.alias[c] = a
           /\ N.etw[a].address = NoAddr => N.etw[a].aliases = {} /\ N.etw[a].bound = 0
    <3> SUFFICES ASSUME NEW a \in Libs, KnownIn(N, a)
                 PROVE  /\ \A c \in N.etw[a].aliases \union {a} : N.alias[c] = a
                        /\ N.etw[a].address = NoAddr =>
                             N.etw[a].aliases = {} /\ N.etw[a].bound = 0
      OBVIOUS
    <3>1. KnownIn(M, a) /\ a # k /\ N.etw[a] = M.etw[a]
      BY <1>15
    <3>2. /\ \A c \in M.etw[a].aliases \union {a} : M.alias[c] = a
          /\ M.etw[a].address = NoAddr => M.etw[a].aliases = {} /\ M.etw[a].bound = 0
      BY <2>2, <3>1 DEF Aliases
    <3>3. \A c \in e.aliases \union {k} : M.alias[c] = k
      BY <2>2 DEF Aliases
    <3>4. M.etw[a].aliases \subseteq Libs
      BY <1>1, <3>1, Fields DEF EtwRecords
    <3>5. \A c \in M.etw[a].aliases \union {a} : c \in Libs /\ c \notin e.aliases \union {k}
      BY <3>1, <3>2, <3>3, <3>4
    <3>6. QED
      BY <1>13, <3>1, <3>2, <3>5
  <2>5. QED
    BY <2>3, <2>4 DEF Aliases
<1>19. Addresses(N)
  <2>1. \A q \in plan.addrs : M.byAddr[q] \in {0} \union Libs
    BY <1>2
  <2>2. Addresses(M)
    BY <1>1 DEF Indexes
  <2>3. QED
    BY <1>14, <1>15, <2>1, <2>2 DEF Addresses
<1>20. Pointers(N) /\ Children(N)
  BY <1>1, <1>9, <1>16, Fields DEF Indexes, Pointers, Children
<1>21. Follows(N) /\ Totals(N, {})
  <2>1. SameOwn(M, N) /\ \A i \in Ids : In(M, i) => N.live[i].eff = M.live[i].eff
    BY <1>9, <1>10, <1>16 DEF SameOwn
  <2>2. QED
    BY <1>1, <1>9, <1>16, <2>1, SameAt, SameFollows
<1>22. Capped(N) /\ Real(N)
  BY <1>1, <1>9, <1>16 DEF Capped, Real
<1>23. Agree(N)
  BY <1>12, <1>17, <1>18, <1>19, <1>20, <1>21, <1>22 DEF Agree, Indexes
<1>24. NoNew(M, N)
  BY <1>16 DEF NoNew
<1>25. Forgets(M, N, k)
  <2>1. \A j \in Ids : In(M, j) => (M.live[j].key = k <=> j = b)
    <3>1. \A j \in Ids : In(M, j) /\ M.live[j].key = k => b = j
      BY <1>1, <1>2 DEF Bindings
    <3>2. QED
      BY <1>3, <3>1, Numbers
  <2>2. \A j \in Ids : In(M, j) =>
       /\ N.live[j].own = M.live[j].own
       /\ N.live[j].key = IF M.live[j].key = k THEN 0 ELSE M.live[j].key
    BY <1>9, <1>10, <2>1
  <2>3. \A j \in Ids : In(M, j) => N.live[j].prev = M.live[j].prev
    <3>1. CASE b = 0
      BY <1>9, <3>1 DEF live2
    <3>2. CASE b # 0
      BY <1>2, <1>3, <1>9, <3>2 DEF live2, LiveRecords
    <3>3. QED
      BY <3>1, <3>2
  <2>4. QED
    BY <1>9, <1>13, <1>14, <1>16, <2>2, <2>3 DEF Forgets, SameLive
<1>26. QED
  BY <1>8, <1>23, <1>24, <1>25

-----------------------------------------------------------------------------
(* The creation of an object.                                              *)

\* What PipeCreated does to a Model.
Unset == [prev |-> 0, key |-> 0, own |-> "Unknown", eff |-> "Unknown"]
Create(M, i) ==
  EtwOnCreated([M EXCEPT !.live[i] = Unset, !.bytes = @ + Size(i)], i)

LEMMA CreateAgrees ==
  ASSUME TypesOK, Game, NEW M, Agree(M), NEW i \in Ids, ~In(M, i), Begun(i),
         \A c \in Ids : ChildOf(c, i) => ~In(M, c)
  PROVE  /\ Agree(Create(M, i))
         /\ \A j \in Ids : In(Create(M, i), j) => In(M, j) \/ j = i
         /\ Arrives(M, Create(M, i), i)
<1> DEFINE p == obj[i].addr
           h == obj[i].parent
           prev == IF M.dead[p] = <<>> THEN 0 ELSE Last(M.dead[p]).destroyed
           o == [Unset EXCEPT !.prev = prev]
           placed == Placed(i) /\ h # 0
           children2 == IF placed THEN [M.children EXCEPT ![h] = @ \union {i}] ELSE M.children
           live1 == [M.live EXCEPT ![i] = o]
           M2 == [M EXCEPT !.live = live1, !.bytes = @ + Size(i),
                           !.ptr = [@ EXCEPT ![p] = i], !.children = children2]
           l == EffLoc(M2, i)
           o3 == [o EXCEPT !.eff = l]
           live3 == [M.live EXCEPT ![i] = o3]
           loc3 == IF HasMemory(i) THEN [M.loc EXCEPT ![l] = @ + Size(i)] ELSE M.loc
           N == [M2 EXCEPT !.live = live3, !.loc = loc3]
<1>1. M \in Models /\ Bindings(M) /\ Indexes(M) /\ Capped(M) /\ Real(M)
      /\ Totals(M, {}) /\ Follows(M)
  BY DEF Agree
<1>2. /\ M.live \in [Ids -> {NoObj} \union LiveRecords]
      /\ M.bytes \in Nat /\ M.loc \in [Locs -> Nat]
      /\ M.ptr \in [plan.addrs -> {0} \union Ids]
      /\ M.dead \in [plan.addrs -> Seq(Tombs)]
      /\ M.children \in [Ids -> SUBSET Ids]
      /\ M.etw \in [Libs -> {NoObj} \union EtwRecords]
      /\ M.byAddr \in [plan.addrs -> {0} \union Libs]
  BY <1>1, Fields
<1>3. p \in plan.addrs /\ i # 0 /\ i \in Nat
      /\ (Placed(i) => h \in Ids /\ plan.kinds[h] = "heap" /\ h # 0 /\ h # i)
  BY Numbers DEF Game, Placed
<1>4. prev \in Stamps
  <2>1. CASE M.dead[p] = <<>>
    BY <2>1, Numbers
  <2>2. CASE M.dead[p] # <<>>
    <3>1. M.dead[p] \in Seq(Tombs)
      BY <1>2, <1>3
    <3>2. Last(M.dead[p]) \in Tombs
      BY <2>2, <3>1 DEF Last
    <3>3. QED
      BY <2>2, <3>2 DEF Tombs
  <2>3. QED
    BY <2>1, <2>2
<1> HIDE DEF prev
<1>5. /\ o \in LiveRecords /\ o.own = "Unknown" /\ o.key = 0
      /\ o = [prev |-> prev, key |-> 0, own |-> "Unknown", eff |-> "Unknown"]
  BY <1>4 DEF Unset, LiveRecords, Locs
<1>6. /\ children2 \in [Ids -> SUBSET Ids]
      /\ \A j \in Ids : children2[j] = IF Placed(i) /\ j = h THEN M.children[j] \union {i}
                                       ELSE M.children[j]
  BY <1>2, <1>3
<1>7. live1 \in [Ids -> {NoObj} \union LiveRecords]
  BY <1>2, <1>5
<1> HIDE DEF o, children2, live1
<1>8. M2.live = live1 /\ M2.loc = M.loc
  BY <1>1 DEF Models
<1>9. M2 \in Models
  <2>1. M.bytes + Size(i) \in Nat /\ [M.ptr EXCEPT ![p] = i] \in [plan.addrs -> {0} \union Ids]
    BY <1>2, <1>3 DEF Size
  <2> HIDE DEF p
  <2>2. QED
    BY <1>1, <1>6, <1>7, <2>1 DEF Models
<1>10. l \in Locs
  <2>1. live1[i] = o
    BY <1>2 DEF live1
  <2>2. In(M2, i)
    BY <1>5, <1>8, <2>1, NoRecords DEF In
  <2> HIDE DEF M2
  <2>3. QED
    BY <1>9, <2>2, EffLocType
<1> DEFINE K == [M EXCEPT !.live[i] = Unset, !.bytes = @ + Size(i)]
           K1 == [K EXCEPT !.live[i].prev = prev, !.ptr[p] = i]
           K2 == IF placed THEN [K1 EXCEPT !.children[h] = @ \union {i}] ELSE K1
           K3 == AddLoc([K2 EXCEPT !.live[i].eff = EffLoc(K2, i)], i)
<1>11. K2 = M2
  <2>1. [[M.live EXCEPT ![i] = Unset] EXCEPT ![i].prev = prev] = live1
    BY <1>2 DEF live1, o
  <2>2. K1 = [M EXCEPT !.live = live1, !.bytes = @ + Size(i), !.ptr = [@ EXCEPT ![p] = i]]
    BY <1>1, <2>1 DEF Models
  <2> HIDE DEF K1
  <2>3. QED
    BY <1>1, <2>2 DEF Models, children2
<1> HIDE DEF K1, K2
<1>12. K3 = N
  <2>1. [live1 EXCEPT ![i].eff = l] = live3
    BY <1>2 DEF live1
  <2>2. K3 = AddLoc([M2 EXCEPT !.live = live3], i)
    <3>1. K3 = AddLoc([M2 EXCEPT !.live[i].eff = l], i)
      BY <1>11
    <3>2. [M2 EXCEPT !.live[i].eff = l] = [M2 EXCEPT !.live = live3]
      BY <1>1, <2>1 DEF Models
    <3>3. QED
      BY <3>1, <3>2
  <2>3. live3[i].eff = l
    BY <1>2, <1>5
  <2> HIDE DEF live3, l
  <2>4. QED
    BY <1>1, <2>2, <2>3 DEF Models, AddLoc
<1> HIDE DEF K3
<1>13. Create(M, i) = LET k == N.byAddr[p]
                      IN  IF k # 0 /\ N.etw[k] # NoObj /\ CanBind(N, k, i)
                          THEN Bind(N, k, i) ELSE N
  <2>1. Create(M, i) = LET k == K3.byAddr[p]
                       IN  IF k # 0 /\ K3.etw[k] # NoObj /\ CanBind(K3, k, i)
                           THEN Bind(K3, k, i) ELSE K3
    <3>1. K.dead = M.dead
      BY <1>1 DEF Models
    <3> HIDE DEF K
    <3>2. prev = IF K.dead[p] = <<>> THEN 0 ELSE Last(K.dead[p]).destroyed
      BY <3>1 DEF prev
    <3> HIDE DEF p, h
    <3>3. QED
      BY <3>2 DEF Create, EtwOnCreated, K, K1, K2, K3, p, h
  <2>2. QED
    BY <1>12, <2>1
<1>14. /\ N.live = live3 /\ N.bytes = M.bytes + i /\ N.loc = loc3
       /\ N.ptr = [M.ptr EXCEPT ![p] = i] /\ N.dead = M.dead /\ N.children = children2
       /\ N.etw = M.etw /\ N.alias = M.alias /\ N.byAddr = M.byAddr
  <2> HIDE DEF live3, loc3, p
  <2>1. QED
    BY <1>1 DEF Models, Size
<1>15. /\ live3 \in [Ids -> {NoObj} \union LiveRecords]
       /\ live3[i] = o3 /\ o3 \in LiveRecords /\ o3.key = 0 /\ o3.own = "Unknown"
       /\ o3.eff = l
       /\ \A j \in Ids : j # i => live3[j] = M.live[j]
  <2>1. o3 \in LiveRecords /\ o3.key = 0 /\ o3.own = "Unknown" /\ o3.eff = l
    BY <1>5, <1>10 DEF LiveRecords
  <2> HIDE DEF o3
  <2>2. QED
    BY <1>2, <2>1
<1>16. loc3 \in [Locs -> Nat]
  BY <1>2, <1>3, <1>10 DEF Size
<1>17. N \in Models
  <2> HIDE DEF live3, loc3, M2
  <2>1. QED
    BY <1>9, <1>15, <1>16 DEF Models
<1> HIDE DEF N, M2
<1>18. \A j \in Ids : In(N, j) <=> In(M, j) \/ j = i
  BY <1>14, <1>15, NoRecords DEF In
<1>19. Bindings(N)
  <2>a. \A k \in Libs : KnownIn(M, k) => M.etw[k].bound \in {0} \union Ids
    BY <1>1, Fields DEF EtwRecords
  <2>b. \A k \in Libs : KnownIn(M, k) => M.etw[k].bound # i
    BY <1>1, <1>3 DEF Bindings
  <2>1. \A k \in Libs : KnownIn(M, k) => M.etw[k].bound \in {0} \union Ids /\ M.etw[k].bound # i
    BY <2>a, <2>b
  <2>2. \A k \in Libs : KnownIn(N, k) /\ N.etw[k].bound # 0 =>
          /\ ~N.etw[k].orphan
          /\ In(N, N.etw[k].bound) /\ N.live[N.etw[k].bound].key = k
    BY <1>1, <1>14, <1>15, <1>18, <2>1 DEF Bindings, KnownIn
  <2>3. \A j \in Ids : In(N, j) /\ N.live[j].key # 0 =>
          KnownIn(N, N.live[j].key) /\ N.etw[N.live[j].key].bound = j
    BY <1>1, <1>14, <1>15, <1>18 DEF Bindings, KnownIn
  <2>4. QED
    BY <2>2, <2>3 DEF Bindings
<1>20. Pointers(N)
  BY <1>1, <1>2, <1>3, <1>14, <1>18 DEF Indexes, Pointers
<1>21. Aliases(N) /\ Addresses(N)
  BY <1>1, <1>14 DEF Indexes, Aliases, Addresses, KnownIn
<1>22. Children(N)
  <2>1. Children(M)
    BY <1>1 DEF Indexes
  <2>2. Placed(i) => ChildOf(i, h)
    BY DEF ChildOf
  <2>3. \A a \in Ids : ChildOf(i, a) => Placed(i) /\ a = h
    BY DEF ChildOf
  <2> HIDE DEF h
  <2>4. QED
    BY <1>6, <1>14, <1>18, <2>1, <2>2, <2>3 DEF Children
<1>23. Capped(N) /\ Real(N)
  BY <1>1, <1>14, <1>18 DEF Capped, Real
<1>24. \A j \in Ids : j # i => N.live[j] = M.live[j]
  BY <1>14, <1>15
<1>25. Follows(N)
  <2> SUFFICES ASSUME NEW j \in Ids, In(N, j)
               PROVE  N.live[j].eff = EffLoc(N, j)
    BY DEF Follows
  <2>1. CASE j = i
    <3>1. N.live[i].eff = l
      BY <1>14, <1>15
    <3>2. \A a \in Ids : a # i => M2.live[a] = N.live[a]
      BY <1>2, <1>8, <1>24 DEF live1
    <3>3. M2.live[i].own = "Unknown" /\ N.live[i].own = "Unknown"
      BY <1>2, <1>5, <1>8, <1>14, <1>15 DEF live1
    <3>4. EffLoc(N, i) = EffLoc(M2, i)
      BY <1>3, <3>2, <3>3 DEF EffLoc
    <3>5. QED
      BY <2>1, <3>1, <3>4
  <2>2. CASE j # i
    <3>1. In(M, j) /\ Begun(j)
      BY <1>1, <1>18, <2>2 DEF Real
    <3>2. Placed(j) => obj[j].parent # i
      BY <3>1 DEF ChildOf
    <3>3. EffLoc(N, j) = EffLoc(M, j)
      BY <1>24, <2>2, <3>2, ParentType DEF EffLoc
    <3>4. QED
      BY <1>1, <1>24, <2>2, <3>1, <3>3 DEF Follows
  <2>3. QED
    BY <2>1, <2>2
<1>26. Totals(N, {})
  <2>1. /\ IsFiniteSet({j \in Ids : In(N, j)}) /\ {j \in Ids : In(N, j)} \subseteq Nat
        /\ \A w \in Locs : IsFiniteSet(At(N, w, {})) /\ At(N, w, {}) \subseteq Nat
    BY Numbers, FS_Subset DEF At
  <2>2. N.bytes = SumSet({j \in Ids : In(N, j)})
    <3>1. {j \in Ids : In(M, j)} = {j \in Ids : In(N, j)} \ {i} /\ i \in {j \in Ids : In(N, j)}
      BY <1>18
    <3>2. M.bytes = SumSet({j \in Ids : In(M, j)})
      BY <1>1 DEF Totals
    <3>3. SumSet({j \in Ids : In(N, j)}) = SumSet({j \in Ids : In(N, j)} \ {i}) + i
      BY <2>1, <3>1, SumOfNats
    <3>4. QED
      BY <1>14, <3>1, <3>2, <3>3
  <2>3. \A w \in Locs : N.loc[w] = SumSet(At(N, w, {}))
    <3> SUFFICES ASSUME NEW w \in Locs
                 PROVE  N.loc[w] = SumSet(At(N, w, {}))
      OBVIOUS
    <3>1. M.loc[w] = SumSet(At(M, w, {}))
      BY <1>1 DEF Totals
    <3>2. N.live[i].eff = l
      BY <1>14, <1>15
    <3>3. CASE HasMemory(i) /\ w = l
      <4>1. i \in At(N, w, {}) /\ At(M, w, {}) = At(N, w, {}) \ {i}
        BY <1>18, <1>24, <3>2, <3>3 DEF At
      <4>2. SumSet(At(N, w, {})) = SumSet(At(N, w, {}) \ {i}) + i
        BY <2>1, <4>1, SumOfNats
      <4> HIDE DEF l
      <4>3. N.loc[w] = M.loc[w] + i
        BY <1>2, <1>14, <3>3 DEF Size
      <4>4. QED
        BY <3>1, <4>1, <4>2, <4>3
    <3>4. CASE ~(HasMemory(i) /\ w = l)
      <4>1. At(M, w, {}) = At(N, w, {})
        BY <1>18, <1>24, <3>2, <3>4 DEF At
      <4> HIDE DEF l
      <4>2. N.loc[w] = M.loc[w]
        BY <1>2, <1>14, <3>4
      <4>3. QED
        BY <3>1, <4>1, <4>2
    <3>5. QED
      BY <3>3, <3>4
  <2>4. QED
    BY <2>2, <2>3 DEF Totals
<1>27. Agree(N) /\ In(N, i)
  BY <1>17, <1>18, <1>19, <1>20, <1>21, <1>22, <1>23, <1>25, <1>26 DEF Agree, Indexes
<1>p. N.live[i].prev = IF M.dead[p] = <<>> THEN 0 ELSE Last(M.dead[p]).destroyed
  <2>1. o3.prev = prev
    BY <1>5
  <2> HIDE DEF o3
  <2>2. QED
    BY <1>14, <1>15, <2>1 DEF prev
<1>q. N.live[i].key = 0
  BY <1>14, <1>15
<1>r. \A R : \/ R = N
             \/ /\ M.byAddr[p] \in Libs /\ KnownIn(N, M.byAddr[p])
                /\ CanBind(N, M.byAddr[p], i) /\ Rebinds(N, R, M.byAddr[p], i)
      => Arrives(M, R, i)
  <2> HIDE DEF live3, loc3, l
  <2>1. QED
    BY <1>14, <1>24, <1>27, <1>p, <1>q DEF Arrives
<1> DEFINE k == N.byAddr[p]
<1>28. CASE k # 0 /\ N.etw[k] # NoObj /\ CanBind(N, k, i)
  <2>1. k \in Libs /\ KnownIn(N, k)
    BY <1>2, <1>3, <1>14, <1>28 DEF KnownIn
  <2>2. N.etw[k].address = p /\ p # NoAddr
    BY <1>3, <1>21, <1>28, Numbers DEF Addresses
  <2>3. N.etw[k].bound = 0 /\ ~N.etw[k].orphan
    BY <1>28 DEF CanBind
  <2>4. Create(M, i) = Bind(N, k, i)
    BY <1>13, <1>28
  <2>k. k = M.byAddr[p] /\ CanBind(N, k, i)
    BY <1>14, <1>28
  <2> HIDE DEF k, p
  <2>5. Agree(Bind(N, k, i)) /\ NoNew(N, Bind(N, k, i)) /\ Rebinds(N, Bind(N, k, i), k, i)
    BY <1>27, <2>1, <2>2, <2>3, BindAgrees
  <2>6. Arrives(M, Bind(N, k, i), i)
    BY <1>r, <2>1, <2>5, <2>k
  <2>7. QED
    BY <1>18, <2>4, <2>5, <2>6 DEF NoNew
<1>29. CASE ~(k # 0 /\ N.etw[k] # NoObj /\ CanBind(N, k, i))
  <2>1. Create(M, i) = N
    BY <1>13, <1>29
  <2>2. Arrives(M, N, i)
    BY <1>r
  <2>3. QED
    BY <1>18, <1>27, <2>1, <2>2
<1>30. QED
  BY <1>28, <1>29

-----------------------------------------------------------------------------
(* The death of an object.                                                 *)

\* What PipeDestroyed does to a Model.
Destroy(M, i, ts) ==
  [EtwOnDestroyed(M, i, ts) EXCEPT !.bytes = Minus(@, Size(i)), !.live[i] = NoObj]

LEMMA RememberCaps ==
  ASSUME NEW T, NEW s \in Seq(T), NEW x \in T, Len(s) <= DeadCap
  PROVE  Remember(s, x) \in Seq(T) /\ Len(Remember(s, x)) <= DeadCap
<1>1. DeadCap \in Nat /\ DeadCap >= 1
  BY JoinConstants
<1>2. CASE Len(s) >= DeadCap
  <2>1. s # <<>> /\ Tail(s) \in Seq(T) /\ Len(Tail(s)) = Len(s) - 1
    BY <1>1, <1>2
  <2>2. Remember(s, x) = Append(Tail(s), x)
    BY <1>2 DEF Remember
  <2>3. QED
    BY <1>1, <2>1, <2>2
<1>3. CASE ~(Len(s) >= DeadCap)
  BY <1>1, <1>3 DEF Remember
<1>4. QED
  BY <1>2, <1>3

LEMMA DestroyAgrees ==
  ASSUME TypesOK, Game, NEW M, Agree(M), NEW i \in Ids, In(M, i), NEW ts \in Stamps
  PROVE  /\ Agree(Destroy(M, i, ts)) /\ NoNew(M, Destroy(M, i, ts))
         /\ Departs(M, Destroy(M, i, ts), i, ts)
<1> DEFINE p == obj[i].addr
           h == obj[i].parent
           o == M.live[i]
           k == o.key
           b == o.eff
           tomb == [type |-> TypeOf(i), prev |-> o.prev, destroyed |-> ts]
           loc1 == IF HasMemory(i) THEN [M.loc EXCEPT ![b] = Minus(@, Size(i))] ELSE M.loc
           ptr1 == IF M.ptr[p] = i THEN [M.ptr EXCEPT ![p] = 0] ELSE M.ptr
           dead1 == [M.dead EXCEPT ![p] = Remember(@, tomb)]
           e == [M.etw[k] EXCEPT !.bound = 0, !.orphan = TRUE]
           etw1 == IF k # 0 THEN [M.etw EXCEPT ![k] = e] ELSE M.etw
           placed == Placed(i) /\ h # 0
           children1 == IF placed THEN [M.children EXCEPT ![h] = @ \ {i}] ELSE M.children
           N == [M EXCEPT !.loc = loc1, !.ptr = ptr1, !.dead = dead1, !.etw = etw1,
                          !.children = children1]
<1>1. M \in Models /\ Bindings(M) /\ Indexes(M) /\ Capped(M) /\ Real(M)
      /\ Totals(M, {}) /\ Follows(M)
  BY DEF Agree
<1>2. /\ M.live \in [Ids -> {NoObj} \union LiveRecords]
      /\ M.bytes \in Nat /\ M.loc \in [Locs -> Nat]
      /\ M.ptr \in [plan.addrs -> {0} \union Ids]
      /\ M.dead \in [plan.addrs -> Seq(Tombs)]
      /\ M.children \in [Ids -> SUBSET Ids]
      /\ M.etw \in [Libs -> {NoObj} \union EtwRecords]
      /\ M.alias \in [Libs -> {0} \union Libs]
      /\ M.byAddr \in [plan.addrs -> {0} \union Libs]
      /\ o \in LiveRecords
      /\ \A j \in Ids : In(M, j) => M.live[j] \in LiveRecords
  BY <1>1, Fields
<1>3. p \in plan.addrs /\ i # 0 /\ i \in Nat
      /\ (Placed(i) => h \in Ids /\ plan.kinds[h] = "heap" /\ h # 0 /\ h # i)
      /\ k \in {0} \union Libs /\ b \in Locs
  <2>1. Begun(i)
    BY <1>1 DEF Real
  <2>2. QED
    BY <1>2, <2>1, Numbers DEF Game, Placed, LiveRecords
<1>4. k # 0 => /\ k \in Libs /\ KnownIn(M, k) /\ M.etw[k].bound = i
               /\ M.etw[k] \in EtwRecords
  BY <1>1, <1>2, <1>3, Fields DEF Bindings
<1>5. k # 0 => /\ e \in EtwRecords /\ e.bound = 0 /\ e # NoObj
               /\ e.aliases = M.etw[k].aliases /\ e.address = M.etw[k].address
  <2> SUFFICES ASSUME k # 0
               PROVE  /\ e \in EtwRecords /\ e.bound = 0 /\ e # NoObj
                      /\ e.aliases = M.etw[k].aliases /\ e.address = M.etw[k].address
    OBVIOUS
  <2>1. M.etw[k] \in EtwRecords
    BY <1>4
  <2> HIDE DEF k
  <2>2. e \in EtwRecords /\ e.bound = 0
        /\ e.aliases = M.etw[k].aliases /\ e.address = M.etw[k].address
    BY <2>1 DEF EtwRecords
  <2>3. QED
    BY <2>2, NoRecords
<1>6. tomb \in Tombs
  BY <1>2 DEF Tombs, LiveRecords, TypeOf, Types
<1>7. /\ dead1 \in [plan.addrs -> Seq(Tombs)]
      /\ \A q \in plan.addrs : Len(dead1[q]) <= DeadCap
  <2> HIDE DEF p, tomb
  <2>1. M.dead[p] \in Seq(Tombs) /\ Len(M.dead[p]) <= DeadCap
    BY <1>1, <1>2, <1>3 DEF Capped
  <2>2. Remember(M.dead[p], tomb) \in Seq(Tombs) /\ Len(Remember(M.dead[p], tomb)) <= DeadCap
    BY <1>6, <2>1, RememberCaps
  <2>3. QED
    BY <1>1, <1>2, <1>3, <2>2 DEF Capped
<1>8. /\ loc1 \in [Locs -> Nat]
      /\ ptr1 \in [plan.addrs -> {0} \union Ids]
      /\ etw1 \in [Libs -> {NoObj} \union EtwRecords]
      /\ children1 \in [Ids -> SUBSET Ids]
  <2>1. loc1 \in [Locs -> Nat]
    BY <1>2, <1>3 DEF Minus, Size
  <2>2. ptr1 \in [plan.addrs -> {0} \union Ids]
    BY <1>2, <1>3
  <2>3. etw1 \in [Libs -> {NoObj} \union EtwRecords]
    <3> HIDE DEF e, k
    <3>1. QED
      BY <1>2, <1>4, <1>5
  <2>4. children1 \in [Ids -> SUBSET Ids]
    BY <1>2, <1>3
  <2>5. QED
    BY <2>1, <2>2, <2>3, <2>4
<1> DEFINE K1 == [ErasePtr(SubLoc(M, i), i) EXCEPT !.dead[p] = Remember(@, tomb)]
           K2 == OrphanRecord(K1, i)
           K3 == IF placed THEN [K2 EXCEPT !.children[h] = @ \ {i}] ELSE K2
<1>9. K3 = N
  <2>1. SubLoc(M, i) = [M EXCEPT !.loc = loc1]
    BY <1>1 DEF SubLoc, Models
  <2> HIDE DEF loc1
  <2>2. ErasePtr(SubLoc(M, i), i) = [M EXCEPT !.loc = loc1, !.ptr = ptr1]
    BY <1>1, <2>1 DEF ErasePtr, Models
  <2> HIDE DEF ptr1, tomb, p
  <2>3. K1 = [M EXCEPT !.loc = loc1, !.ptr = ptr1, !.dead = dead1]
    BY <1>1, <2>2 DEF Models
  <2> HIDE DEF K1, dead1
  <2>4. K1.live = M.live /\ K1.etw = M.etw
    BY <1>1, <2>3 DEF Models
  <2>5. K2 = [M EXCEPT !.loc = loc1, !.ptr = ptr1, !.dead = dead1, !.etw = etw1]
    <3>1. CASE k = 0
      <4>1. K2 = K1
        BY <2>4, <3>1 DEF OrphanRecord
      <4>2. QED
        BY <1>1, <2>3, <3>1, <4>1 DEF Models
    <3>2. CASE k # 0
      <4>1. K2 = [K1 EXCEPT !.etw[k].bound = 0, !.etw[k].orphan = TRUE]
        BY <1>4, <2>4, <3>2 DEF OrphanRecord, KnownIn
      <4>2. [M.etw EXCEPT ![k].bound = 0, ![k].orphan = TRUE] = etw1
        BY <1>2, <1>4, <3>2
      <4> HIDE DEF k, etw1, K2
      <4>3. K2 = [K1 EXCEPT !.etw = [M.etw EXCEPT ![k].bound = 0, ![k].orphan = TRUE]]
        <5>1. K1 \in [live : {M.live}, bytes : {M.bytes}, loc : {loc1}, ptr : {ptr1},
                      dead : {dead1}, children : {M.children}, etw : {M.etw},
                      alias : {M.alias}, byAddr : {M.byAddr}]
          BY <1>1, <2>3 DEF Models
        <5> HIDE DEF K1
        <5>2. QED
          BY <1>2, <1>4, <2>4, <3>2, <4>1, <5>1
      <4>4. K2 = [K1 EXCEPT !.etw = etw1]
        BY <4>2, <4>3
      <4>5. QED
        BY <1>1, <2>3, <4>4 DEF Models
    <3>3. QED
      BY <3>1, <3>2
  <2> HIDE DEF K2, etw1
  <2>6. QED
    BY <1>1, <2>5 DEF Models
<1> HIDE DEF K1, K2, K3
<1>10. EtwOnDestroyed(M, i, ts) = IF TypeOf(i) = "Heap" THEN OrphanChildren(N, i) ELSE N
  <2>1. EtwOnDestroyed(M, i, ts) = IF TypeOf(i) = "Heap" THEN OrphanChildren(K3, i) ELSE K3
    BY DEF EtwOnDestroyed, K1, K2, K3
  <2>2. QED
    BY <1>9, <2>1
<1>11. /\ N.live = M.live /\ N.bytes = M.bytes /\ N.loc = loc1 /\ N.ptr = ptr1
       /\ N.dead = dead1 /\ N.etw = etw1 /\ N.alias = M.alias /\ N.byAddr = M.byAddr
       /\ N.children = children1
  <2> HIDE DEF loc1, ptr1, dead1, etw1, children1
  <2>1. QED
    BY <1>1 DEF Models
<1>12. N \in Models
  <2> HIDE DEF loc1, ptr1, dead1, etw1, children1
  <2>1. QED
    BY <1>1, <1>7, <1>8 DEF Models
<1>13. /\ \A q \in plan.addrs : ptr1[q] = IF M.ptr[q] = i THEN 0 ELSE M.ptr[q]
       /\ \A j \in Ids : children1[j] = M.children[j] \ {i}
  <2>1. \A q \in plan.addrs : M.ptr[q] = i => q = p
    BY <1>1, <1>3 DEF Indexes, Pointers
  <2>2. \A j \in Ids : i \in M.children[j] => Placed(i) /\ j = h
    BY <1>1 DEF Indexes, Children, ChildOf
  <2>3. \A q \in plan.addrs : ptr1[q] = IF M.ptr[q] = i THEN 0 ELSE M.ptr[q]
    <3> HIDE DEF p
    <3>1. QED
      BY <1>2, <1>3, <2>1
  <2>4. \A j \in Ids : children1[j] = M.children[j] \ {i}
    <3> HIDE DEF h
    <3>1. CASE placed
      BY <1>2, <1>3, <2>2, <3>1
    <3>2. CASE ~placed
      BY <1>2, <1>3, <2>2, <3>2
    <3>3. QED
      BY <3>1, <3>2
  <2>5. QED
    BY <2>3, <2>4
<1>14. \A a \in Libs : /\ (etw1[a] # NoObj) <=> KnownIn(M, a)
                       /\ etw1[a].aliases = M.etw[a].aliases
                       /\ etw1[a].address = M.etw[a].address
                       /\ a = k => etw1[a].bound = 0
                       /\ a # k => etw1[a] = M.etw[a]
                       /\ KnownIn(M, a) => SameFacts(M.etw[a], etw1[a])
  <2>0. k # 0 => SameFacts(M.etw[k], e)
    <3> SUFFICES ASSUME k # 0
                 PROVE  SameFacts(M.etw[k], e)
      OBVIOUS
    <3>1. M.etw[k] \in EtwRecords
      BY <1>4
    <3> HIDE DEF k
    <3>2. QED
      BY <3>1 DEF EtwRecords, SameFacts
  <2> HIDE DEF e, k
  <2>1. CASE k = 0
    BY <2>1, Numbers DEF KnownIn, SameFacts
  <2>2. CASE k # 0
    <3>1. etw1 = [M.etw EXCEPT ![k] = e]
      BY <2>2
    <3> HIDE DEF etw1
    <3>2. etw1[k] = e /\ \A a \in Libs : a # k => etw1[a] = M.etw[a]
      BY <1>2, <1>4, <2>2, <3>1
    <3>3. \A a \in Libs : KnownIn(M, a) => SameFacts(M.etw[a], etw1[a])
      BY <2>0, <2>2, <3>2 DEF SameFacts
    <3>4. QED
      BY <1>4, <1>5, <2>2, <3>2, <3>3 DEF KnownIn
  <2>3. QED
    BY <2>1, <2>2
<1>d. dead1 = [M.dead EXCEPT ![p] = Remember(@, tomb)]
  OBVIOUS
<1> HIDE DEF e, etw1, children1, ptr1, dead1, N
\* The memory of the dead object is taken off.
<1>15. Totals(N, {i})
  <2>1. {j \in Ids : In(N, j)} = {j \in Ids : In(M, j)}
    BY <1>11 DEF In
  <2>2. \A w \in Locs : IsFiniteSet(At(M, w, {})) /\ At(M, w, {}) \subseteq Nat
    BY Numbers, FS_Subset DEF At
  <2>3. \A w \in Locs : /\ M.loc[w] = SumSet(At(M, w, {}))
                        /\ At(N, w, {i}) = At(M, w, {}) \ {i}
    BY <1>1, <1>11 DEF Totals, At, In
  <2>4. \A w \in Locs : loc1[w] = SumSet(At(N, w, {i}))
    <3> SUFFICES ASSUME NEW w \in Locs
                 PROVE  loc1[w] = SumSet(At(N, w, {i}))
      OBVIOUS
    <3>1. CASE HasMemory(i) /\ w = b
      <4>1. i \in At(M, w, {})
        BY <3>1 DEF At
      <4>2. SumSet(At(M, w, {})) = SumSet(At(M, w, {}) \ {i}) + i
        BY <2>2, <4>1, SumOfNats
      <4>3. SumSet(At(M, w, {}) \ {i}) \in Nat
        <5>1. IsFiniteSet(At(M, w, {}) \ {i}) /\ At(M, w, {}) \ {i} \subseteq Nat
          BY <2>2, FS_Subset
        <5>2. QED
          BY <5>1, SumOfNats
      <4>4. loc1[w] = Minus(M.loc[w], i)
        BY <1>2, <1>3, <3>1 DEF Size
      <4> DEFINE s == SumSet(At(M, w, {}) \ {i})
      <4>5. M.loc[w] = s + i /\ s \in Nat
        BY <2>3, <4>2, <4>3
      <4> HIDE DEF loc1, s
      <4>6. loc1[w] = s
        BY <1>3, <4>4, <4>5 DEF Minus
      <4>7. QED
        BY <2>3, <4>6 DEF s
    <3>2. CASE ~(HasMemory(i) /\ w = b)
      <4>1. i \notin At(M, w, {})
        BY <3>2 DEF At
      <4>2. At(M, w, {}) \ {i} = At(M, w, {})
        BY <4>1
      <4>3. loc1[w] = M.loc[w]
        BY <1>2, <1>3, <3>2
      <4> HIDE DEF loc1
      <4>4. QED
        BY <2>3, <4>2, <4>3
    <3>3. QED
      BY <3>1, <3>2
  <2>5. QED
    BY <1>1, <1>11, <2>1, <2>4 DEF Totals
<1> HIDE DEF loc1
<1> DEFINE D == IF TypeOf(i) = "Heap" THEN LiveChildren(M, i) ELSE {}
           to == [c \in D |-> M.live[c].own]
           P == EtwOnDestroyed(M, i, ts)
           kids == IF TypeOf(i) = "Heap" THEN [children1 EXCEPT ![i] = {}] ELSE children1
\* The placed resources of a heap fall back to their own location.
<1>16. D \in SUBSET (Ids \ {i}) /\ \A c \in Ids : c \in D <=> In(M, c) /\ ChildOf(c, i)
  <2>1. Children(M)
    BY <1>1 DEF Indexes
  <2>2. \A c \in Ids : ChildOf(c, i) => TypeOf(i) = "Heap" /\ c # i
    BY ParentIsHeap
  <2>3. LiveChildren(M, i) = {c \in Ids : In(M, c) /\ ChildOf(c, i)}
    BY <2>1 DEF Children, LiveChildren, In
  <2>4. QED
    BY <2>2, <2>3
<1>17. /\ P \in Models /\ Totals(P, {i}) /\ P.live = MovedTo(M, to, D)
       /\ P.bytes = M.bytes /\ P.ptr = ptr1 /\ P.dead = dead1 /\ P.children = kids
       /\ P.etw = etw1 /\ P.alias = M.alias /\ P.byAddr = M.byAddr
       /\ \A j \in Ids : In(P, j) <=> In(M, j)
       /\ \A j \in Ids : In(M, j) =>
            P.live[j].prev = M.live[j].prev /\ P.live[j].key = M.live[j].key
  <2>1. CASE TypeOf(i) # "Heap"
    <3>1. P = N
      BY <1>10, <2>1
    <3>2. D = {} /\ kids = children1
      BY <2>1
    <3> HIDE DEF P, D
    <3>3. M.live = MovedTo(M, to, D)
      BY <1>2, <3>2 DEF MovedTo
    <3>4. QED
      BY <1>11, <1>12, <1>15, <3>1, <3>2, <3>3 DEF In
  <2>2. CASE TypeOf(i) = "Heap"
    <3> DEFINE N0 == [N EXCEPT !.children[i] = {}]
    <3>1. N0 = [N EXCEPT !.children = kids]
      BY <1>11, <1>12, <2>2 DEF Models
    <3>2. kids \in [Ids -> SUBSET Ids]
      BY <1>8, <2>2
    <3> HIDE DEF kids
    <3>3. /\ N0 \in Models /\ N0.live = M.live /\ N0.bytes = M.bytes /\ N0.ptr = ptr1
          /\ N0.dead = dead1 /\ N0.etw = etw1 /\ N0.alias = M.alias /\ N0.byAddr = M.byAddr
          /\ N0.loc = N.loc /\ N0.children = kids
      BY <1>11, <1>12, <3>1, <3>2 DEF Models
    <3> HIDE DEF N0
    <3>4. Totals(N0, {i})
      <4>1. \A j \in Ids : In(N, j) <=> In(N0, j)
        BY <1>11, <3>3 DEF In
      <4>2. QED
        BY <1>11, <1>15, <3>3, <4>1, SameAt
    <3>5. LiveChildren(N, i) = D
      <4>1. i \notin LiveChildren(M, i)
        BY <1>16, <2>2
      <4>2. N.children[i] = M.children[i] \ {i}
        BY <1>11, <1>13
      <4>3. QED
        BY <1>11, <2>2, <4>1, <4>2 DEF LiveChildren
    <3>6. P = MoveEach(N0, to)
      <4>1. P = MoveEach(N0, [c \in LiveChildren(N, i) |-> N.live[c].own])
        BY <1>10, <2>2 DEF OrphanChildren, N0
      <4> HIDE DEF D, P
      <4>2. QED
        BY <1>11, <3>5, <4>1
    <3>7. to \in [D -> Locs] /\ \A c \in D : In(N0, c)
      <4>1. \A c \in D : M.live[c].own \in Locs
        BY <1>2, <1>16 DEF LiveRecords
      <4> HIDE DEF D
      <4>2. QED
        BY <1>16, <3>3, <4>1 DEF In
    <3> HIDE DEF D, to, P
    <3>8. /\ Moved(N0, MoveEach(N0, to)) /\ Totals(MoveEach(N0, to), {i})
          /\ MoveEach(N0, to).live = MovedTo(N0, to, D)
      BY <1>16, <3>3, <3>4, <3>7, MoveEachMoves
    <3>9. MovedTo(N0, to, D) = MovedTo(M, to, D)
      BY <3>3 DEF MovedTo
    <3>10. Moved(N0, P) /\ Totals(P, {i}) /\ P.live = MovedTo(M, to, D)
      BY <3>6, <3>8, <3>9
    <3>11. \A j \in Ids : In(N0, j) <=> In(M, j)
      BY <3>3 DEF In
    <3>12. QED
      BY <3>3, <3>10, <3>11 DEF Moved
  <2>3. QED
    BY <2>1, <2>2
<1>18. \A j \in Ids : In(M, j) =>
         /\ P.live[j].own = M.live[j].own
         /\ P.live[j].eff = IF j \in D THEN M.live[j].own ELSE M.live[j].eff
  <2> SUFFICES ASSUME NEW j \in Ids, In(M, j)
               PROVE  /\ P.live[j].own = M.live[j].own
                      /\ P.live[j].eff = IF j \in D THEN M.live[j].own ELSE M.live[j].eff
    OBVIOUS
  <2>1. M.live[j] \in LiveRecords
    BY <1>2
  <2> HIDE DEF P
  <2>2. CASE j \in D
    <3>1. to[j] = M.live[j].own
      BY <2>2
    <3> HIDE DEF to, D
    <3>2. P.live[j] = [M.live[j] EXCEPT !.eff = to[j]]
      BY <1>17, <2>2 DEF MovedTo
    <3>3. QED
      BY <2>1, <2>2, <3>1, <3>2 DEF LiveRecords
  <2>3. CASE j \notin D
    <3> HIDE DEF to, D
    <3>1. P.live[j] = M.live[j]
      BY <1>17, <2>3 DEF MovedTo
    <3>2. QED
      BY <2>3, <3>1
  <2>4. QED
    BY <2>2, <2>3
<1>19. \A j \in Ids : kids[j] \subseteq M.children[j] \ {i} /\ (j # i => kids[j] = M.children[j] \ {i})
  BY <1>8, <1>13
<1> HIDE DEF D, to, kids
<1> DEFINE R == Destroy(M, i, ts)
<1>20. /\ R.live = [P.live EXCEPT ![i] = NoObj] /\ R.bytes = Minus(M.bytes, i)
       /\ R.loc = P.loc /\ R.ptr = ptr1 /\ R.dead = dead1 /\ R.children = kids
       /\ R.etw = etw1 /\ R.alias = M.alias /\ R.byAddr = M.byAddr
       /\ R = [P EXCEPT !.bytes = Minus(M.bytes, i), !.live = [P.live EXCEPT ![i] = NoObj]]
  <2>1. R = [P EXCEPT !.bytes = Minus(@, Size(i)), !.live[i] = NoObj]
    BY DEF Destroy
  <2> HIDE DEF P, R
  <2>2. QED
    BY <1>17, <2>1 DEF Models, Size
<1>21. P.live \in [Ids -> {NoObj} \union LiveRecords]
  BY <1>17, Fields
<1> HIDE DEF P, R
<1>22. R \in Models
  <2>1. Minus(M.bytes, i) \in Nat
    BY <1>2, <1>3 DEF Minus
  <2>2. [P.live EXCEPT ![i] = NoObj] \in [Ids -> {NoObj} \union LiveRecords]
    BY <1>21
  <2>3. QED
    BY <1>17, <1>20, <2>1, <2>2 DEF Models
<1>23. /\ R.live[i] = NoObj
       /\ \A j \in Ids : j # i => R.live[j] = P.live[j]
  BY <1>20, <1>21
<1>24. \A j \in Ids : In(R, j) <=> In(M, j) /\ j # i
  BY <1>17, <1>23 DEF In
<1>25. \A a \in Libs : KnownIn(R, a) <=> KnownIn(M, a)
  BY <1>14, <1>20 DEF KnownIn
<1>26. Bindings(R)
  <2>1. \A j \in Ids : In(R, j) /\ R.live[j].key # 0 =>
          KnownIn(R, R.live[j].key) /\ R.etw[R.live[j].key].bound = j
    <3> SUFFICES ASSUME NEW j \in Ids, In(R, j), R.live[j].key # 0
                 PROVE  KnownIn(R, R.live[j].key) /\ R.etw[R.live[j].key].bound = j
      OBVIOUS
    <3> DEFINE a == M.live[j].key
    <3>1. In(M, j) /\ j # i /\ R.live[j].key = a
      BY <1>17, <1>23, <1>24
    <3>2. a \in Libs
      BY <1>2, <3>1 DEF LiveRecords
    <3>3. KnownIn(M, a) /\ M.etw[a].bound = j
      BY <1>1, <3>1 DEF Bindings
    <3>4. a # k
      BY <1>4, <3>1, <3>2, <3>3, Numbers
    <3> HIDE DEF a, k
    <3>5. QED
      BY <1>14, <1>20, <1>25, <3>1, <3>2, <3>3, <3>4
  <2>2. \A a \in Libs : KnownIn(R, a) /\ R.etw[a].bound # 0 =>
          /\ ~R.etw[a].orphan
          /\ In(R, R.etw[a].bound) /\ R.live[R.etw[a].bound].key = a
    <3> SUFFICES ASSUME NEW a \in Libs, KnownIn(R, a), R.etw[a].bound # 0
                 PROVE  /\ ~R.etw[a].orphan
                        /\ In(R, R.etw[a].bound) /\ R.live[R.etw[a].bound].key = a
      OBVIOUS
    <3>1. KnownIn(M, a) /\ a # k /\ R.etw[a] = M.etw[a]
      BY <1>14, <1>20, <1>25
    <3>2. M.etw[a].bound \in Ids
      BY <1>1, <3>1, Fields DEF EtwRecords
    <3>3. /\ ~M.etw[a].orphan
          /\ In(M, M.etw[a].bound) /\ M.live[M.etw[a].bound].key = a
      BY <1>1, <3>1 DEF Bindings
    <3>4. M.etw[a].bound # i
      BY <3>1, <3>3
    <3>5. QED
      BY <1>17, <1>23, <1>24, <3>1, <3>2, <3>3, <3>4
  <2>3. QED
    BY <2>1, <2>2 DEF Bindings
<1>27. Pointers(R)
  <2> SUFFICES ASSUME NEW q \in plan.addrs, R.ptr[q] # 0
               PROVE  In(R, R.ptr[q]) /\ obj[R.ptr[q]].addr = q
    BY DEF Pointers
  <2>1. R.ptr[q] = M.ptr[q] /\ M.ptr[q] # i /\ M.ptr[q] \in Ids
    BY <1>2, <1>13, <1>20
  <2>2. In(M, M.ptr[q]) /\ obj[M.ptr[q]].addr = q
    BY <1>1, <2>1 DEF Indexes, Pointers
  <2>3. QED
    BY <1>24, <2>1, <2>2
<1>28. Aliases(R)
  <2>1. \A a \in Libs : M.alias[a] \in {0} \union Libs
    BY <1>2
  <2>2. Aliases(M)
    BY <1>1 DEF Indexes
  <2>3. \A a \in Libs : KnownIn(M, a) /\ M.etw[a].bound = 0 => R.etw[a].bound = 0
    BY <1>14, <1>20
  <2>4. \A a \in Libs : R.etw[a].aliases = M.etw[a].aliases
                        /\ R.etw[a].address = M.etw[a].address
    BY <1>14, <1>20
  <2>5. QED
    BY <1>20, <1>25, <2>1, <2>2, <2>3, <2>4 DEF Aliases
<1>29. Addresses(R)
  <2>1. \A q \in plan.addrs : M.byAddr[q] \in {0} \union Libs
    BY <1>2
  <2>2. Addresses(M)
    BY <1>1 DEF Indexes
  <2>3. \A a \in Libs : R.etw[a].address = M.etw[a].address
    BY <1>14, <1>20
  <2>4. QED
    BY <1>20, <1>25, <2>1, <2>2, <2>3 DEF Addresses
<1>30. Children(R)
  <2>1. Children(M)
    BY <1>1 DEF Indexes
  <2>2. QED
    BY <1>19, <1>20, <1>24, <2>1 DEF Children
<1>31. Capped(R) /\ Real(R)
  BY <1>1, <1>7, <1>20, <1>24 DEF Capped, Real
<1>32. Follows(R)
  <2> SUFFICES ASSUME NEW j \in Ids, In(R, j)
               PROVE  R.live[j].eff = EffLoc(R, j)
    BY DEF Follows
  <2>1. In(M, j) /\ j # i /\ R.live[j] = P.live[j]
    BY <1>23, <1>24
  <2>2. \A c \in Ids : In(R, c) => R.live[c].own = M.live[c].own
    BY <1>18, <1>23, <1>24
  <2>3. CASE j \in D
    <3>1. R.live[j].eff = M.live[j].own
      BY <1>18, <2>1, <2>3
    <3>2. obj[j].parent = i
      BY <1>16, <2>3 DEF ChildOf
    <3>3. EffLoc(R, j) = R.live[j].own
      BY <1>23, <3>2 DEF EffLoc
    <3>4. QED
      BY <2>2, <3>1, <3>3
  <2>4. CASE j \notin D
    <3>1. R.live[j].eff = M.live[j].eff
      BY <1>18, <2>1, <2>4
    <3>2. Placed(j) => obj[j].parent # i
      BY <1>1, <1>16, <2>1, <2>4 DEF ChildOf, Real
    <3>3. EffLoc(R, j) = EffLoc(M, j)
      BY <1>24, <2>1, <2>2, <3>2, ParentType DEF EffLoc, In
    <3>4. QED
      BY <1>1, <2>1, <3>1, <3>3 DEF Follows
  <2>5. QED
    BY <2>3, <2>4
<1>33. Totals(R, {})
  <2>1. R.bytes = SumSet({j \in Ids : In(R, j)})
    <3> DEFINE A == {j \in Ids : In(M, j)}
    <3>1. {j \in Ids : In(R, j)} = A \ {i} /\ i \in A
      BY <1>24
    <3>2. IsFiniteSet(A) /\ A \subseteq Nat /\ IsFiniteSet(A \ {i}) /\ A \ {i} \subseteq Nat
      BY Numbers, FS_Subset
    <3> HIDE DEF A
    <3>3. SumSet(A) = SumSet(A \ {i}) + i
      BY <3>1, <3>2, SumOfNats
    <3>4. SumSet(A \ {i}) \in Nat
      BY <3>2, SumOfNats
    <3>5. M.bytes = SumSet(A)
      BY <1>1 DEF Totals, A
    <3>6. QED
      BY <1>3, <1>20, <3>1, <3>3, <3>4, <3>5 DEF Minus
  <2>2. \A w \in Locs : At(R, w, {}) = At(P, w, {i})
    BY <1>17, <1>23, <1>24 DEF At
  <2>3. QED
    BY <1>17, <1>20, <2>1, <2>2 DEF Totals
<1>34. NoNew(M, R)
  BY <1>24 DEF NoNew
<1>35. Departs(M, R, i, ts)
  <2>1. \A q \in plan.addrs : R.ptr[q] = IF M.ptr[q] = i THEN 0 ELSE M.ptr[q]
    BY <1>13, <1>20
  <2>2. R.dead = [M.dead EXCEPT ![p] = Remember(@, tomb)]
    BY <1>20, <1>d
  <2>3. \A j \in Ids : In(R, j) =>
       /\ R.live[j].prev = M.live[j].prev /\ R.live[j].key = M.live[j].key
       /\ R.live[j].own = M.live[j].own
    BY <1>17, <1>18, <1>23, <1>24
  <2>4. \A a \in Libs : KnownIn(M, a) => /\ SameFacts(M.etw[a], R.etw[a])
                                         /\ M.etw[a].bound # i => R.etw[a] = M.etw[a]
    <3>1. \A a \in Libs : KnownIn(M, a) /\ M.etw[a].bound # i => a # k
      BY <1>4, Numbers
    <3>2. QED
      BY <1>14, <1>20, <3>1
  <2>5. QED
    BY <1>20, <1>24, <1>25, <2>1, <2>2, <2>3, <2>4 DEF Departs
<1>36. QED
  BY <1>34, <1>35, <1>22, <1>26, <1>27, <1>28, <1>29, <1>30, <1>31, <1>32, <1>33 DEF Agree, Indexes, R

-----------------------------------------------------------------------------
(* EtwTick.                                                                *)

LEMMA RecentShortens ==
  ASSUME TypesOK, NEW s \in Seq(Tombs)
  PROVE  Recent(s) \in Seq(Tombs) /\ Len(Recent(s)) <= Len(s)
<1> DEFINE keep == {n \in DOMAIN s : s[n].destroyed + History >= now}
<1>1. CASE keep = {}
  BY <1>1 DEF Recent
<1>2. CASE keep # {}
  <2>1. keep \in SUBSET Nat /\ keep \subseteq 1 .. Len(s) /\ Len(s) \in Nat
    OBVIOUS
  <2> DEFINE a == Min(keep)
  <2>2. Recent(s) = SubSeq(s, a, Len(s))
    BY <1>2 DEF Recent
  <2> HIDE DEF keep
  <2>3. PICK n \in keep : \A k \in keep : n <= k
    BY <1>2, <2>1, LeastNat
  <2>4. a \in keep
    BY <2>3 DEF Min
  <2>5. a \in 1 .. Len(s)
    BY <2>1, <2>4
  <2> HIDE DEF a
  <2>6. QED
    BY <2>1, <2>2, <2>5
<1>3. QED
  BY <1>1, <1>2

LEMMA ForgetDeadAgrees ==
  ASSUME TypesOK, NEW M, Agree(M)
  PROVE  LET R == [M EXCEPT !.dead = [p \in plan.addrs |-> Recent(M.dead[p])]]
         IN  Agree(R) /\ NoNew(M, R)
<1> DEFINE dead2 == [p \in plan.addrs |-> Recent(M.dead[p])]
           N == [M EXCEPT !.dead = dead2]
<1>1. M \in Models /\ Bindings(M) /\ Indexes(M) /\ Capped(M)
  BY DEF Agree
<1>2. \A p \in plan.addrs : Recent(M.dead[p]) \in Seq(Tombs)
                            /\ Len(Recent(M.dead[p])) <= DeadCap
  <2> SUFFICES ASSUME NEW p \in plan.addrs
               PROVE  Recent(M.dead[p]) \in Seq(Tombs) /\ Len(Recent(M.dead[p])) <= DeadCap
    OBVIOUS
  <2> DEFINE s == M.dead[p]
  <2>1. s \in Seq(Tombs) /\ Len(s) <= DeadCap
    BY <1>1, Fields DEF Capped
  <2> HIDE DEF s
  <2>2. Recent(s) \in Seq(Tombs) /\ Len(Recent(s)) <= Len(s)
    BY <2>1, RecentShortens
  <2>3. Len(Recent(s)) <= DeadCap
    BY <2>1, <2>2, JoinConstants
  <2>4. QED
    BY <2>2, <2>3 DEF s
<1>3. dead2 \in [plan.addrs -> Seq(Tombs)]
  BY <1>2
<1>4. \A p \in plan.addrs : dead2[p] = Recent(M.dead[p])
  OBVIOUS
<1> HIDE DEF dead2
<1>5. N \in Models
  BY <1>1, <1>3 DEF Models
<1>6. /\ N.live = M.live /\ N.bytes = M.bytes /\ N.loc = M.loc
      /\ N.ptr = M.ptr /\ N.children = M.children /\ N.dead = dead2
      /\ N.etw = M.etw /\ N.alias = M.alias /\ N.byAddr = M.byAddr
  BY <1>1 DEF Models
<1> HIDE DEF N
<1>7. Real(N) /\ Pointers(N) /\ Children(N) /\ Follows(N) /\ Totals(N, {})
  BY <1>6, SameObjectsAgree DEF SameObjects
<1>8. Bindings(N) /\ Aliases(N) /\ Addresses(N)
  BY <1>1, <1>6 DEF Bindings, Aliases, Addresses, Indexes, In, KnownIn
<1>9. Capped(N)
  BY <1>2, <1>4, <1>6 DEF Capped
<1>10. NoNew(M, N)
  BY <1>6 DEF NoNew, In
<1>11. QED
  BY <1>5, <1>7, <1>8, <1>9, <1>10 DEF Agree, Indexes, N, dead2

-----------------------------------------------------------------------------
(* The inductive invariant.                                                *)

Inv == TypesOK /\ Game /\ Feed /\ Exit /\ Agree(m)

\* A handler leaves the game alone: what it makes of the Model agrees after it.
LEMMA AgreeNext ==
  ASSUME NEW R, Agree(R), m' = R, UNCHANGED game
  PROVE  Agree(m)'
<1>1. plan' = plan /\ obj' = obj /\ now' = now
  BY DEF game
<1>2. /\ Ids' = Ids /\ Libs' = Libs /\ Stamps' = Stamps
      /\ LiveRecords' = LiveRecords /\ EtwRecords' = EtwRecords /\ Tombs' = Tombs
  BY <1>1 DEF Ids, Libs, Stamps, LiveRecords, EtwRecords, Tombs
<1>3. Models' = Models
  BY <1>1, <1>2 DEF Models
<1>4. (m \in Models)' /\ Capped(m)' /\ Real(m)'
  BY <1>1, <1>2, <1>3 DEF Agree, Capped, Real, In, Begun
<1>5. Bindings(m)'
  BY <1>1, <1>2 DEF Agree, Bindings, In, KnownIn
<1>6. Indexes(m)'
  BY <1>1, <1>2 DEF Agree, Indexes, Pointers, Aliases, Addresses, Children, In, KnownIn,
     ChildOf, Begun, Placed
<1>7. Follows(m)'
  BY <1>1, <1>2 DEF Agree, Follows, EffLoc, Placed, In
<1>8. Totals(m, {})'
  BY <1>1, <1>2 DEF Agree, Totals, At, In, HasMemory
<1>9. QED
  BY <1>4, <1>5, <1>6, <1>7, <1>8 DEF Agree

LEMMA TypesGrow ==
  ASSUME TypesOK, plan' = plan, now' \in Nat, now <= now'
  PROVE  /\ Ids' = Ids /\ Libs' = Libs /\ Stamps \subseteq Stamps' /\ now' \in Stamps'
         /\ Objects \subseteq Objects' /\ Models \subseteq Models'
         /\ Seq(Messages) \subseteq Seq(Messages') /\ Seq(Records) \subseteq Seq(Records')
         /\ LiveRecords \subseteq LiveRecords' /\ EtwRecords \subseteq EtwRecords'
<1>1. Ids' = Ids /\ Libs' = Libs
  BY DEF Ids, Libs
<1>2. Stamps \subseteq Stamps' /\ now' \in Stamps'
  BY DEF TypesOK, Stamps
<1>3. Objects \subseteq Objects' /\ Messages \subseteq Messages' /\ Records \subseteq Records'
  BY <1>1, <1>2 DEF Objects, Messages, Records
<1>4. LiveRecords \subseteq LiveRecords' /\ EtwRecords \subseteq EtwRecords' /\ Tombs \subseteq Tombs'
  BY <1>1, <1>2 DEF LiveRecords, EtwRecords, Tombs
<1>5. Seq(Tombs) \subseteq Seq(Tombs')
  BY <1>4
<1>6. Models \subseteq Models'
  <2> SUFFICES ASSUME NEW M \in Models
               PROVE  M \in Models'
    OBVIOUS
  <2>1. /\ M.live \in [Ids -> {NoObj} \union LiveRecords']
        /\ M.dead \in [plan.addrs -> Seq(Tombs')]
        /\ M.etw \in [Libs -> {NoObj} \union EtwRecords']
    BY <1>4, <1>5, Fields
  <2> HIDE DEF LiveRecords, EtwRecords, Tombs
  <2>2. QED
    BY <1>1, <2>1 DEF Models
<1>7. QED
  BY <1>1, <1>2, <1>3, <1>4, <1>6

\* What a step of the game keeps of the objects that have begun.
Kept ==
  /\ plan' = plan /\ now' \in Nat /\ now <= now'
  /\ \A i \in Ids : Begun(i) =>
       /\ obj'[i].addr = obj[i].addr /\ obj'[i].parent = obj[i].parent
       /\ obj'[i].made = obj[i].made /\ obj'[i].phase # "new"
       /\ obj[i].phase # "made" => obj'[i].phase \in {"sent", "dying", "gone"}

LEMMA AgreeKept ==
  ASSUME TypesOK, Agree(m), Kept, m' = m
  PROVE  Agree(m)'
<1>1. m \in Models /\ Capped(m) /\ Real(m) /\ Bindings(m) /\ Indexes(m) /\ Follows(m)
      /\ Totals(m, {})
  BY DEF Agree
<1>2. Ids' = Ids /\ Libs' = Libs /\ Models \subseteq Models' /\ plan' = plan
  BY TypesGrow DEF Kept
<1>3. \A i \in Ids : In(m, i) => /\ Begun(i) /\ Begun(i)'
                                 /\ obj'[i].addr = obj[i].addr
                                 /\ obj'[i].parent = obj[i].parent
  BY <1>1 DEF Real, Kept, Begun
<1>4. (m \in Models)' /\ Capped(m)'
  BY <1>1, <1>2 DEF Capped
<1>5. Real(m)'
  <2>1. \A i \in Ids : (m'.live[i] # NoObj) => Begun(i)'
    BY <1>3 DEF In
  <2>2. QED
    BY <1>2, <2>1 DEF Real, In
<1>6. Bindings(m)'
  BY <1>1, <1>2 DEF Bindings, In, KnownIn
<1>7. Pointers(m)'
  <2>1. \A p \in plan.addrs : m.ptr[p] # 0 =>
          m.ptr[p] \in Ids /\ In(m, m.ptr[p]) /\ obj[m.ptr[p]].addr = p
    BY <1>1, Fields DEF Indexes, Pointers
  <2>2. QED
    BY <1>2, <1>3, <2>1 DEF Pointers, In
<1>8. Aliases(m)' /\ Addresses(m)'
  BY <1>1, <1>2 DEF Indexes, Aliases, Addresses, KnownIn
<1>9. Children(m)'
  <2>1. \A c \in Ids : In(m, c) => \A h \in Ids : ChildOf(c, h)' <=> ChildOf(c, h)
    BY <1>2, <1>3 DEF ChildOf, Placed, Begun
  <2>2. Children(m)
    BY <1>1 DEF Indexes
  <2> HIDE DEF ChildOf
  <2>3. QED
    BY <1>2, <2>1, <2>2 DEF Children, In
<1>10. Follows(m)'
  <2>1. \A i \in Ids : In(m, i) => EffLoc(m, i)' = EffLoc(m, i)
    BY <1>2, <1>3 DEF EffLoc, Placed
  <2>2. QED
    BY <1>1, <1>2, <2>1 DEF Follows, In
<1>11. Totals(m, {})'
  BY <1>1, <1>2 DEF Totals, At, In, HasMemory
<1>12. QED
  BY <1>4, <1>5, <1>6, <1>7, <1>8, <1>9, <1>10, <1>11 DEF Agree, Indexes

-----------------------------------------------------------------------------
(* The steps of the game.                                                  *)

Later == /\ plan' = plan /\ behind' = behind /\ now' \in Nat /\ now <= now'
         /\ UNCHANGED <<m, poll>>

LEMMA StepTypes ==
  ASSUME TypesOK, Later, nlib' \in Nat, exitAt' \in Stamps', obj' \in [Ids -> Objects'],
         left' \in Plan, pipeq' \in Seq(Messages'), etwq' \in Seq(Records')
  PROVE  TypesOK'
<1>1. /\ Ids' = Ids /\ Stamps \subseteq Stamps' /\ Models \subseteq Models'
  BY TypesGrow DEF Later
<1>2. /\ plan' \in Plans /\ behind' \in BOOLEAN /\ exiting' \in BOOLEAN
      /\ aliveTs' \in Stamps' /\ m' \in Models'
  BY <1>1 DEF TypesOK, Later, poll
<1>3. QED
  BY <1>1, <1>2 DEF TypesOK, Later

SentPhases == {"sent", "dying", "gone"}

\* An object that has begun changes, but not where it is.
Same ==
  /\ Kept
  /\ \A i \in Ids : ~Begun(i) => obj'[i] = obj[i]

LEMMA OneObject ==
  ASSUME TypesOK, NEW i \in Ids, NEW o, obj' = [obj EXCEPT ![i] = o], o \in Objects',
         o.addr = obj[i].addr, o.parent = obj[i].parent, o.made = obj[i].made,
         \/ o.phase = obj[i].phase
         \/ o.phase \in SentPhases,
         Begun(i), plan' = plan, now' \in Nat, now <= now'
  PROVE  Same /\ obj' \in [Ids -> Objects']
<1>1. obj \in [Ids -> Objects] /\ Objects \subseteq Objects'
  BY TypesGrow DEF TypesOK
<1>2. obj'[i] = o /\ \A j \in Ids : j # i => obj'[j] = obj[j]
  BY <1>1
<1>3. \A j \in Ids : obj[j].phase \in {"new", "made", "sent", "dying", "gone"}
  BY <1>1 DEF Objects
<1>4. obj' \in [Ids -> Objects']
  BY <1>1
<1>5. QED
  BY <1>2, <1>3, <1>4 DEF Same, Kept, Begun, SentPhases

LEMMA SameShape ==
  ASSUME TypesOK, Same
  PROVE  /\ Ids' = Ids
         /\ \A i \in Ids : Begun(i)' <=> Begun(i)
         /\ \A i \in Ids : /\ obj'[i].addr = obj[i].addr
                           /\ obj'[i].parent = obj[i].parent
                           /\ obj'[i].made = obj[i].made
                           /\ obj[i].phase \in SentPhases => obj'[i].phase \in SentPhases
                           /\ obj'[i].phase \in {"new", "made"} => obj[i].phase \in {"new", "made"}
         /\ \A i, h \in Ids : ChildOf(i, h)' <=> ChildOf(i, h)
<1>1. \A i \in Ids : obj[i].phase \in {"new", "made", "sent", "dying", "gone"}
  BY DEF TypesOK, Objects
<1>2. Ids' = Ids
  BY DEF Same, Kept, Ids
<1>3. \A i \in Ids : Begun(i)' <=> Begun(i)
  BY <1>1 DEF Same, Kept, Begun
<1>4. \A i \in Ids : /\ obj'[i].addr = obj[i].addr
                     /\ obj'[i].parent = obj[i].parent
                     /\ obj'[i].made = obj[i].made
  BY DEF Same, Kept
<1>5. \A i \in Ids : obj[i].phase \in SentPhases => obj'[i].phase \in SentPhases
  BY DEF Same, Kept, Begun, SentPhases
<1>6. \A i \in Ids : obj'[i].phase \in {"new", "made"} => obj[i].phase \in {"new", "made"}
  BY <1>1, <1>5 DEF SentPhases
<1>7. \A i, h \in Ids : ChildOf(i, h)' <=> ChildOf(i, h)
  BY <1>3, <1>4 DEF ChildOf, Placed, Same, Kept
<1>8. QED
  BY <1>2, <1>3, <1>4, <1>5, <1>6, <1>7

LEMMA SameGame ==
  ASSUME TypesOK, Game, Same, nlib' - nlib = left.reports - left'.reports,
         nlib' \in Nat, left' \in Plan,
         \A n \in DOMAIN etwq' : etwq'[n].id \in Ids /\ Begun(etwq'[n].id)
  PROVE  Game'
<1>1. /\ Ids' = Ids
      /\ \A i \in Ids : Begun(i)' <=> Begun(i)
      /\ \A i \in Ids : /\ obj'[i].addr = obj[i].addr
                        /\ obj'[i].parent = obj[i].parent
                        /\ obj'[i].made = obj[i].made
                        /\ obj[i].phase \in SentPhases => obj'[i].phase \in SentPhases
  BY SameShape
<1>2. plan' = plan
  BY DEF Same, Kept
<1>3. {i \in Ids : Begun(i)}' = {i \in Ids : Begun(i)}
  BY <1>1
<1>4. nlib' = Cardinality({i \in Ids : Begun(i)}') + plan'.reports - left'.reports
  <2> DEFINE c == Cardinality({i \in Ids : Begun(i)})
  <2>1. c \in Nat
    BY Numbers, FS_Subset, FS_CardinalityType
  <2>2. nlib = c + plan.reports - left.reports
    BY DEF Game
  <2>3. nlib \in Nat /\ left.reports \in Nat /\ left'.reports \in Nat /\ plan.reports \in Nat
    BY Numbers DEF TypesOK, Plan
  <2> HIDE DEF c
  <2>4. nlib' = c + plan.reports - left'.reports
    BY <2>1, <2>2, <2>3
  <2>5. QED
    BY <1>2, <1>3, <2>4 DEF c
<1>5. \A i \in Ids' :
       /\ obj'[i].made # 0 <=> Begun(i)'
       /\ Begun(i)' => obj'[i].addr \in plan'.addrs
       /\ ~Placed(i)' => obj'[i].parent = 0
       /\ Placed(i)' /\ Begun(i)' =>
            LET h == obj'[i].parent
            IN  h \in Ids' /\ plan'.kinds[h] = "heap"
                /\ obj'[h].phase \in {"sent", "dying", "gone"}
  BY <1>1, <1>2 DEF Game, Placed, SentPhases
<1>6. \A n \in DOMAIN etwq' : obj'[etwq'[n].id].phase # "new"
  BY <1>1 DEF Begun
<1>7. QED
  BY <1>4, <1>5, <1>6 DEF Game, Begun

LEMMA SameFeed ==
  ASSUME TypesOK, Feed, Same, m' = m,
         \A n \in DOMAIN pipeq', i \in Ids :
           Creates(n, i)' => n \in DOMAIN pipeq /\ Creates(n, i)
  PROVE  Feed'
<1>1. /\ Ids' = Ids
      /\ \A i \in Ids : /\ obj[i].phase \in SentPhases => obj'[i].phase \in SentPhases
                        /\ obj'[i].phase \in {"new", "made"} => obj[i].phase \in {"new", "made"}
      /\ \A i, h \in Ids : ChildOf(i, h)' <=> ChildOf(i, h)
  BY SameShape
<1> HIDE DEF ChildOf, Creates
<1>2. \A i \in Ids' : obj'[i].phase \in {"new", "made"} => m'.live[i] = NoObj
  BY <1>1 DEF Feed
<1>3. \A n \in DOMAIN pipeq', i \in Ids' : Creates(n, i)' =>
       /\ obj'[i].phase \in {"sent", "dying", "gone"}
       /\ m'.live[i] = NoObj
       /\ \A k \in DOMAIN pipeq' : Creates(k, i)' => k = n
       /\ \A c \in Ids' : ChildOf(c, i)' =>
            m'.live[c] = NoObj /\ \A k \in DOMAIN pipeq' : Creates(k, c)' => n < k
  BY <1>1 DEF Feed, SentPhases
<1>4. QED
  BY <1>2, <1>3 DEF Feed

Ops == {"create", "address", "destroy", "group"}
RecordsAbout(i, lib, g) == [op : Ops, id : {i}, lib : {lib}, group : {g}, ts : {now + 1}]

LEMMA RecordedType ==
  ASSUME NEW ops \in Seq(Ops), NEW i, NEW lib, NEW g
  PROVE  /\ Recorded(ops, i, lib, g) \in
              Seq(RecordsAbout(i, lib, g))
         /\ Len(Recorded(ops, i, lib, g)) = Len(ops)
         /\ \A n \in DOMAIN ops : Recorded(ops, i, lib, g)[n].id = i
<1> DEFINE R == RecordsAbout(i, lib, g)
           F(n) == [op |-> ops[n], id |-> i, lib |-> lib, group |-> g, ts |-> now + 1]
           r == Recorded(ops, i, lib, g)
<1>1. DOMAIN ops = 1 .. Len(ops) /\ Len(ops) \in Nat
  OBVIOUS
<1>2. r = [n \in 1 .. Len(ops) |-> F(n)]
  BY <1>1 DEF Recorded
<1>3. \A n \in 1 .. Len(ops) : F(n) \in R /\ F(n).id = i
  BY DEF RecordsAbout
<1> HIDE DEF R, F, r
<1>4. r \in Seq(R) /\ Len(r) = Len(ops) /\ \A n \in 1 .. Len(ops) : r[n].id = i
  BY <1>1, <1>2, <1>3
<1>5. QED
  BY <1>1, <1>4 DEF R, r

\* Records about i are logged.
LEMMA LogTypes ==
  ASSUME TypesOK, plan' = plan, now' = now + 1, Game,
         NEW i \in Ids, NEW lib \in Libs, NEW g \in Locs,
         NEW ops \in Seq(Ops),
         etwq' = etwq \o Recorded(ops, i, lib, g)
  PROVE  /\ etwq' \in Seq(Records')
         /\ \A n \in DOMAIN etwq' :
              etwq'[n].id = i \/ (n \in DOMAIN etwq /\ etwq'[n] = etwq[n])
<1> DEFINE r == Recorded(ops, i, lib, g)
           S == RecordsAbout(i, lib, g)
<1>1. r \in Seq(S) /\ \A n \in DOMAIN r : r[n].id = i
  <2>1. DOMAIN r = DOMAIN ops
    BY DEF Recorded
  <2>2. r \in Seq(S) /\ \A n \in DOMAIN ops : r[n].id = i
    BY RecordedType
  <2>3. QED
    BY <2>1, <2>2
<1>2. Seq(Records) \subseteq Seq(Records') /\ Ids' = Ids /\ Libs' = Libs
      /\ now' \in Stamps'
  BY TypesGrow DEF TypesOK
<1>3. S \subseteq Records'
  BY <1>2 DEF Records, RecordsAbout, Ops
<1> HIDE DEF r, S
<1>4. r \in Seq(Records')
  BY <1>1, <1>3
<1>5. etwq \in Seq(Records')
  BY <1>2 DEF TypesOK
<1>6. etwq' = etwq \o r
  BY DEF r
<1>7. etwq' \in Seq(Records')
  BY <1>4, <1>5, <1>6
<1>8. \A n \in DOMAIN etwq' : etwq'[n].id = i \/ (n \in DOMAIN etwq /\ etwq'[n] = etwq[n])
  <2> SUFFICES ASSUME NEW n \in DOMAIN etwq'
               PROVE  etwq'[n].id = i \/ (n \in DOMAIN etwq /\ etwq'[n] = etwq[n])
    OBVIOUS
  <2>1. CASE n <= Len(etwq)
    BY <1>4, <1>5, <1>6, <2>1
  <2>2. CASE n > Len(etwq)
    <3>1. n - Len(etwq) \in DOMAIN r /\ etwq'[n] = r[n - Len(etwq)]
      BY <1>4, <1>5, <1>6, <2>2
    <3>2. QED
      BY <1>1, <3>1
  <2>3. QED
    BY <1>5, <1>7, <2>1, <2>2
<1>9. QED
  BY <1>7, <1>8

LEMMA KeptStep ==
  ASSUME Inv, Kept, Game', Feed', behind' = behind, m' = m, UNCHANGED poll,
         obj' \in [Ids -> Objects'], nlib' \in Nat, left' \in Plan,
         pipeq' \in Seq(Messages'), etwq' \in Seq(Records'),
         exitAt' = exitAt \/ (Running /\ exitAt' = now' /\ now' # 0)
  PROVE  Inv'
<1>1. TypesOK /\ Exit /\ Agree(m)
  BY DEF Inv
<1>2. plan' = plan /\ now' \in Nat /\ now <= now' /\ Stamps \subseteq Stamps' /\ now' \in Stamps'
      /\ Ids' = Ids
  BY <1>1, TypesGrow DEF Kept
<1>3. TypesOK'
  <2>1. exitAt' \in Stamps'
    BY <1>1, <1>2 DEF TypesOK
  <2>2. Later
    BY <1>2 DEF Later
  <2>3. QED
    BY <1>1, <1>2, <2>1, <2>2, StepTypes
<1>4. Exit'
  <2>1. aliveTs \in Nat /\ exitAt \in Nat /\ now \in Nat /\ aliveTs <= now
    BY <1>1, Numbers DEF TypesOK, Stamps
  <2>2. QED
    BY <1>1, <1>2, <2>1 DEF Exit, Running, poll
<1>5. Agree(m)'
  BY <1>1, AgreeKept
<1>6. QED
  BY <1>3, <1>4, <1>5 DEF Inv

LEMMA GameStep ==
  ASSUME Inv, Same, behind' = behind, m' = m, UNCHANGED poll,
         obj' \in [Ids -> Objects'], nlib' \in Nat, left' \in Plan,
         pipeq' \in Seq(Messages'), etwq' \in Seq(Records'),
         nlib' - nlib = left.reports - left'.reports,
         \A n \in DOMAIN etwq' : etwq'[n].id \in Ids /\ Begun(etwq'[n].id),
         \A n \in DOMAIN pipeq', i \in Ids :
           Creates(n, i)' => n \in DOMAIN pipeq /\ Creates(n, i),
         exitAt' = exitAt \/ (Running /\ exitAt' = now' /\ now' # 0)
  PROVE  Inv'
<1>1. TypesOK /\ Game /\ Feed /\ Kept
  BY DEF Inv, Same
<1>2. Game'
  BY <1>1, SameGame
<1>3. Feed'
  BY <1>1, SameFeed
<1>4. QED
  BY <1>1, <1>2, <1>3, KeptStep

\* A step about one object of the game, and what it logs.
Logs(i) ==
  \/ etwq' = etwq
  \/ \E lib \in Libs, g \in Locs, ops \in Seq(Ops) : etwq' = etwq \o Recorded(ops, i, lib, g)

LEMMA LogsTypes ==
  ASSUME TypesOK, Game, NEW i \in Ids, Begun(i), Logs(i), plan' = plan, now' = now + 1
  PROVE  /\ etwq' \in Seq(Records')
         /\ \A n \in DOMAIN etwq' : etwq'[n].id \in Ids /\ Begun(etwq'[n].id)
<1>1. etwq \in Seq(Records) /\ now \in Nat
  BY DEF TypesOK
<1>2. \A n \in DOMAIN etwq : etwq[n].id \in Ids /\ Begun(etwq[n].id)
  <2>1. \A n \in DOMAIN etwq : etwq[n] \in Records
    BY <1>1
  <2>2. QED
    BY <2>1 DEF Game, Records
<1>3. CASE etwq' = etwq
  <2>1. Seq(Records) \subseteq Seq(Records')
    BY <1>1, TypesGrow
  <2>2. QED
    BY <1>1, <1>2, <1>3, <2>1
<1>4. CASE \E lib \in Libs, g \in Locs, ops \in Seq(Ops) :
             etwq' = etwq \o Recorded(ops, i, lib, g)
  <2>1. PICK lib \in Libs, g \in Locs, ops \in Seq(Ops) :
               etwq' = etwq \o Recorded(ops, i, lib, g)
    BY <1>4
  <2>2. /\ etwq' \in Seq(Records')
        /\ \A n \in DOMAIN etwq' :
             etwq'[n].id = i \/ (n \in DOMAIN etwq /\ etwq'[n] = etwq[n])
    BY <2>1, LogTypes
  <2>3. QED
    BY <1>2, <2>2
<1>5. QED
  BY <1>3, <1>4 DEF Logs

LEMMA ObjectStep ==
  ASSUME Inv, NEW i \in Ids, Begun(i), NEW o, obj' = [obj EXCEPT ![i] = o], o \in Objects',
         o.addr = obj[i].addr, o.parent = obj[i].parent, o.made = obj[i].made,
         o.phase = obj[i].phase \/ o.phase \in SentPhases,
         Tick, Logs(i), nlib' \in Nat, left' \in Plan,
         nlib' - nlib = left.reports - left'.reports,
         UNCHANGED <<plan, behind, exitAt, pipeq, m, poll>>
  PROVE  Inv'
<1>1. TypesOK /\ Game
  BY DEF Inv
<1>2. /\ now \in Nat /\ now' = now + 1 /\ now' \in Nat /\ now <= now'
      /\ plan' = plan /\ pipeq \in Seq(Messages)
  BY <1>1 DEF TypesOK, Tick
<1>3. Same /\ obj' \in [Ids -> Objects']
  BY <1>1, <1>2, OneObject
<1>4. /\ etwq' \in Seq(Records')
      /\ \A n \in DOMAIN etwq' : etwq'[n].id \in Ids /\ Begun(etwq'[n].id)
  BY <1>1, <1>2, LogsTypes
<1>5. pipeq' \in Seq(Messages')
  BY <1>1, <1>2, TypesGrow
<1>6. \A n \in DOMAIN pipeq', j \in Ids : Creates(n, j)' => n \in DOMAIN pipeq /\ Creates(n, j)
  BY DEF Creates
<1>7. behind' = behind /\ m' = m /\ exitAt' = exitAt /\ UNCHANGED poll
  OBVIOUS
<1>8. QED
  BY <1>3, <1>4, <1>5, <1>6, <1>7, GameStep

LEMMA ObjectTypes ==
  ASSUME TypesOK, Tick, plan' = plan, NEW i \in Ids
  PROVE  /\ obj[i] \in Objects /\ obj[i] \in Objects'
         /\ now + 1 \in Stamps' /\ now + 1 # 0 /\ Libs' = Libs /\ left \in Plan /\ nlib \in Nat
<1>1. now \in Nat /\ now' = now + 1 /\ obj \in [Ids -> Objects] /\ left \in Plan /\ nlib \in Nat
  BY DEF TypesOK, Tick
<1>2. Objects \subseteq Objects' /\ now' \in Stamps' /\ Libs' = Libs
  BY <1>1, TypesGrow
<1>3. QED
  BY <1>1, <1>2

LEMMA ForgottenLogs ==
  ASSUME TypesOK, NEW i \in Ids, Forgotten(i)
  PROVE  Logs(i)
<1>1. obj[i].libs \subseteq Libs
  BY DEF TypesOK, Objects
<1>2. "Unknown" \in Locs /\ <<"destroy">> \in Seq(Ops)
  BY DEF Locs, Ops
<1>3. QED
  BY <1>1, <1>2 DEF Forgotten, Logs

LEMMA ReleaseKeeps ==
  ASSUME Inv, NEW i \in Ids, Release(i)
  PROVE  Inv'
<1> DEFINE o == [obj[i] EXCEPT !.phase = "dying", !.dropped = now + 1, !.freed = now + 1]
<1>1. TypesOK
  BY DEF Inv
<1>2. /\ obj[i].phase = "sent" /\ Tick /\ obj' = [obj EXCEPT ![i] = o] /\ Forgotten(i)
      /\ plan' = plan /\ nlib' = nlib /\ left' = left
      /\ UNCHANGED <<plan, behind, exitAt, pipeq, m, poll>>
  BY DEF Release
<1>3. /\ obj[i] \in Objects /\ obj[i] \in Objects' /\ now + 1 \in Stamps'
      /\ left \in Plan /\ nlib \in Nat
  BY <1>1, <1>2, ObjectTypes
<1>4. /\ o \in Objects' /\ o.addr = obj[i].addr /\ o.parent = obj[i].parent
      /\ o.made = obj[i].made /\ o.phase = "dying"
  BY <1>3 DEF Objects
<1>5. Logs(i)
  BY <1>1, <1>2, ForgottenLogs
<1>6. nlib' - nlib = left.reports - left'.reports /\ nlib' \in Nat /\ left' \in Plan
  BY <1>2, <1>3 DEF Plan
<1>7. Begun(i) /\ o.phase \in SentPhases
  BY <1>2, <1>4 DEF Begun, SentPhases
<1> HIDE DEF o
<1>8. QED
  BY <1>2, <1>4, <1>5, <1>6, <1>7, ObjectStep

LEMMA DropKeeps ==
  ASSUME Inv, NEW i \in Ids, Drop(i)
  PROVE  Inv'
<1> DEFINE o == [obj[i] EXCEPT !.phase = "dying", !.dropped = now + 1]
<1>1. TypesOK
  BY DEF Inv
<1>2. /\ obj[i].phase = "sent" /\ Tick /\ obj' = [obj EXCEPT ![i] = o] /\ etwq' = etwq
      /\ plan' = plan /\ nlib' = nlib /\ left' = left
      /\ UNCHANGED <<plan, behind, exitAt, pipeq, m, poll>>
  BY DEF Drop, feeds
<1>3. /\ obj[i] \in Objects /\ obj[i] \in Objects' /\ now + 1 \in Stamps'
      /\ left \in Plan /\ nlib \in Nat
  BY <1>1, <1>2, ObjectTypes
<1>4. /\ o \in Objects' /\ o.addr = obj[i].addr /\ o.parent = obj[i].parent
      /\ o.made = obj[i].made /\ o.phase = "dying"
  BY <1>3 DEF Objects
<1>5. Logs(i)
  BY <1>2 DEF Logs
<1>6. nlib' - nlib = left.reports - left'.reports /\ nlib' \in Nat /\ left' \in Plan
  BY <1>2, <1>3 DEF Plan
<1>7. Begun(i) /\ o.phase \in SentPhases
  BY <1>2, <1>4 DEF Begun, SentPhases
<1> HIDE DEF o
<1>8. QED
  BY <1>2, <1>4, <1>5, <1>6, <1>7, ObjectStep

LEMMA RuntimeFreeKeeps ==
  ASSUME Inv, NEW i \in Ids, RuntimeFree(i)
  PROVE  Inv'
<1> DEFINE o == [obj[i] EXCEPT !.freed = now + 1]
<1>1. TypesOK /\ Game
  BY DEF Inv
<1>2. /\ Alive(i) /\ Tick /\ obj' = [obj EXCEPT ![i].freed = now + 1] /\ Forgotten(i)
      /\ plan' = plan /\ nlib' = nlib /\ left' = left
      /\ UNCHANGED <<plan, behind, exitAt, pipeq, m, poll>>
  BY DEF RuntimeFree
<1>3. /\ obj[i] \in Objects /\ obj[i] \in Objects' /\ now + 1 \in Stamps'
      /\ left \in Plan /\ nlib \in Nat
  BY <1>1, <1>2, ObjectTypes
<1>4. /\ o \in Objects' /\ o.addr = obj[i].addr /\ o.parent = obj[i].parent
      /\ o.made = obj[i].made /\ o.phase = obj[i].phase
  BY <1>3 DEF Objects
<1>5. Logs(i)
  BY <1>1, <1>2, ForgottenLogs
<1>6. nlib' - nlib = left.reports - left'.reports /\ nlib' \in Nat /\ left' \in Plan
  BY <1>2, <1>3 DEF Plan
<1>7. Begun(i)
  BY <1>1, <1>2 DEF Game, Alive
<1>8. obj' = [obj EXCEPT ![i] = o]
  BY <1>1, <1>2 DEF TypesOK
<1> HIDE DEF o
<1>9. QED
  BY <1>2, <1>4, <1>5, <1>6, <1>7, <1>8, ObjectStep

LEMMA ChildExitKeeps ==
  ASSUME Inv, ChildExit
  PROVE  Inv'
<1>1. TypesOK /\ Game
  BY DEF Inv
<1>2. /\ Running /\ Tick /\ exitAt' = now + 1 /\ left' = [left EXCEPT !.exits = 0]
      /\ plan' = plan /\ obj' = obj /\ nlib' = nlib /\ pipeq' = pipeq /\ etwq' = etwq
      /\ behind' = behind /\ m' = m /\ UNCHANGED poll
  BY DEF ChildExit, feeds
<1>3. /\ now \in Nat /\ now' = now + 1 /\ now' \in Nat /\ now <= now' /\ now' # 0
      /\ nlib \in Nat /\ left \in Plan /\ pipeq \in Seq(Messages) /\ etwq \in Seq(Records)
      /\ obj \in [Ids -> Objects]
  BY <1>1, <1>2 DEF TypesOK, Tick
<1>4. /\ Ids' = Ids /\ obj' \in [Ids -> Objects'] /\ pipeq' \in Seq(Messages')
      /\ etwq' \in Seq(Records')
  <2>1. Objects \subseteq Objects' /\ Seq(Messages) \subseteq Seq(Messages')
        /\ Seq(Records) \subseteq Seq(Records') /\ Ids' = Ids
    BY <1>1, <1>2, <1>3, TypesGrow
  <2>2. QED
    BY <1>2, <1>3, <2>1
<1>5. Same
  <2>1. \A i \in Ids : obj[i].phase \in {"new", "made", "sent", "dying", "gone"}
    BY <1>3 DEF Objects
  <2>2. QED
    BY <1>2, <1>3, <2>1 DEF Same, Kept, Begun
<1>6. left' \in Plan /\ nlib' - nlib = left.reports - left'.reports /\ nlib' \in Nat
  <2>1. left' \in Plan /\ left'.reports = left.reports /\ left.reports \in Nat
    BY <1>2, <1>3 DEF Plan
  <2>2. QED
    BY <1>2, <1>3, <2>1
<1>7. \A n \in DOMAIN etwq' : etwq'[n].id \in Ids /\ Begun(etwq'[n].id)
  <2>1. \A n \in DOMAIN etwq : etwq[n] \in Records
    BY <1>3
  <2>2. QED
    BY <1>1, <1>2, <2>1 DEF Game, Records
<1>8. \A n \in DOMAIN pipeq', i \in Ids : Creates(n, i)' => n \in DOMAIN pipeq /\ Creates(n, i)
  BY <1>2 DEF Creates
<1>9. Running /\ exitAt' = now' /\ now' # 0
  BY <1>2, <1>3
<1>10. QED
  BY <1>2, <1>3, <1>4, <1>5, <1>6, <1>7, <1>8, <1>9, GameStep

\* Library ids are handed out one for each object that has begun, and one
\* more for each re-report.
LEMMA NextLib ==
  ASSUME TypesOK, Game,
         \/ left.reports > 0
         \/ \E i \in Ids : ~Begun(i)
  PROVE  nlib + 1 \in Libs /\ nlib \in Nat
<1> DEFINE B == {i \in Ids : Begun(i)}
<1>1. IsFiniteSet(Ids) /\ Cardinality(Ids) = Len(plan.kinds) /\ Len(plan.kinds) \in Nat
  <2> DEFINE n == Len(plan.kinds)
  <2>1. IsFiniteSet(Ids) /\ Ids = 1 .. n /\ n \in Nat
    BY Numbers
  <2> HIDE DEF n
  <2>2. Cardinality(1 .. n) = IF 1 > n THEN 0 ELSE n - 1 + 1
    BY <2>1, FS_Interval
  <2>3. Cardinality(Ids) = n
    BY <2>1, <2>2
  <2>4. QED
    BY <2>1, <2>3 DEF n
<1>2. IsFiniteSet(B) /\ Cardinality(B) \in Nat /\ Cardinality(B) <= Cardinality(Ids)
  BY <1>1, FS_Subset, FS_CardinalityType
<1>3. plan.reports \in Nat /\ left.reports \in Nat /\ nlib \in Nat
  BY Numbers DEF TypesOK, Plan
<1>4. nlib = Cardinality(B) + plan.reports - left.reports
  BY DEF Game
<1>5. left.reports > 0 \/ Cardinality(B) # Cardinality(Ids)
  <2>1. ASSUME NEW i \in Ids, ~Begun(i)
        PROVE  Cardinality(B) # Cardinality(Ids)
    <3>1. B # Ids /\ B \in SUBSET Ids
      BY <2>1
    <3> HIDE DEF B
    <3>2. QED
      BY <1>1, <3>1, FS_Subset
  <2>2. QED
    BY <2>1
<1> DEFINE c == Cardinality(B)
           n == Len(plan.kinds)
<1>6. c \in Nat /\ n \in Nat /\ c <= n /\ nlib = c + plan.reports - left.reports
      /\ (left.reports > 0 \/ c # n)
  BY <1>1, <1>2, <1>4, <1>5
<1> HIDE DEF c
<1>7. nlib + 1 \in 1 .. (n + plan.reports)
  BY <1>3, <1>6
<1>8. QED
  BY <1>3, <1>7 DEF Libs

LEMMA TwoOps == <<"create", "address">> \in Seq(Ops) /\ <<"group">> \in Seq(Ops)
BY DEF Ops

LEMMA RereportKeeps ==
  ASSUME Inv, NEW i \in Ids, Rereport(i)
  PROVE  Inv'
<1> DEFINE o == [obj[i] EXCEPT !.libs = @ \union {nlib + 1}]
<1>1. TypesOK /\ Game
  BY DEF Inv
<1>2. /\ left.reports > 0 /\ Alive(i) /\ Tick /\ obj' = [obj EXCEPT ![i].libs = @ \union {nlib + 1}]
      /\ etwq' = etwq \o Recorded(<<"create", "address">>, i, nlib + 1, obj[i].group)
      /\ plan' = plan /\ nlib' = nlib + 1 /\ left' = [left EXCEPT !.reports = @ - 1]
      /\ UNCHANGED <<plan, behind, exitAt, pipeq, m, poll>>
  BY DEF Rereport
<1>3. /\ obj[i] \in Objects /\ obj[i] \in Objects' /\ Libs' = Libs /\ left \in Plan
  BY <1>1, <1>2, ObjectTypes
<1>4. nlib + 1 \in Libs /\ nlib \in Nat
  BY <1>1, <1>2, NextLib
<1>5. /\ o \in Objects' /\ o.addr = obj[i].addr /\ o.parent = obj[i].parent
      /\ o.made = obj[i].made /\ o.phase = obj[i].phase
  BY <1>3, <1>4 DEF Objects
<1>6. Logs(i)
  <2>1. obj[i].group \in Locs
    BY <1>3 DEF Objects
  <2>2. QED
    BY <1>2, <1>4, <2>1, TwoOps DEF Logs
<1>7. nlib' - nlib = left.reports - left'.reports /\ nlib' \in Nat /\ left' \in Plan
  <2>0. left.reports \in Nat /\ left.reports - 1 \in Nat /\ left.reports \in Nat
    BY <1>2, <1>3 DEF Plan
  <2>1. left' \in Plan /\ left'.reports = left.reports - 1
    BY <1>2, <1>3, <2>0 DEF Plan
  <2>2. QED
    BY <1>2, <1>4, <2>0, <2>1
<1>8. Begun(i)
  BY <1>1, <1>2 DEF Game, Alive
<1>9. obj' = [obj EXCEPT ![i] = o]
  BY <1>1, <1>2 DEF TypesOK
<1> HIDE DEF o
<1>10. QED
  BY <1>2, <1>5, <1>6, <1>7, <1>8, <1>9, ObjectStep

LEMMA MoveGroupKeeps ==
  ASSUME Inv, NEW i \in Ids, MoveGroup(i)
  PROVE  Inv'
<1> DEFINE g == IF obj[i].group = "Vram" THEN "Sys" ELSE "Vram"
           o == [obj[i] EXCEPT !.group = g]
<1>1. TypesOK /\ Game
  BY DEF Inv
<1>2. /\ left.moves > 0 /\ Alive(i) /\ Tick /\ obj' = [obj EXCEPT ![i].group = g]
      /\ \E lib \in obj[i].libs : etwq' = etwq \o Recorded(<<"group">>, i, lib, g)
      /\ plan' = plan /\ nlib' = nlib /\ left' = [left EXCEPT !.moves = @ - 1]
      /\ UNCHANGED <<plan, behind, exitAt, pipeq, m, poll>>
  BY DEF MoveGroup
<1>3. /\ obj[i] \in Objects /\ obj[i] \in Objects' /\ left \in Plan /\ nlib \in Nat
  BY <1>1, <1>2, ObjectTypes
<1>4. g \in Locs
  BY DEF Locs
<1> HIDE DEF g
<1>5. /\ o \in Objects' /\ o.addr = obj[i].addr /\ o.parent = obj[i].parent
      /\ o.made = obj[i].made /\ o.phase = obj[i].phase
  BY <1>3, <1>4 DEF Objects
<1>6. Logs(i)
  <2>1. obj[i].libs \subseteq Libs
    BY <1>3 DEF Objects
  <2>2. QED
    BY <1>2, <1>4, <2>1, TwoOps DEF Logs
<1>7. nlib' - nlib = left.reports - left'.reports /\ nlib' \in Nat /\ left' \in Plan
  <2>0. left.moves \in Nat /\ left.moves - 1 \in Nat /\ left.reports \in Nat
    BY <1>2, <1>3 DEF Plan
  <2>1. left' \in Plan /\ left'.reports = left.reports
    BY <1>2, <1>3, <2>0 DEF Plan
  <2>2. QED
    BY <1>2, <1>3, <2>0, <2>1
<1>8. Begun(i)
  BY <1>1, <1>2 DEF Game, Alive
<1>9. obj' = [obj EXCEPT ![i] = o]
  BY <1>1, <1>2 DEF TypesOK
<1> HIDE DEF o
<1>10. QED
  BY <1>2, <1>5, <1>6, <1>7, <1>8, <1>9, ObjectStep

\* The pipe message a step of the game writes.
LEMMA MessageTypes ==
  ASSUME TypesOK, Tick, plan' = plan, NEW i \in Ids, NEW ts, NEW since \in Stamps,
         ts \in {since + 1, now + 1}, NEW op \in {"created", "destroyed"},
         pipeq' = Append(pipeq, [op |-> op, id |-> i, ts |-> ts])
  PROVE  /\ ts \in Stamps'
         /\ pipeq' \in Seq(Messages') /\ Len(pipeq) \in Nat
         /\ DOMAIN pipeq' = 1 .. Len(pipeq) + 1 /\ DOMAIN pipeq = 1 .. Len(pipeq)
         /\ \A n \in DOMAIN pipeq : pipeq'[n] = pipeq[n]
         /\ pipeq'[Len(pipeq) + 1] = [op |-> op, id |-> i, ts |-> ts]
<1>1. now \in Nat /\ now' = now + 1 /\ now' \in Nat /\ now <= now' /\ pipeq \in Seq(Messages)
  BY DEF TypesOK, Tick
<1>2. Seq(Messages) \subseteq Seq(Messages') /\ Ids' = Ids
  BY <1>1, TypesGrow
<1>3. ts \in Stamps'
  BY <1>1 DEF Stamps
<1>4. [op |-> op, id |-> i, ts |-> ts] \in Messages'
  BY <1>2, <1>3 DEF Messages
<1>5. pipeq \in Seq(Messages')
  BY <1>1, <1>2
<1>6. QED
  BY <1>3, <1>4, <1>5

LEMMA SendDestroyedKeeps ==
  ASSUME Inv, NEW i \in Ids, SendDestroyed(i)
  PROVE  Inv'
<1>1. TypesOK /\ Game
  BY DEF Inv
<1>2. /\ obj[i].phase = "dying" /\ Tick /\ Message("destroyed", i, obj[i].dropped)
      /\ plan' = plan /\ nlib' = nlib /\ left' = left /\ etwq' = etwq
      /\ behind' = behind /\ m' = m /\ exitAt' = exitAt /\ UNCHANGED poll
  BY DEF SendDestroyed
<1>3. PICK ts \in {obj[i].dropped + 1, now + 1} :
             /\ pipeq' = Append(pipeq, [op |-> "destroyed", id |-> i, ts |-> ts])
             /\ obj' = [obj EXCEPT ![i].phase = "gone", ![i].died = ts]
  BY <1>2 DEF Message
<1>4. /\ obj[i] \in Objects /\ obj[i] \in Objects' /\ obj[i].dropped \in Stamps
      /\ left \in Plan /\ nlib \in Nat
  BY <1>1, <1>2, ObjectTypes DEF Objects
<1>5. /\ ts \in Stamps'
      /\ pipeq' \in Seq(Messages') /\ Len(pipeq) \in Nat
      /\ DOMAIN pipeq' = 1 .. Len(pipeq) + 1 /\ DOMAIN pipeq = 1 .. Len(pipeq)
      /\ \A n \in DOMAIN pipeq : pipeq'[n] = pipeq[n]
      /\ pipeq'[Len(pipeq) + 1] = [op |-> "destroyed", id |-> i, ts |-> ts]
  BY <1>1, <1>2, <1>3, <1>4, MessageTypes
<1> DEFINE o == [obj[i] EXCEPT !.phase = "gone", !.died = ts]
<1>6. /\ o \in Objects' /\ o.addr = obj[i].addr /\ o.parent = obj[i].parent
      /\ o.made = obj[i].made /\ o.phase = "gone"
  BY <1>4, <1>5 DEF Objects
<1>7. obj' = [obj EXCEPT ![i] = o]
  BY <1>1, <1>3 DEF TypesOK
<1>8. Begun(i) /\ o.phase \in SentPhases
  BY <1>2, <1>6 DEF Begun, SentPhases
<1> HIDE DEF o
<1>9. now \in Nat /\ now' = now + 1 /\ now' \in Nat /\ now <= now'
  BY <1>1, <1>2 DEF TypesOK, Tick
<1>10. Same /\ obj' \in [Ids -> Objects']
  BY <1>1, <1>2, <1>6, <1>7, <1>8, <1>9, OneObject
<1>11. /\ etwq' \in Seq(Records')
       /\ \A n \in DOMAIN etwq' : etwq'[n].id \in Ids /\ Begun(etwq'[n].id)
  <2>1. Logs(i)
    BY <1>2 DEF Logs
  <2>2. QED
    BY <1>1, <1>2, <1>8, <1>9, <2>1, LogsTypes
<1>12. \A n \in DOMAIN pipeq', j \in Ids : Creates(n, j)' => n \in DOMAIN pipeq /\ Creates(n, j)
  BY <1>5 DEF Creates
<1>13. nlib' - nlib = left.reports - left'.reports /\ nlib' \in Nat /\ left' \in Plan
  BY <1>2, <1>4 DEF Plan
<1>14. QED
  BY <1>2, <1>5, <1>10, <1>11, <1>12, <1>13, GameStep

\* Nothing is placed in an object that has not been told of.
LEMMA SendCreatedKeeps ==
  ASSUME Inv, NEW i \in Ids, SendCreated(i)
  PROVE  Inv'
<1>1. TypesOK /\ Game /\ Feed
  BY DEF Inv
<1>2. /\ obj[i].phase = "made" /\ Tick /\ Message("created", i, obj[i].made)
      /\ plan' = plan /\ nlib' = nlib /\ left' = left /\ etwq' = etwq
      /\ behind' = behind /\ m' = m /\ exitAt' = exitAt /\ UNCHANGED poll
  BY DEF SendCreated
<1>3. PICK ts \in {obj[i].made + 1, now + 1} :
             /\ pipeq' = Append(pipeq, [op |-> "created", id |-> i, ts |-> ts])
             /\ obj' = [obj EXCEPT ![i].phase = "sent"]
  BY <1>2 DEF Message
<1>4. /\ obj[i] \in Objects /\ obj[i] \in Objects' /\ obj[i].made \in Stamps
      /\ left \in Plan /\ nlib \in Nat
  BY <1>1, <1>2, ObjectTypes DEF Objects
<1>5. /\ pipeq' \in Seq(Messages') /\ Len(pipeq) \in Nat
      /\ DOMAIN pipeq' = 1 .. Len(pipeq) + 1 /\ DOMAIN pipeq = 1 .. Len(pipeq)
      /\ \A n \in DOMAIN pipeq : pipeq'[n] = pipeq[n]
      /\ pipeq'[Len(pipeq) + 1] = [op |-> "created", id |-> i, ts |-> ts]
  BY <1>1, <1>2, <1>3, <1>4, MessageTypes
<1> DEFINE o == [obj[i] EXCEPT !.phase = "sent"]
<1>6. /\ o \in Objects' /\ o.addr = obj[i].addr /\ o.parent = obj[i].parent
      /\ o.made = obj[i].made /\ o.phase = "sent"
  BY <1>4 DEF Objects
<1>7. obj' = [obj EXCEPT ![i] = o]
  BY <1>1, <1>3 DEF TypesOK
<1>8. Begun(i) /\ o.phase \in SentPhases
  BY <1>2, <1>6 DEF Begun, SentPhases
<1> HIDE DEF o
<1>9. now \in Nat /\ now' = now + 1 /\ now' \in Nat /\ now <= now'
  BY <1>1, <1>2 DEF TypesOK, Tick
<1>10. Same /\ obj' \in [Ids -> Objects']
  BY <1>1, <1>2, <1>6, <1>7, <1>8, <1>9, OneObject
<1>11. /\ etwq' \in Seq(Records')
       /\ \A n \in DOMAIN etwq' : etwq'[n].id \in Ids /\ Begun(etwq'[n].id)
  <2>1. Logs(i)
    BY <1>2 DEF Logs
  <2>2. QED
    BY <1>1, <1>2, <1>8, <1>9, <2>1, LogsTypes
<1>12. nlib' - nlib = left.reports - left'.reports /\ nlib' \in Nat /\ left' \in Plan
  BY <1>2, <1>4 DEF Plan
<1>13. Game'
  BY <1>1, <1>10, <1>11, <1>12, SameGame
<1>14. Feed'
  <2> DEFINE last == Len(pipeq) + 1
  <2>1. /\ Ids' = Ids
        /\ \A j \in Ids : /\ obj[j].phase \in SentPhases => obj'[j].phase \in SentPhases
                          /\ obj'[j].phase \in {"new", "made"} => obj[j].phase \in {"new", "made"}
        /\ \A j, h \in Ids : ChildOf(j, h)' <=> ChildOf(j, h)
    BY <1>1, <1>10, SameShape
  <2>2. obj'[i].phase \in SentPhases /\ obj[i].phase \notin SentPhases /\ m.live[i] = NoObj
    <3>1. obj'[i] = o
      BY <1>1, <1>7 DEF TypesOK
    <3>2. QED
      BY <1>1, <1>2, <1>8, <3>1 DEF Feed, SentPhases
  <2>3. \A c \in Ids : ~ChildOf(c, i)
    BY <1>1, <1>2 DEF Game, ChildOf
  <2>4. \A n \in DOMAIN pipeq', j \in Ids :
          Creates(n, j)' <=> (n \in DOMAIN pipeq /\ Creates(n, j)) \/ (n = last /\ j = i)
    BY <1>5 DEF Creates
  <2>5. \A n \in DOMAIN pipeq, j \in Ids : Creates(n, j) => j # i /\ n < last
    BY <1>1, <1>5, <2>2 DEF Feed, SentPhases
  <2> HIDE DEF ChildOf, Creates, last
  <2>6. \A n \in DOMAIN pipeq', j \in Ids' : Creates(n, j)' =>
          /\ obj'[j].phase \in SentPhases
          /\ m'.live[j] = NoObj
          /\ \A k \in DOMAIN pipeq' : Creates(k, j)' => k = n
          /\ \A c \in Ids' : ChildOf(c, j)' =>
               m'.live[c] = NoObj /\ \A k \in DOMAIN pipeq' : Creates(k, c)' => n < k
    <3> SUFFICES ASSUME NEW n \in DOMAIN pipeq', NEW j \in Ids, Creates(n, j)'
                 PROVE  /\ obj'[j].phase \in SentPhases
                        /\ m'.live[j] = NoObj
                        /\ \A k \in DOMAIN pipeq' : Creates(k, j)' => k = n
                        /\ \A c \in Ids : ChildOf(c, j)' =>
                             m'.live[c] = NoObj /\ \A k \in DOMAIN pipeq' : Creates(k, c)' => n < k
      BY <2>1
    <3>1. CASE n \in DOMAIN pipeq /\ Creates(n, j)
      <4>1. j # i /\ n < last
        BY <2>5, <3>1
      <4>2. /\ obj[j].phase \in SentPhases
            /\ m.live[j] = NoObj
            /\ \A k \in DOMAIN pipeq : Creates(k, j) => k = n
            /\ \A c \in Ids : ChildOf(c, j) =>
                 m.live[c] = NoObj /\ \A k \in DOMAIN pipeq : Creates(k, c) => n < k
        BY <1>1, <3>1 DEF Feed, SentPhases
      <4>3. QED
        BY <1>2, <2>1, <2>4, <4>1, <4>2
    <3>2. CASE n = last /\ j = i
      <4>1. obj'[j].phase \in SentPhases /\ m'.live[j] = NoObj
        BY <1>2, <2>2, <3>2
      <4>2. \A k \in DOMAIN pipeq' : Creates(k, j)' => k = n
        BY <2>4, <2>5, <3>2
      <4>3. \A c \in Ids : ~ChildOf(c, j)'
        BY <2>1, <2>3, <3>2
      <4>4. QED
        BY <4>1, <4>2, <4>3
    <3>3. QED
      BY <2>4, <3>1, <3>2
  <2>7. \A j \in Ids' : obj'[j].phase \in {"new", "made"} => m'.live[j] = NoObj
    BY <1>1, <1>2, <2>1 DEF Feed
  <2>8. QED
    BY <2>6, <2>7 DEF Feed, SentPhases
<1>15. QED
  BY <1>2, <1>5, <1>10, <1>11, <1>12, <1>13, <1>14, KeptStep DEF Same

\* A new object is placed in a heap the pipe has told of, and nothing is
\* placed in it yet.
LEMMA ConstructKeeps ==
  ASSUME Inv, NEW i \in Ids, NEW p \in plan.addrs, NEW h \in Ids, Construct(i, p, h)
  PROVE  Inv'
<1> DEFINE g == IF HasMemory(i) THEN "Vram" ELSE "Unknown"
           b == IF Placed(i) THEN h ELSE 0
           o == [obj[i] EXCEPT !.phase = "made", !.addr = p, !.made = now + 1, !.group = g,
                               !.parent = b, !.libs = {nlib + 1}]
           B == {j \in Ids : Begun(j)}
<1>1. TypesOK /\ Game /\ Feed
  BY DEF Inv
<1>2. /\ obj[i].phase = "new" /\ Tick /\ nlib' = nlib + 1 /\ obj' = [obj EXCEPT ![i] = o]
      /\ etwq' = etwq \o Recorded(<<"create", "address">>, i, nlib + 1, g)
      /\ plan' = plan /\ left' = left /\ pipeq' = pipeq
      /\ behind' = behind /\ m' = m /\ exitAt' = exitAt /\ UNCHANGED poll
  BY DEF Construct
<1>3. Placed(i) => plan.kinds[h] = "heap" /\ obj[h].phase = "sent"
  BY DEF Construct
<1>4. /\ obj[i] \in Objects' /\ now + 1 \in Stamps' /\ now + 1 # 0 /\ left \in Plan
  BY <1>1, <1>2, ObjectTypes
<1>5. nlib + 1 \in Libs /\ nlib \in Nat
  BY <1>1, <1>2, NextLib DEF Begun
<1>6. /\ now \in Nat /\ now' = now + 1 /\ now' \in Nat /\ now <= now'
      /\ obj \in [Ids -> Objects] /\ pipeq \in Seq(Messages)
  BY <1>1, <1>2 DEF TypesOK, Tick
<1>7. /\ Ids' = Ids /\ Libs' = Libs /\ Objects \subseteq Objects'
      /\ Seq(Messages) \subseteq Seq(Messages')
  BY <1>1, <1>2, <1>6, TypesGrow
<1>8. g \in Locs
  BY DEF Locs
<1> HIDE DEF g
<1>9. b \in {0} \union Ids /\ (Placed(i) => b = h) /\ (~Placed(i) => b = 0)
  OBVIOUS
<1> HIDE DEF b
<1>10. /\ o \in Objects' /\ o.addr = p /\ o.parent = b /\ o.made = now + 1 /\ o.phase = "made"
  BY <1>2, <1>4, <1>5, <1>7, <1>8, <1>9 DEF Objects
<1> HIDE DEF o
<1>11. /\ obj'[i] = o /\ \A j \in Ids : j # i => obj'[j] = obj[j]
       /\ obj' \in [Ids -> Objects']
  BY <1>2, <1>6, <1>7, <1>10
<1>12. /\ ~Begun(i) /\ Begun(i)' /\ \A j \in Ids : j # i => (Begun(j)' <=> Begun(j))
  BY <1>2, <1>10, <1>11 DEF Begun
<1>13. Kept
  <2>1. \A j \in Ids : obj[j].phase \in {"new", "made", "sent", "dying", "gone"}
    BY <1>6 DEF Objects
  <2>2. QED
    BY <1>2, <1>6, <1>11, <1>12, <2>1 DEF Kept, Begun
<1>14. /\ etwq' \in Seq(Records')
       /\ \A n \in DOMAIN etwq' : obj'[etwq'[n].id].phase # "new"
  <2>1. /\ etwq' \in Seq(Records')
        /\ \A n \in DOMAIN etwq' :
             etwq'[n].id = i \/ (n \in DOMAIN etwq /\ etwq'[n] = etwq[n])
    BY <1>1, <1>2, <1>5, <1>6, <1>8, TwoOps, LogTypes
  <2>2. \A n \in DOMAIN etwq : etwq[n].id \in Ids /\ Begun(etwq[n].id)
    <3>1. \A n \in DOMAIN etwq : etwq[n] \in Records
      BY <1>1 DEF TypesOK
    <3>2. QED
      BY <1>1, <3>1 DEF Game, Records
  <2>3. QED
    BY <1>12, <2>1, <2>2 DEF Begun
<1>15. Game'
  <2>1. nlib' = Cardinality({j \in Ids : Begun(j)}') + plan'.reports - left'.reports
    <3>1. {j \in Ids : Begun(j)}' = B \union {i} /\ i \notin B
      BY <1>7, <1>12
    <3>2. IsFiniteSet(B) /\ Cardinality(B) \in Nat
      BY <1>1, Numbers, FS_Subset, FS_CardinalityType
    <3>3. nlib = Cardinality(B) + plan.reports - left.reports
      BY <1>1 DEF Game
    <3>4. plan.reports \in Nat /\ left.reports \in Nat
      BY <1>1, <1>4, Numbers DEF Plan
    <3> HIDE DEF B
    <3>5. Cardinality(B \union {i}) = Cardinality(B) + 1
      BY <3>1, <3>2, FS_AddElement
    <3> DEFINE c == Cardinality(B)
    <3>6. c \in Nat /\ nlib = c + plan.reports - left.reports
      BY <3>2, <3>3
    <3>7. Cardinality({j \in Ids : Begun(j)}') = c + 1
      BY <3>1, <3>5
    <3> HIDE DEF c
    <3>8. nlib' = c + 1 + plan.reports - left.reports
      BY <1>2, <3>4, <3>6
    <3>9. QED
      BY <1>2, <3>7, <3>8
  <2>2. \A j \in Ids' :
          /\ obj'[j].made # 0 <=> Begun(j)'
          /\ Begun(j)' => obj'[j].addr \in plan'.addrs
          /\ ~Placed(j)' => obj'[j].parent = 0
          /\ Placed(j)' /\ Begun(j)' =>
               LET a == obj'[j].parent
               IN  a \in Ids' /\ plan'.kinds[a] = "heap"
                   /\ obj'[a].phase \in {"sent", "dying", "gone"}
    <3> SUFFICES ASSUME NEW j \in Ids
                 PROVE  /\ obj'[j].made # 0 <=> Begun(j)'
                        /\ Begun(j)' => obj'[j].addr \in plan.addrs
                        /\ ~Placed(j) => obj'[j].parent = 0
                        /\ Placed(j) /\ Begun(j)' =>
                             LET a == obj'[j].parent
                             IN  a \in Ids /\ plan.kinds[a] = "heap"
                                 /\ obj'[a].phase \in {"sent", "dying", "gone"}
      <4>1. \A j \in Ids : Placed(j)' <=> Placed(j)
        BY <1>2 DEF Placed
      <4> HIDE DEF Placed, Begun
      <4>2. QED
        BY <1>2, <1>7, <4>1
    <3>1. CASE j = i
      <4>1. Placed(i) => h # i /\ obj'[h] = obj[h]
        BY <1>2, <1>3, <1>11
      <4>2. QED
        BY <1>3, <1>4, <1>9, <1>10, <1>11, <1>12, <3>1, <4>1
    <3>2. CASE j # i
      <4>1. /\ obj[j].made # 0 <=> Begun(j)
            /\ Begun(j) => obj[j].addr \in plan.addrs
            /\ ~Placed(j) => obj[j].parent = 0
            /\ Placed(j) /\ Begun(j) =>
                 LET a == obj[j].parent
                 IN  a \in Ids /\ plan.kinds[a] = "heap"
                     /\ obj[a].phase \in {"sent", "dying", "gone"}
        BY <1>1 DEF Game
      <4>2. obj'[j] = obj[j] /\ (Begun(j)' <=> Begun(j))
        BY <1>11, <1>12, <3>2
      <4>3. Placed(j) /\ Begun(j) => obj[j].parent # i
        BY <1>2, <4>1
      <4>4. QED
        BY <1>11, <4>1, <4>2, <4>3
    <3>3. QED
      BY <3>1, <3>2
  <2>3. QED
    BY <1>14, <2>1, <2>2 DEF Game, Begun
<1>16. Feed'
  <2>1. \A n, j : Creates(n, j)' <=> Creates(n, j)
    BY <1>2 DEF Creates
  <2>2. \A c, j \in Ids : ChildOf(c, j)' =>
          \/ c # i /\ ChildOf(c, j)
          \/ c = i /\ obj[j].phase = "sent"
    BY <1>2, <1>3, <1>9, <1>10, <1>11, <1>12 DEF ChildOf, Placed
  <2>3. m.live[i] = NoObj /\ \A n \in DOMAIN pipeq : ~Creates(n, i)
    BY <1>1, <1>2 DEF Feed
  <2>4. \A j \in Ids : obj'[j].phase \in {"new", "made"} => m.live[j] = NoObj
    BY <1>1, <1>11, <2>3 DEF Feed
  <2> HIDE DEF ChildOf, Creates
  <2>5. ASSUME NEW n \in DOMAIN pipeq, NEW j \in Ids, Creates(n, j)
        PROVE  /\ obj'[j].phase \in {"sent", "dying", "gone"}
               /\ m.live[j] = NoObj
               /\ \A k \in DOMAIN pipeq : Creates(k, j) => k = n
               /\ \A c \in Ids : ChildOf(c, j)' =>
                    m.live[c] = NoObj /\ \A k \in DOMAIN pipeq : Creates(k, c) => n < k
    <3>1. /\ obj[j].phase \in {"sent", "dying", "gone"}
          /\ m.live[j] = NoObj
          /\ \A k \in DOMAIN pipeq : Creates(k, j) => k = n
          /\ \A c \in Ids : ChildOf(c, j) =>
               m.live[c] = NoObj /\ \A k \in DOMAIN pipeq : Creates(k, c) => n < k
      BY <1>1, <2>5 DEF Feed
    <3>2. obj'[j] = obj[j]
      BY <1>2, <1>11, <3>1
    <3>3. QED
      BY <2>2, <2>3, <3>1, <3>2
  <2>6. QED
    BY <1>2, <1>7, <2>1, <2>4, <2>5 DEF Feed
<1>17. pipeq' \in Seq(Messages') /\ nlib' \in Nat /\ left' \in Plan
  BY <1>2, <1>4, <1>5, <1>6, <1>7
<1>18. QED
  BY <1>2, <1>11, <1>13, <1>14, <1>15, <1>16, <1>17, KeptStep

-----------------------------------------------------------------------------
(* The steps of the launcher's threads.                                    *)

LEMMA TailOf ==
  ASSUME NEW T, NEW q \in Seq(T), q # <<>>
  PROVE  /\ Head(q) \in T /\ Head(q) = q[1] /\ 1 \in DOMAIN q
         /\ Tail(q) \in Seq(T) /\ Tail(q) # q
         /\ \A n \in DOMAIN Tail(q) :
              n + 1 \in DOMAIN q /\ Tail(q)[n] = q[n + 1] /\ n \in Nat /\ n >= 1
<1>1. Len(q) \in Nat /\ Len(q) > 0
  OBVIOUS
<1>2. Tail(q) \in Seq(T) /\ Len(Tail(q)) = Len(q) - 1
  BY <1>1
<1>3. \A n \in 1 .. Len(Tail(q)) : n + 1 \in 1 .. Len(q) /\ Tail(q)[n] = q[n + 1]
  BY <1>1, <1>2
<1>4. Head(q) \in T /\ Head(q) = q[1] /\ 1 \in DOMAIN q
  BY <1>1
<1>5. Tail(q) # q
  <2> SUFFICES ASSUME Tail(q) = q
               PROVE  FALSE
    OBVIOUS
  <2>1. Len(q) = Len(q) - 1
    BY <1>2
  <2>2. QED
    BY <1>1, <2>1
<1>6. DOMAIN q = 1 .. Len(q) /\ DOMAIN Tail(q) = 1 .. Len(Tail(q))
  BY <1>2
<1>7. \A n \in 1 .. Len(Tail(q)) : n \in Nat /\ n >= 1
  BY <1>2
<1>8. QED
  BY <1>2, <1>3, <1>4, <1>5, <1>6, <1>7

LEMMA HandlerStep ==
  ASSUME Inv, NEW R, Agree(R), m' = R, UNCHANGED game, Feed', Exit',
         pipeq' \in Seq(Messages), aliveTs' \in Stamps, exiting' \in BOOLEAN,
         etwq' = etwq \/ (etwq # <<>> /\ etwq' = Tail(etwq))
  PROVE  Inv'
<1>1. TypesOK /\ Game
  BY DEF Inv
<1>2. /\ plan' = plan /\ behind' = behind /\ now' = now /\ obj' = obj /\ nlib' = nlib
      /\ left' = left /\ exitAt' = exitAt
  BY DEF game
<1>3. Agree(m)'
  BY AgreeNext
<1>4. /\ etwq \in Seq(Records)
      /\ etwq' \in Seq(Records)
      /\ \A n \in DOMAIN etwq' : \E k \in DOMAIN etwq : etwq'[n] = etwq[k]
  <2>1. etwq \in Seq(Records)
    BY <1>1 DEF TypesOK
  <2>2. CASE etwq' = etwq
    BY <2>1, <2>2
  <2>3. CASE etwq # <<>> /\ etwq' = Tail(etwq)
    <3>1. /\ Tail(etwq) \in Seq(Records)
          /\ \A n \in DOMAIN Tail(etwq) : n + 1 \in DOMAIN etwq /\ Tail(etwq)[n] = etwq[n + 1]
      BY <2>1, <2>3, TailOf
    <3>2. QED
      BY <2>1, <2>3, <3>1
  <2>4. QED
    BY <2>2, <2>3
<1>5. /\ Ids' = Ids /\ Stamps' = Stamps /\ Objects' = Objects /\ Messages' = Messages
      /\ Records' = Records
  <2>1. Ids' = Ids /\ Stamps' = Stamps /\ Libs' = Libs
    BY <1>2 DEF Ids, Stamps, Libs
  <2>2. QED
    BY <1>2, <2>1 DEF Objects, Messages, Records
<1>6. TypesOK'
  BY <1>1, <1>2, <1>3, <1>4, <1>5 DEF TypesOK, Agree
<1>7. Game'
  <2>1. \A n \in DOMAIN etwq' : Begun(etwq'[n].id)
    BY <1>1, <1>4 DEF Game
  <2>2. QED
    BY <1>1, <1>2, <1>5, <2>1 DEF Game, Begun, Placed
<1>8. QED
  BY <1>3, <1>6, <1>7 DEF Inv

LEMMA FeedSame ==
  ASSUME Feed, UNCHANGED game, pipeq' = pipeq, \A j \in Ids : In(m, j)' => In(m, j)
  PROVE  Feed'
<1>1. obj' = obj /\ Ids' = Ids
  BY DEF game, Ids
<1>2. \A n, i : Creates(n, i)' <=> Creates(n, i)
  BY DEF Creates
<1>3. \A c, i : ChildOf(c, i)' <=> ChildOf(c, i)
  BY DEF ChildOf, Begun, Placed, game
<1> HIDE DEF Creates, ChildOf
<1>4. QED
  BY <1>1, <1>2, <1>3 DEF Feed, In

\* The first message is handled: it may have told of an object.
LEMMA FeedDrained ==
  ASSUME TypesOK, Feed, UNCHANGED game, pipeq # <<>>, pipeq' = Tail(pipeq),
         \A j \in Ids : In(m, j)' => In(m, j) \/ Creates(1, j)
  PROVE  Feed'
<1>1. obj' = obj /\ Ids' = Ids
  BY DEF game, Ids
<1>2. 1 \in DOMAIN pipeq
      /\ \A n \in DOMAIN pipeq' :
           n + 1 \in DOMAIN pipeq /\ pipeq'[n] = pipeq[n + 1] /\ n \in Nat /\ n >= 1
  BY TailOf DEF TypesOK
<1>3. \A n \in DOMAIN pipeq' : \A i : Creates(n, i)' <=> Creates(n + 1, i)
  BY <1>2 DEF Creates
<1>4. \A c, i : ChildOf(c, i)' <=> ChildOf(c, i)
  BY DEF ChildOf, Begun, Placed, game
<1> HIDE DEF Creates, ChildOf
<1>5. \A i \in Ids : obj[i].phase \in {"new", "made"} => m'.live[i] = NoObj
  BY <1>2 DEF Feed, In
<1>6. ASSUME NEW n \in DOMAIN pipeq', NEW i \in Ids, Creates(n, i)'
      PROVE  /\ obj[i].phase \in {"sent", "dying", "gone"}
             /\ m'.live[i] = NoObj
             /\ \A k \in DOMAIN pipeq' : Creates(k, i)' => k = n
             /\ \A c \in Ids : ChildOf(c, i) =>
                  m'.live[c] = NoObj /\ \A k \in DOMAIN pipeq' : Creates(k, c)' => n < k
  <2>1. n + 1 \in DOMAIN pipeq /\ Creates(n + 1, i) /\ n \in Nat /\ n >= 1
    BY <1>2, <1>3, <1>6
  <2>2. /\ obj[i].phase \in {"sent", "dying", "gone"}
        /\ m.live[i] = NoObj
        /\ \A k \in DOMAIN pipeq : Creates(k, i) => k = n + 1
        /\ \A c \in Ids : ChildOf(c, i) =>
             m.live[c] = NoObj /\ \A k \in DOMAIN pipeq : Creates(k, c) => n + 1 < k
    BY <2>1 DEF Feed
  <2>3. m'.live[i] = NoObj
    BY <1>2, <2>1, <2>2 DEF In
  <2>4. \A k \in DOMAIN pipeq' : Creates(k, i)' => k = n
    BY <1>2, <1>3, <2>1, <2>2
  <2>5. ASSUME NEW c \in Ids, ChildOf(c, i)
        PROVE  m'.live[c] = NoObj /\ \A k \in DOMAIN pipeq' : Creates(k, c)' => n < k
    <3>1. m.live[c] = NoObj /\ \A k \in DOMAIN pipeq : Creates(k, c) => n + 1 < k
      BY <2>2, <2>5
    <3>2. m'.live[c] = NoObj
      BY <1>2, <2>1, <3>1 DEF In
    <3>3. \A k \in DOMAIN pipeq' : Creates(k, c)' => n < k
      BY <1>2, <1>3, <2>1, <3>1
    <3>4. QED
      BY <3>2, <3>3
  <2>6. QED
    BY <2>2, <2>3, <2>4, <2>5
<1>7. QED
  BY <1>1, <1>4, <1>5, <1>6 DEF Feed

\* One sample of the exit code.
LEMMA PollKeepsExit ==
  ASSUME TypesOK, Exit, UNCHANGED game, PollChildLocked \/ UNCHANGED poll
  PROVE  Exit' /\ aliveTs' \in Stamps /\ exiting' \in BOOLEAN
<1>1. now' = now /\ exitAt' = exitAt
  BY DEF game
<1>2. /\ now \in Nat /\ now \in Stamps /\ aliveTs \in Stamps /\ exiting \in BOOLEAN
      /\ exitAt \in Stamps
  BY Numbers DEF TypesOK
<1>3. CASE UNCHANGED poll
  BY <1>1, <1>2, <1>3 DEF Exit, Running, poll
<1>4. CASE PollChildLocked
  <2>1. CASE exiting
    BY <1>1, <1>2, <1>4, <2>1 DEF PollChildLocked, Exit, Running, poll
  <2>2. CASE ~exiting /\ Running
    BY <1>1, <1>2, <1>4, <2>2 DEF PollChildLocked, Exit, Running
  <2>3. CASE ~exiting /\ ~Running
    BY <1>1, <1>2, <1>4, <2>3 DEF PollChildLocked, Exit, Running
  <2>4. QED
    BY <2>1, <2>2, <2>3
<1>5. QED
  BY <1>3, <1>4

\* What every handler of an ETW record does.
LEMMA EtwStep ==
  ASSUME Inv, NEW op, Record(op), NEW R, Agree(R), NoNew(m, R), m' = R,
         UNCHANGED <<game, pipeq>>, PollChildLocked \/ UNCHANGED poll
  PROVE  Inv'
<1>1. TypesOK /\ Feed /\ Exit
  BY DEF Inv
<1>2. UNCHANGED game /\ pipeq' = pipeq /\ pipeq \in Seq(Messages)
  BY <1>1 DEF TypesOK
<1>3. Exit' /\ aliveTs' \in Stamps /\ exiting' \in BOOLEAN
  BY <1>1, <1>2, PollKeepsExit
<1>4. \A j \in Ids : In(m, j)' => In(m, j)
  BY DEF NoNew, In
<1>5. Feed'
  BY <1>1, <1>2, <1>4, FeedSame
<1>6. etwq # <<>> /\ etwq' = Tail(etwq)
  BY DEF Record
<1>7. QED
  BY <1>2, <1>3, <1>5, <1>6, HandlerStep

\* The first record is about an object that has begun.
LEMMA FirstRecord ==
  ASSUME Inv, NEW op, Record(op)
  PROVE  /\ Head(etwq) \in Records /\ Head(etwq).op = op
         /\ Begun(Head(etwq).id)
<1>1. etwq \in Seq(Records) /\ etwq # <<>>
  BY DEF Inv, TypesOK, Record
<1>2. Head(etwq) \in Records /\ Head(etwq) = etwq[1] /\ 1 \in DOMAIN etwq
  BY <1>1, TailOf
<1>3. QED
  BY <1>2 DEF Inv, Game, Record

LEMMA NothingNew == \A M : NoNew(M, M)
BY DEF NoNew

LEMMA OnEtwObjectCreatedKeeps ==
  ASSUME Inv, OnEtwObjectCreated
  PROVE  Inv'
<1> DEFINE r == Head(etwq)
           k == r.lib
           e == [type |-> TypeOf(r.id), address |-> NoAddr, group |-> r.group,
                 created |-> r.ts, bound |-> 0, orphan |-> FALSE, aliases |-> {},
                 obj |-> r.id]
           R == IF m.alias[k] # 0 THEN m ELSE [m EXCEPT !.etw[k] = e, !.alias[k] = k]
<1>1. /\ Record("create") /\ m' = R /\ UNCHANGED <<game, pipeq>> /\ UNCHANGED poll
  BY DEF OnEtwObjectCreated
<1>2. TypesOK /\ Agree(m)
  BY DEF Inv
<1>3. r \in Records
  BY <1>1, FirstRecord
<1>4. k \in Libs /\ r.id \in Ids /\ r.group \in Locs /\ r.ts \in Stamps
  BY <1>3 DEF Records
<1>5. e \in EtwRecords /\ e.aliases = {} /\ e.address = NoAddr /\ e.bound = 0
  <2>1. TypeOf(r.id) \in Types
    BY DEF TypeOf, Types
  <2>2. QED
    BY <1>4, <2>1 DEF EtwRecords
<1> HIDE DEF e, k
<1>6. Agree(R) /\ NoNew(m, R)
  <2>1. CASE m.alias[k] # 0
    BY <1>2, <2>1, NothingNew
  <2>2. CASE m.alias[k] = 0
    <3>1. LET N == [m EXCEPT !.etw[k] = e, !.alias[k] = k]
          IN  Agree(N) /\ NoNew(m, N)
      BY <1>2, <1>4, <1>5, <2>2, NewRecordAgrees DEF k
    <3>2. QED
      BY <2>2, <3>1
  <2>3. QED
    BY <2>1, <2>2
<1> HIDE DEF R
<1>7. QED
  BY <1>1, <1>6, EtwStep

LEMMA OnEtwObjectAddressKeeps ==
  ASSUME Inv, OnEtwObjectAddress
  PROVE  Inv'
<1> DEFINE k == m.alias[Head(etwq).lib]
           p == obj[Head(etwq).id].addr
           old == m.byAddr[p]
           R == IF k = 0 \/ m.etw[k].address # NoAddr THEN m
                ELSE IF old \notin {0, k} /\ m.etw[old] # NoObj
                        /\ m.etw[old].type = m.etw[k].type
                THEN MergeInto(m, old, k)
                ELSE TakeAddress(m, k, p)
<1>1. /\ Record("address") /\ m' = R /\ UNCHANGED <<game, pipeq>> /\ UNCHANGED poll
  BY DEF OnEtwObjectAddress, FindEtw
<1>2. TypesOK /\ Game /\ Agree(m) /\ m \in Models /\ Indexes(m)
  BY DEF Inv, Agree
<1>3. Head(etwq) \in Records /\ Begun(Head(etwq).id)
  BY <1>1, FirstRecord
<1>4. Head(etwq).lib \in Libs /\ p \in plan.addrs
  BY <1>2, <1>3 DEF Records, Game
<1>5. k \in {0} \union Libs /\ old \in {0} \union Libs
  BY <1>2, <1>4, Fields
<1>6. k # 0 => k \in Libs /\ KnownIn(m, k)
  BY <1>2, <1>4, <1>5 DEF Indexes, Aliases
<1>7. old # 0 => old \in Libs /\ KnownIn(m, old) /\ m.etw[old].address = p /\ p # NoAddr
  BY <1>2, <1>4, <1>5, Numbers DEF Indexes, Addresses
<1> HIDE DEF k, old, p
<1>8. Agree(R) /\ NoNew(m, R)
  <2>1. CASE k = 0 \/ m.etw[k].address # NoAddr
    BY <1>2, <2>1, NothingNew
  <2>2. CASE /\ ~(k = 0 \/ m.etw[k].address # NoAddr)
             /\ old \notin {0, k} /\ m.etw[old] # NoObj /\ m.etw[old].type = m.etw[k].type
    <3>1. /\ k \in Libs /\ KnownIn(m, k) /\ m.etw[k].address = NoAddr
          /\ old \in Libs /\ KnownIn(m, old) /\ old # k /\ m.etw[old].address # NoAddr
      BY <1>6, <1>7, <2>2
    <3>2. Agree(MergeInto(m, old, k)) /\ NoNew(m, MergeInto(m, old, k))
      BY <1>2, <3>1, MergeIntoAgrees
    <3>3. QED
      BY <2>2, <3>2
  <2>3. CASE /\ ~(k = 0 \/ m.etw[k].address # NoAddr)
             /\ ~(old \notin {0, k} /\ m.etw[old] # NoObj /\ m.etw[old].type = m.etw[k].type)
    <3>1. k \in Libs /\ KnownIn(m, k) /\ m.etw[k].address = NoAddr
      BY <1>6, <2>3
    <3>2. Agree(TakeAddress(m, k, p)) /\ NoNew(m, TakeAddress(m, k, p))
      BY <1>2, <1>4, <3>1, TakeAddressAgrees
    <3>3. QED
      BY <2>3, <3>2
  <2>4. QED
    BY <2>1, <2>2, <2>3
<1> HIDE DEF R
<1>9. QED
  BY <1>1, <1>8, EtwStep

LEMMA OnEtwObjectDestroyedKeeps ==
  ASSUME Inv, OnEtwObjectDestroyed
  PROVE  Inv'
<1> DEFINE k == m.alias[Head(etwq).lib]
           R == IF k = 0 THEN m ELSE Forget(m, k)
<1>1. /\ Record("destroy") /\ m' = R /\ UNCHANGED <<game, pipeq>> /\ UNCHANGED poll
  BY DEF OnEtwObjectDestroyed, FindEtw, AllIds, Forget
<1>2. TypesOK /\ Agree(m) /\ m \in Models /\ Indexes(m)
  BY DEF Inv, Agree
<1>3. Head(etwq) \in Records
  BY <1>1, FirstRecord
<1>4. k # 0 => k \in Libs /\ KnownIn(m, k)
  <2>1. Head(etwq).lib \in Libs
    BY <1>3 DEF Records
  <2>2. k \in {0} \union Libs
    BY <1>2, <2>1, Fields
  <2>3. QED
    BY <1>2, <2>1, <2>2 DEF Indexes, Aliases
<1> HIDE DEF k
<1>5. Agree(R) /\ NoNew(m, R)
  <2>1. CASE k = 0
    BY <1>2, <2>1, NothingNew
  <2>2. CASE k # 0
    <3>1. Agree(Forget(m, k)) /\ NoNew(m, Forget(m, k))
      BY <1>2, <1>4, <2>2, ForgetAgrees
    <3>2. QED
      BY <2>2, <3>1
  <2>3. QED
    BY <2>1, <2>2
<1> HIDE DEF R
<1>6. QED
  BY <1>1, <1>5, EtwStep

LEMMA OnEtwGroupChangesKeeps ==
  ASSUME Inv, OnEtwGroupChanges
  PROVE  Inv'
<1> DEFINE k == m.alias[Head(etwq).lib]
           g == Head(etwq).group
<1>1. /\ Record("group") /\ UNCHANGED <<game, pipeq>>
      /\ m' = m \/ (k # 0 /\ m' = ApplyGroup(m, k, g))
      /\ PollChildLocked \/ UNCHANGED poll
  BY DEF OnEtwGroupChanges, FindEtw, AfterChildExitLocked
<1>2. TypesOK /\ Game /\ Agree(m) /\ m \in Models /\ Indexes(m)
  BY DEF Inv, Agree
<1>3. Head(etwq) \in Records
  BY <1>1, FirstRecord
<1>4. g \in Locs /\ (k # 0 => k \in Libs /\ KnownIn(m, k))
  <2>1. Head(etwq).lib \in Libs /\ g \in Locs
    BY <1>3 DEF Records
  <2>2. k \in {0} \union Libs
    BY <1>2, <2>1, Fields
  <2>3. QED
    BY <1>2, <2>1, <2>2 DEF Indexes, Aliases
<1> HIDE DEF k, g
<1>5. CASE m' = m
  BY <1>1, <1>2, <1>5, NothingNew, EtwStep
<1>6. CASE k # 0 /\ m' = ApplyGroup(m, k, g)
  <2>1. Agree(ApplyGroup(m, k, g)) /\ NoNew(m, ApplyGroup(m, k, g))
    BY <1>2, <1>4, <1>6, ApplyGroupAgrees
  <2>2. QED
    BY <1>1, <1>6, <2>1, EtwStep
<1>7. QED
  BY <1>1, <1>5, <1>6

LEMMA PipeCreatedKeeps ==
  ASSUME Inv, PipeCreated
  PROVE  Inv'
<1> DEFINE i == Head(pipeq).id
<1>1. /\ pipeq # <<>> /\ Head(pipeq).op = "created" /\ pipeq' = Tail(pipeq)
      /\ m' = Create(m, i)
      /\ UNCHANGED game /\ etwq' = etwq /\ UNCHANGED poll
  BY DEF PipeCreated, Create, Unset
<1>2. TypesOK /\ Game /\ Feed /\ Exit /\ Agree(m)
  BY DEF Inv
<1>3. /\ pipeq \in Seq(Messages) /\ Tail(pipeq) \in Seq(Messages)
      /\ Head(pipeq) \in Messages /\ Head(pipeq) = pipeq[1] /\ 1 \in DOMAIN pipeq
  BY <1>1, <1>2, TailOf DEF TypesOK
<1>4. i \in Ids /\ Creates(1, i)
  BY <1>1, <1>3 DEF Messages, Creates
<1> HIDE DEF i
<1>5. Begun(i) /\ ~In(m, i) /\ \A c \in Ids : ChildOf(c, i) => ~In(m, c)
  BY <1>2, <1>3, <1>4 DEF Feed, Begun, In
<1>6. /\ Agree(Create(m, i))
      /\ \A j \in Ids : In(Create(m, i), j) => In(m, j) \/ j = i
  BY <1>2, <1>4, <1>5, CreateAgrees
<1>7. Feed'
  <2>1. \A j \in Ids : In(m, j)' => In(m, j) \/ Creates(1, j)
    BY <1>1, <1>4, <1>6 DEF In
  <2>2. QED
    BY <1>1, <1>2, <2>1, FeedDrained
<1>8. Exit' /\ aliveTs' \in Stamps /\ exiting' \in BOOLEAN
  BY <1>1, <1>2, PollKeepsExit
<1>9. QED
  BY <1>1, <1>3, <1>6, <1>7, <1>8, HandlerStep

LEMMA PipeDestroyedKeeps ==
  ASSUME Inv, PipeDestroyed
  PROVE  Inv'
<1> DEFINE i == Head(pipeq).id
           ts == Head(pipeq).ts
           R == IF m.live[i] = NoObj THEN m ELSE Destroy(m, i, ts)
<1>1. /\ pipeq # <<>> /\ pipeq' = Tail(pipeq)
      /\ m' = R
      /\ UNCHANGED game /\ etwq' = etwq /\ UNCHANGED poll
  BY DEF PipeDestroyed, Destroy
<1>2. TypesOK /\ Game /\ Feed /\ Exit /\ Agree(m)
  BY DEF Inv
<1>3. /\ pipeq \in Seq(Messages) /\ Tail(pipeq) \in Seq(Messages)
      /\ Head(pipeq) \in Messages
  BY <1>1, <1>2, TailOf DEF TypesOK
<1>4. i \in Ids /\ ts \in Stamps
  BY <1>3 DEF Messages
<1> HIDE DEF i, ts
<1>5. Agree(R) /\ NoNew(m, R)
  <2>1. CASE m.live[i] = NoObj
    BY <1>2, <2>1, NothingNew
  <2>2. CASE m.live[i] # NoObj
    <3>1. In(m, i)
      BY <2>2 DEF In
    <3>2. Agree(Destroy(m, i, ts)) /\ NoNew(m, Destroy(m, i, ts))
      BY <1>2, <1>4, <3>1, DestroyAgrees
    <3>3. QED
      BY <2>2, <3>2
  <2>3. QED
    BY <2>1, <2>2
<1> HIDE DEF R
<1>6. Feed'
  <2>1. \A j \in Ids : In(m, j)' => In(m, j) \/ Creates(1, j)
    BY <1>1, <1>5 DEF In, NoNew
  <2>2. QED
    BY <1>1, <1>2, <2>1, FeedDrained
<1>7. Exit' /\ aliveTs' \in Stamps /\ exiting' \in BOOLEAN
  BY <1>1, <1>2, PollKeepsExit
<1>8. QED
  BY <1>1, <1>3, <1>5, <1>6, <1>7, HandlerStep

\* The main thread's steps touch neither feed.
LEMMA TickStep ==
  ASSUME Inv, NEW R, Agree(R), NoNew(m, R), m' = R, UNCHANGED game,
         pipeq' = pipeq, etwq' = etwq, PollChildLocked \/ UNCHANGED poll
  PROVE  Inv'
<1>1. TypesOK /\ Feed /\ Exit /\ pipeq \in Seq(Messages)
  BY DEF Inv, TypesOK
<1>2. Exit' /\ aliveTs' \in Stamps /\ exiting' \in BOOLEAN
  BY <1>1, PollKeepsExit
<1>3. \A j \in Ids : In(m, j)' => In(m, j)
  BY DEF NoNew, In
<1>4. Feed'
  BY <1>1, <1>3, FeedSame
<1>5. QED
  BY <1>1, <1>2, <1>4, HandlerStep

LEMMA ForgetDeadKeeps ==
  ASSUME Inv, ForgetDead
  PROVE  Inv'
<1> DEFINE R == [m EXCEPT !.dead = [p \in plan.addrs |-> Recent(m.dead[p])]]
<1>1. m' = R /\ UNCHANGED game /\ pipeq' = pipeq /\ etwq' = etwq /\ UNCHANGED poll
  BY DEF ForgetDead, feeds
<1>2. TypesOK /\ Agree(m)
  BY DEF Inv
<1>3. Agree(R) /\ NoNew(m, R)
  BY <1>2, ForgetDeadAgrees
<1> HIDE DEF R
<1>4. QED
  BY <1>1, <1>3, TickStep

LEMMA PollChildKeeps ==
  ASSUME Inv, PollChild
  PROVE  Inv'
<1>1. /\ m' = m /\ UNCHANGED game /\ pipeq' = pipeq /\ etwq' = etwq
      /\ PollChildLocked
  BY DEF PollChild, feeds
<1>2. Agree(m) /\ NoNew(m, m)
  BY NothingNew DEF Inv
<1>3. QED
  BY <1>1, <1>2, TickStep

LEMMA StutterKeeps ==
  ASSUME Inv, UNCHANGED vars
  PROVE  Inv'
<1>1. m' = m /\ UNCHANGED game /\ pipeq' = pipeq /\ etwq' = etwq /\ UNCHANGED poll
  BY DEF vars, feeds
<1>2. Agree(m) /\ NoNew(m, m)
  BY NothingNew DEF Inv
<1>3. QED
  BY <1>1, <1>2, TickStep

LEMMA EtwLoseKeeps ==
  ASSUME Inv, EtwLose
  PROVE  Inv'
<1>1. /\ etwq # <<>> /\ left.lost > 0 /\ etwq' = Tail(etwq)
      /\ left' = [left EXCEPT !.lost = @ - 1]
      /\ plan' = plan /\ behind' = behind /\ now' = now /\ obj' = obj /\ nlib' = nlib
      /\ exitAt' = exitAt /\ pipeq' = pipeq /\ m' = m /\ UNCHANGED poll
  BY DEF EtwLose
<1>2. /\ TypesOK /\ Game /\ now \in Nat /\ nlib \in Nat /\ left \in Plan
      /\ obj \in [Ids -> Objects] /\ pipeq \in Seq(Messages) /\ etwq \in Seq(Records)
  BY DEF Inv, TypesOK
<1>3. /\ Ids' = Ids /\ Objects \subseteq Objects' /\ Seq(Messages) \subseteq Seq(Messages')
      /\ Seq(Records) \subseteq Seq(Records')
  BY <1>1, <1>2, TypesGrow
<1>4. Same
  <2>1. \A i \in Ids : obj[i].phase \in {"new", "made", "sent", "dying", "gone"}
    BY <1>2 DEF Objects
  <2>2. QED
    BY <1>1, <1>2, <2>1 DEF Same, Kept, Begun
<1>5. obj' \in [Ids -> Objects'] /\ pipeq' \in Seq(Messages')
  BY <1>1, <1>2, <1>3
<1>6. left' \in Plan /\ nlib' - nlib = left.reports - left'.reports /\ nlib' \in Nat
  <2>1. left.lost \in Nat /\ left.lost - 1 \in Nat /\ left.reports \in Nat
    BY <1>1, <1>2 DEF Plan
  <2>2. left' \in Plan /\ left'.reports = left.reports
    BY <1>1, <1>2, <2>1 DEF Plan
  <2>3. QED
    BY <1>1, <1>2, <2>1, <2>2
<1>7. /\ etwq' \in Seq(Records')
      /\ \A n \in DOMAIN etwq' : etwq'[n].id \in Ids /\ Begun(etwq'[n].id)
  <2>1. /\ Tail(etwq) \in Seq(Records)
        /\ \A n \in DOMAIN Tail(etwq) : n + 1 \in DOMAIN etwq /\ Tail(etwq)[n] = etwq[n + 1]
    BY <1>1, <1>2, TailOf
  <2>2. \A n \in DOMAIN etwq : etwq[n].id \in Ids /\ Begun(etwq[n].id)
    <3>1. \A n \in DOMAIN etwq : etwq[n] \in Records
      BY <1>2
    <3>2. QED
      BY <1>2, <3>1 DEF Game, Records
  <2>3. QED
    BY <1>1, <1>3, <2>1, <2>2
<1>8. \A n \in DOMAIN pipeq', i \in Ids : Creates(n, i)' => n \in DOMAIN pipeq /\ Creates(n, i)
  BY <1>1 DEF Creates
<1>9. QED
  BY <1>1, <1>4, <1>5, <1>6, <1>7, <1>8, GameStep

LEMMA NextKeeps == Inv /\ [Next]_vars => Inv'
<1> SUFFICES ASSUME Inv, [Next]_vars
             PROVE  Inv'
  OBVIOUS
<1>1. CASE UNCHANGED vars
  BY <1>1, StutterKeeps
<1>2. ASSUME NEW i \in Ids, NEW p \in plan.addrs, NEW h \in Ids, Construct(i, p, h)
      PROVE  Inv'
  BY <1>2, ConstructKeeps
<1>3. ASSUME NEW i \in Ids, SendCreated(i) \/ SendDestroyed(i)
      PROVE  Inv'
  BY <1>3, SendCreatedKeeps, SendDestroyedKeeps
<1>4. ASSUME NEW i \in Ids, Release(i) \/ Drop(i) \/ RuntimeFree(i)
      PROVE  Inv'
  BY <1>4, ReleaseKeeps, DropKeeps, RuntimeFreeKeeps
<1>5. ASSUME NEW i \in Ids, Rereport(i) \/ MoveGroup(i)
      PROVE  Inv'
  BY <1>5, RereportKeeps, MoveGroupKeeps
<1>6. CASE ChildExit
  BY <1>6, ChildExitKeeps
<1>7. CASE PipeCreated \/ PipeDestroyed
  BY <1>7, PipeCreatedKeeps, PipeDestroyedKeeps
<1>8. CASE OnEtwObjectCreated \/ OnEtwObjectAddress \/ OnEtwObjectDestroyed
  BY <1>8, OnEtwObjectCreatedKeeps, OnEtwObjectAddressKeeps, OnEtwObjectDestroyedKeeps
<1>9. CASE OnEtwGroupChanges \/ EtwLose
  BY <1>9, OnEtwGroupChangesKeeps, EtwLoseKeeps
<1>10. CASE PollChild \/ ForgetDead
  BY <1>10, PollChildKeeps, ForgetDeadKeeps
<1>11. QED
  BY <1>1, <1>2, <1>3, <1>4, <1>5, <1>6, <1>7, <1>8, <1>9, <1>10 DEF Next

LEMMA InitHolds == Init => Inv
<1> SUFFICES ASSUME Init
             PROVE  Inv
  OBVIOUS
<1>1. plan \in Plan /\ plan.reports \in Nat /\ Len(plan.kinds) \in Nat
      /\ Ids = 1 .. Len(plan.kinds) /\ Ids \subseteq Nat
  BY JoinConstants DEF Init, Plan, Ids
<1>2. /\ now = 0 /\ nlib = 0 /\ exitAt = 0 /\ aliveTs = 0 /\ exiting = FALSE
      /\ plan \in Plans /\ behind \in BOOLEAN /\ left = plan
      /\ pipeq = <<>> /\ etwq = <<>>
      /\ obj = [i \in Ids |-> Object]
  BY JoinConstants DEF Init
<1>3. Stamps = {0}
  BY <1>2 DEF Stamps
<1>4. Object \in Objects
  BY <1>3 DEF Object, Objects, Locs
<1>5. /\ m.live = [i \in Ids |-> NoObj] /\ m.bytes = 0 /\ m.loc = [l \in Locs |-> 0]
      /\ m.ptr = [p \in plan.addrs |-> 0] /\ m.dead = [p \in plan.addrs |-> <<>>]
      /\ m.children = [i \in Ids |-> {}] /\ m.etw = [k \in Libs |-> NoObj]
      /\ m.alias = [k \in Libs |-> 0] /\ m.byAddr = [p \in plan.addrs |-> 0]
      /\ m \in Models
  <2>1. /\ [i \in Ids |-> NoObj] \in [Ids -> {NoObj} \union LiveRecords]
        /\ [l \in Locs |-> 0] \in [Locs -> Nat]
        /\ [p \in plan.addrs |-> 0] \in [plan.addrs -> {0} \union Ids]
        /\ [p \in plan.addrs |-> 0] \in [plan.addrs -> {0} \union Libs]
        /\ [p \in plan.addrs |-> <<>>] \in [plan.addrs -> Seq(Tombs)]
        /\ [i \in Ids |-> {}] \in [Ids -> SUBSET Ids]
        /\ [k \in Libs |-> NoObj] \in [Libs -> {NoObj} \union EtwRecords]
        /\ [k \in Libs |-> 0] \in [Libs -> {0} \union Libs]
    OBVIOUS
  <2>2. m = [live     |-> [i \in Ids |-> NoObj],
             bytes    |-> 0,
             loc      |-> [l \in Locs |-> 0],
             ptr      |-> [p \in plan.addrs |-> 0],
             dead     |-> [p \in plan.addrs |-> <<>>],
             children |-> [i \in Ids |-> {}],
             etw      |-> [k \in Libs |-> NoObj],
             alias    |-> [k \in Libs |-> 0],
             byAddr   |-> [p \in plan.addrs |-> 0]]
    BY DEF Init
  <2>3. QED
    BY <2>1, <2>2 DEF Models
<1>6. TypesOK
  <2>1. /\ plan \in Plans /\ behind \in BOOLEAN /\ exiting \in BOOLEAN /\ left \in Plan
        /\ now \in Nat /\ nlib \in Nat /\ exitAt \in Stamps /\ aliveTs \in Stamps
    BY <1>1, <1>2, <1>3
  <2>2. obj \in [Ids -> Objects]
    BY <1>2, <1>4
  <2>3. pipeq \in Seq(Messages) /\ etwq \in Seq(Records)
    BY <1>2
  <2>4. QED
    BY <1>5, <2>1, <2>2, <2>3 DEF TypesOK
<1>7. \A i \in Ids : ~In(m, i) /\ ~Begun(i)
  BY <1>2, <1>5 DEF In, Begun, Object
<1>8. \A k \in Libs : ~KnownIn(m, k)
  BY <1>5 DEF KnownIn
<1>9. Game
  <2>1. {i \in Ids : Begun(i)} = {}
    BY <1>7
  <2>2. Cardinality({i \in Ids : Begun(i)}) = 0
    BY <2>1, FS_EmptySet
  <2>3. nlib = Cardinality({i \in Ids : Begun(i)}) + plan.reports - left.reports
    BY <1>1, <1>2, <2>2
  <2>4. \A i \in Ids : obj[i].made = 0 /\ obj[i].parent = 0
    BY <1>2 DEF Object
  <2>5. QED
    BY <1>2, <1>7, <2>3, <2>4 DEF Game
<1>10. Feed
  BY <1>2, <1>7 DEF Feed, In
<1>11. Exit
  BY <1>2 DEF Exit, Running
<1>12. Bindings(m) /\ Real(m) /\ Follows(m)
  BY <1>7, <1>8 DEF Bindings, Real, Follows
<1>13. Capped(m)
  BY <1>5, JoinConstants DEF Capped
<1>14. Indexes(m)
  BY <1>5, <1>7, <1>8 DEF Indexes, Pointers, Aliases, Addresses, Children
<1>15. Totals(m, {})
  <2>1. {i \in Ids : In(m, i)} = {} /\ \A l \in Locs : At(m, l, {}) = {}
    BY <1>7 DEF At
  <2>2. SumSet({}) = 0
    BY SumSetEquation, FS_EmptySet
  <2>3. QED
    BY <1>5, <2>1, <2>2 DEF Totals
<1>16. QED
  BY <1>5, <1>6, <1>9, <1>10, <1>11, <1>12, <1>13, <1>14, <1>15 DEF Inv, Agree

\* The inductive invariant holds in every state of every game.
THEOREM AlwaysInv == Spec => []Inv
<1>1. QED
  BY InitHolds, NextKeeps, PTL DEF Spec

-----------------------------------------------------------------------------
(* The theorems.                                                           *)

LEMMA InvTypeOK == Inv => TypeOK
<1> SUFFICES ASSUME Inv
             PROVE  TypeOK
  OBVIOUS
<1>1. TypesOK /\ Capped(m) /\ m \in Models
  BY DEF Inv, Agree
<1>2. plan.addrs \subseteq Addrs
  BY <1>1, Numbers
<1>3. obj \in [Ids -> [phase : {"new", "made", "sent", "dying", "gone"},
                       addr : Addrs \union {NoAddr}, parent : {0} \union Ids,
                       made : Stamps, dropped : Stamps, freed : Stamps,
                       died : Stamps, group : Locs, libs : SUBSET Libs]]
  <2> DEFINE O == [phase : {"new", "made", "sent", "dying", "gone"},
                   addr : Addrs \union {NoAddr}, parent : {0} \union Ids,
                   made : Stamps, dropped : Stamps, freed : Stamps,
                   died : Stamps, group : Locs, libs : SUBSET Libs]
  <2>1. Objects \subseteq O
    BY <1>2 DEF Objects
  <2>2. obj \in [Ids -> Objects]
    BY <1>1 DEF TypesOK
  <2> HIDE DEF O
  <2>3. obj \in [Ids -> O]
    BY <2>1, <2>2
  <2>4. QED
    BY <2>3 DEF O
<1>4. \A k \in Known : m.etw[k] \in
        [type : Types, address : Addrs \union {NoAddr}, group : Locs, created : Stamps,
         bound : {0} \union Ids, orphan : BOOLEAN, aliases : SUBSET Libs, obj : Ids]
  <2> SUFFICES ASSUME NEW k \in Known
               PROVE  m.etw[k] \in
                 [type : Types, address : Addrs \union {NoAddr}, group : Locs, created : Stamps,
                  bound : {0} \union Ids, orphan : BOOLEAN, aliases : SUBSET Libs, obj : Ids]
    OBVIOUS
  <2>1. m.etw[k] \in EtwRecords
    BY <1>1, Fields DEF Known, KnownIn
  <2>2. QED
    BY <1>2, <2>1 DEF EtwRecords
<1>5. /\ m.live \in [Ids -> {NoObj} \union [prev : Stamps, key : {0} \union Libs,
                                            own : Locs, eff : Locs]]
      /\ m.loc \in [Locs -> Nat] /\ m.bytes \in Nat
      /\ m.ptr \in [plan.addrs -> {0} \union Ids]
      /\ m.children \in [Ids -> SUBSET Ids]
      /\ m.alias \in [Libs -> {0} \union Libs]
      /\ m.byAddr \in [plan.addrs -> {0} \union Libs]
  <2>1. m.live \in [Ids -> {NoObj} \union LiveRecords]
    BY <1>1, Fields
  <2>2. QED
    BY <1>1, <2>1, Fields DEF LiveRecords
<1>6. \A a \in plan.addrs : Len(m.dead[a]) <= DeadCap
  BY <1>1 DEF Capped
<1>7. QED
  BY <1>1, <1>3, <1>4, <1>5, <1>6 DEF TypeOK, TypesOK

\* Every component of the Model and of the game keeps its type, in every game
\* of any plan; the graveyard of an address never grows past kDeadPerAddress.
THEOREM TypeCorrect == Spec => []TypeOK
<1>1. QED
  BY AlwaysInv, InvTypeOK, PTL

\* What etw_key and bound_id say of each other after any interleaving of the
\* pipe thread and the ETW thread: neither end of a binding is ever left
\* naming what has gone (Model.cpp:652-661, 775-782, 843-866, 884-899).
THEOREM BindingsCorrect == Spec => []BindingsAgree
<1>1. Inv => BindingsAgree
  BY DEF Inv, Agree, Bindings, BindingsAgree, Live, Known, In, KnownIn
<1>2. QED
  BY <1>1, AlwaysInv, PTL

\* None of the Model's indexes keeps an entry for what has gone, and the
\* children of a heap are exactly its live placed resources.
THEOREM IndexesCorrect == Spec => []IndexesAgree
<1>1. Inv => IndexesAgree
  <2> SUFFICES ASSUME Inv
               PROVE  IndexesAgree
    OBVIOUS
  <2>1. Pointers(m) /\ Aliases(m) /\ Addresses(m) /\ Children(m) /\ Real(m) /\ m \in Models
    BY DEF Inv, Agree, Indexes
  <2>2. \A p \in plan.addrs : m.ptr[p] # 0 =>
          m.live[m.ptr[p]] # NoObj /\ obj[m.ptr[p]].addr = p
    BY <2>1 DEF Pointers, In
  <2>3. \A k \in Libs : m.alias[k] # 0 =>
          m.etw[m.alias[k]] # NoObj /\ k \in m.etw[m.alias[k]].aliases \union {m.alias[k]}
    BY <2>1 DEF Aliases, KnownIn
  <2>4. \A k \in Known : \A a \in m.etw[k].aliases \union {k} : m.alias[a] = k
    BY <2>1 DEF Aliases, KnownIn, Known
  <2>5. \A p \in plan.addrs : m.byAddr[p] # 0 =>
          m.etw[m.byAddr[p]] # NoObj /\ m.etw[m.byAddr[p]].address = p
    BY <2>1 DEF Addresses, KnownIn
  <2>6. \A h \in Ids : m.live[h] # NoObj =>
          m.children[h] = {i \in Live : Placed(i) /\ obj[i].parent = h}
    <3> SUFFICES ASSUME NEW h \in Ids, In(m, h)
                 PROVE  m.children[h] = {i \in Live : Placed(i) /\ obj[i].parent = h}
      BY DEF In
    <3>1. \A i \in Live : i \in Ids /\ In(m, i) /\ Begun(i)
      BY <2>1 DEF Live, In, Real
    <3>2. QED
      BY <2>1, <3>1 DEF Children, ChildOf, Live, In
  <2>7. QED
    BY <2>2, <2>3, <2>4, <2>5, <2>6 DEF IndexesAgree
<1>2. QED
  BY <1>1, AlwaysInv, PTL

\* live_bytes is the sum of the sizes of the live objects, and loc_bytes of a
\* location that of those it has: MoveLoc, AddLoc and SubLoc balance over every
\* bind, re-report, group change, creation and death, of a heap with its placed
\* resources too, and no subtraction is cut off at zero.
THEOREM TotalsCorrect == Spec => []TotalsMatch
<1>1. Inv => TotalsMatch
  <2> SUFFICES ASSUME Inv
               PROVE  TotalsMatch
    OBVIOUS
  <2>1. Totals(m, {})
    BY DEF Inv, Agree
  <2>2. {Size(i) : i \in Live} = {i \in Ids : In(m, i)}
    BY DEF Size, Live, In
  <2>3. \A l \in Locs :
          {Size(i) : i \in {j \in Live : HasMemory(j) /\ m.live[j].eff = l}} = At(m, l, {})
    BY DEF Size, Live, In, At
  <2>4. QED
    BY <2>1, <2>2, <2>3 DEF Totals, TotalsMatch
<1>2. QED
  BY <1>1, AlwaysInv, PTL

\* eff is never stale: RecomputeLoc, RecomputeChildren and OrphanChildren run
\* wherever the own location of an object or of its heap changes.
THEOREM LocationsCorrect == Spec => []LocationsFollowHeaps
<1>1. Inv => LocationsFollowHeaps
  BY DEF Inv, Agree, Follows, LocationsFollowHeaps, Live, In
<1>2. QED
  BY <1>1, AlwaysInv, PTL

LEMMA LateGroupIgnored ==
  ASSUME Inv, [Next]_vars, etwq # <<>>, Head(etwq).op = "group", etwq' = Tail(etwq),
         exitAt # 0, Head(etwq).ts > exitAt
  PROVE  m' = m
<1>1. etwq \in Seq(Records) /\ TypesOK /\ Exit
  BY DEF Inv, TypesOK
<1>2. etwq' # etwq /\ Head(etwq) \in Records
  BY <1>1, TailOf
<1>3. CASE UNCHANGED vars
  BY <1>3 DEF vars
<1>4. ASSUME NEW i \in Ids, NEW p \in plan.addrs, NEW h \in Ids, Construct(i, p, h)
      PROVE  m' = m
  BY <1>4 DEF Construct
<1>5. ASSUME NEW i \in Ids, SendCreated(i) \/ SendDestroyed(i)
      PROVE  m' = m
  BY <1>5 DEF SendCreated, SendDestroyed
<1>6. ASSUME NEW i \in Ids, Release(i) \/ Drop(i) \/ RuntimeFree(i)
      PROVE  m' = m
  BY <1>6 DEF Release, Drop, RuntimeFree
<1>7. ASSUME NEW i \in Ids, Rereport(i) \/ MoveGroup(i)
      PROVE  m' = m
  BY <1>7 DEF Rereport, MoveGroup
<1>8. CASE ChildExit \/ EtwLose \/ PollChild
  BY <1>8 DEF ChildExit, EtwLose, PollChild
<1>9. CASE PipeCreated \/ PipeDestroyed \/ ForgetDead
  BY <1>2, <1>9 DEF PipeCreated, PipeDestroyed, ForgetDead, feeds
<1>10. CASE OnEtwObjectCreated \/ OnEtwObjectAddress \/ OnEtwObjectDestroyed
  BY <1>10 DEF OnEtwObjectCreated, OnEtwObjectAddress, OnEtwObjectDestroyed, Record
<1>11. CASE OnEtwGroupChanges
  <2> DEFINE r == Head(etwq)
  <2>1. /\ AfterChildExitLocked(r.ts)
        /\ exiting' /\ r.ts > aliveTs' => m' = m
    BY <1>11 DEF OnEtwGroupChanges
  <2>2. /\ aliveTs \in Nat /\ exitAt \in Nat /\ r.ts \in Nat /\ aliveTs <= exitAt
        /\ exiting \in BOOLEAN
    BY <1>1, <1>2, Numbers DEF TypesOK, Exit, Records
  <2> HIDE DEF r
  <2>3. r.ts > aliveTs /\ ~Running
    BY <2>2 DEF r, Running
  <2>4. exiting' /\ aliveTs' = aliveTs
    BY <2>1, <2>2, <2>3 DEF AfterChildExitLocked, PollChildLocked, poll
  <2>5. QED
    BY <2>1, <2>3, <2>4
<1>12. QED
  BY <1>3, <1>4, <1>5, <1>6, <1>7, <1>8, <1>9, <1>10, <1>11 DEF Next

\* A segment-group change stamped after the exit code of the game was set
\* changes nothing of the Model, on whichever thread notices the exit first:
\* AfterChildExitLocked samples it before ApplyGroup (Model.cpp, OnEtwGroupChanges).
THEOREM TeardownCorrect == Spec => TeardownIgnored
<1>1. Inv /\ [Next]_vars =>
        [ etwq # <<>> /\ Head(etwq).op = "group" /\ etwq' = Tail(etwq)
          /\ exitAt # 0 /\ Head(etwq).ts > exitAt => UNCHANGED m ]_vars
  BY LateGroupIgnored
<1>2. QED
  BY <1>1, AlwaysInv, PTL DEF Spec, TeardownIgnored

=============================================================================
