------------------------------ MODULE WalkProofs ------------------------------
(***************************************************************************)
(* Proofs about the bookkeeping of Walk, for every page table, every set   *)
(* of tasks and every value of the limits: the outstanding counter stands  *)
(* for the tasks in the PTW, and a group waits for the prefetch walks that *)
(* still run.  What the walks read and return is left to TLC: it is        *)
(* defined by recursion down a page table.                                 *)
(***************************************************************************)
EXTENDS Walk, FiniteSetTheorems, TLAPS

-----------------------------------------------------------------------------
(* The invariant.                                                           *)

Fields == {"ph", "io", "addr", "n", "buf", "ad", "front", "lev", "base", "l0", "hit",
           "ents", "glev", "s2hit", "s2ents", "gpa", "pa", "psz", "gsz", "msi", "depth"}
GroupFields == {"st", "pend", "main", "fault", "huge", "bypass", "slots"}
Stations == Phases \union {"idle", "routed", "queued", "ended"}

\* The fields of a walk on which its bookkeeping depends.
WellFormed(w) ==
  /\ Fields \subseteq DOMAIN w
  /\ w.ph \in Stations
  /\ w.io \in {"none", "sent", "back"}
  /\ w.n \in 0..s.depth + 1 /\ w.depth \in 0..s.depth
  /\ w.lev \in 0..3 /\ w.glev \in 0..3 /\ w.psz \in 0..3 /\ w.gsz \in 0..3
  /\ w.front.h \in 0..3
  /\ \A e \in w.ents \union w.s2ents : e[1] \in 1..3

GroupFormed(g) ==
  /\ GroupFields \subseteq DOMAIN g
  /\ g.st \in {"none", "open", "taken"}
  /\ g.pend \in 0..s.depth
  /\ g.main \in BOOLEAN /\ g.fault \in BOOLEAN

\* Lines of the walker cache, and on their way to it.
LinesFormed ==
  /\ \A u \in upd : u[1] \in {"vs", "s2"} /\ u[2].h \in 1..3
  /\ \A e \in wc \union s2 : e.h \in 1..3

\* A prefetch reads its own PTE only in two stages.
PrefetchPhase(i, w) == w.ph = "VS_PTE_READ" => i[2] > 0 /\ TwoStage

Typed ==
  /\ s \in Scenarios /\ outstanding \in Int
  /\ LinesFormed
  /\ DOMAIN walks = Ids /\ DOMAIN groups = Tasks
  /\ \A i \in Ids : WellFormed(walks[i]) /\ PrefetchPhase(i, walks[i])
  /\ \A t \in Tasks : GroupFormed(groups[t])

\* A group and its main walk: a group waits for its main walk, or that walk is
\* over; and before there is a group no prefetch of the task runs.
Running(t) == {d \in 1..s.depth : walks[<<t, d>>].ph \in Phases}
InStep(t) ==
  /\ groups[t].st = "open" /\ ~groups[t].main => walks[<<t, 0>>].ph \in Phases
  /\ groups[t].st = "open" /\ groups[t].main => walks[<<t, 0>>].ph = "ended"
  /\ groups[t].st = "taken" => walks[<<t, 0>>].ph = "ended"
  /\ groups[t].st = "none" /\ walks[<<t, 0>>].ph # "ended" => Running(t) = {}

\* The tasks that hold a place of the PTW.
HasPlace(t) == walks[<<t, 0>>].ph \in Phases \union {"queued"} \/ groups[t].st = "open"
InPtw == {t \in Tasks : HasPlace(t)}
PlacesCounted ==
  IsFiniteSet(InPtw) /\ outstanding = Cardinality(InPtw) /\ outstanding <= MaxOutstanding

PendingCounted(t) ==
  groups[t].st = "open" /\ ~groups[t].fault => groups[t].pend = Cardinality(Running(t))

Books == PlacesCounted /\ \A t \in Tasks : InStep(t) /\ PendingCounted(t)

Inv == Typed /\ Books

-----------------------------------------------------------------------------
(* Scenarios, tables and lines.                                             *)

LEMMA ScenarioFacts ==
  ASSUME s \in Scenarios
  PROVE  /\ s.depth \in Nat
         /\ s.vtop \in {Bare, 2, 3} /\ s.gtop \in {Bare, 3}
         /\ TwoStage => s.gtop = 3
         /\ \A t \in Tasks : s.tasks[t].iova \in Nat
         /\ \A i \in Ids : Iova(i) \in Nat /\ i[1] \in Tasks /\ i[2] \in 0..s.depth
         /\ \A t \in Tasks : <<t, 0>> \in Ids
<1>1. /\ s.depth \in Nat
      /\ s.vtop \in {Bare, 2, 3} /\ s.gtop \in {Bare, 3}
      /\ \A t \in Tasks : s.tasks[t].iova \in Nat
  BY WalkAssumption DEF Tasks
<1>2. TwoStage => s.gtop = 3  BY <1>1 DEF TwoStage
<1>3. \A t \in Tasks : <<t, 0>> \in Ids  BY <1>1 DEF Ids
<1>4. ASSUME NEW i \in Ids PROVE Iova(i) \in Nat /\ i[1] \in Tasks /\ i[2] \in 0..s.depth
  <2>1. i[1] \in Tasks /\ i[2] \in 0..s.depth  BY DEF Ids
  <2>2. i[2] \in Nat  BY <2>1, <1>1
  <2> QED BY <2>1, <2>2, <1>1 DEF Iova, Task
<1> QED BY <1>1, <1>2, <1>3, <1>4

LEMMA MinOfTwo ==
  ASSUME NEW a \in Int, NEW b \in Int
  PROVE  Min({a, b}) \in {a, b} /\ Min({a, b}) <= a /\ Min({a, b}) <= b
<1>1. \E x \in {a, b} : \A y \in {a, b} : x <= y
  <2>1. a <= b \/ b <= a  OBVIOUS
  <2> QED BY <2>1
<1> QED BY <1>1 DEF Min

LEMMA MaxOfTwo ==
  ASSUME NEW a \in Int, NEW b \in Int
  PROVE  Max({a, b}) = IF a >= b THEN a ELSE b
<1>1. \E x \in {a, b} : \A y \in {a, b} : x >= y
  <2>1. a >= b \/ b >= a  OBVIOUS
  <2> QED BY <2>1
<1>2. Max({a, b}) \in {a, b} /\ Max({a, b}) >= a /\ Max({a, b}) >= b  BY <1>1 DEF Max
<1> QED BY <1>2

\* Prefetches never leave the last table.
LEMMA InTableRange ==
  ASSUME NEW page \in Nat, NEW depth \in Nat
  PROVE  InTable(page, depth) \in 0..depth
<1>1. Idx(page, 0) \in 0..Fan - 1  BY WalkAssumption DEF Idx
<1> DEFINE left == Fan - 1 - Idx(page, 0)
<1>2. left \in Nat  BY <1>1, WalkAssumption
<1>3. InTable(page, depth) = Min({depth, left})  BY DEF InTable
<1> HIDE DEF left
<1>4. Min({depth, left}) \in {depth, left} /\ Min({depth, left}) <= depth
  BY <1>2, MinOfTwo
<1> QED BY <1>2, <1>3, <1>4

\* A lookup answers with a line of the cache, or with none.
LEMMA LookupLine ==
  ASSUME NEW cache, \A e \in cache : e.h \in 1..3, NEW page
  PROVE  /\ Lookup(cache, page).h \in 0..3
         /\ Lookup(cache, page).leaf => Lookup(cache, page).h > 0
<1> DEFINE hits == {e \in cache : e.tag = page \div Fan^(4 - e.h)}
<1>1. CASE hits = {}  BY <1>1 DEF Lookup, NoLine
<1>2. CASE hits # {}
  <2>1. \A e \in hits : e.h \in 1..3  OBVIOUS
  <2> HIDE DEF hits
  <2>2. \E e \in hits : \A f \in hits : f.h <= e.h
    <3>1. CASE \E e \in hits : e.h = 3  BY <3>1, <2>1
    <3>2. CASE (\A e \in hits : e.h # 3) /\ \E e \in hits : e.h = 2  BY <3>2, <2>1
    <3>3. CASE \A e \in hits : e.h # 3 /\ e.h # 2  BY <3>3, <2>1, <1>2
    <3> QED BY <3>1, <3>2, <3>3
  <2>3. (CHOOSE e \in hits : \A f \in hits : f.h <= e.h) \in hits  BY <2>2
  <2>4. Lookup(cache, page) \in hits  BY <2>3, <1>2 DEF Lookup, hits
  <2>5. Lookup(cache, page).h \in 1..3  BY <2>4, <2>1
  <2> QED BY <2>5
<1> QED BY <1>1, <1>2

\* What an update writes are lines of the three sub tables.
LEMMA UpdateLines ==
  ASSUME NEW first, NEW entries, \A e \in entries : e[1] \in 1..3,
         NEW page, NEW size \in 0..3, NEW ppn
  PROVE  \A e \in UpdateFrom(first, entries, page, size, ppn) : e.h \in 1..3
<1>1. \A e \in entries : Line(e[1], page, e[2], FALSE).h \in 1..3  BY DEF Line
<1>2. size > 0 => Line(4 - size, page, Within(ppn, 0, size), TRUE).h \in 1..3  BY DEF Line
<1> QED BY <1>1, <1>2 DEF UpdateFrom

LEMMA VsLines ==
  ASSUME NEW w, WellFormed(w), NEW page
  PROVE  \A e \in VsUpdate(w, page) : e.h \in 1..3
<1>1. (\A e \in w.ents : e[1] \in 1..3) /\ w.psz \in 0..3  BY DEF WellFormed
<1> QED BY <1>1, UpdateLines DEF VsUpdate

LEMMA S2Lines ==
  ASSUME NEW w, WellFormed(w)
  PROVE  \A e \in S2Update(w) : e.h \in 1..3
<1>1. (\A e \in w.s2ents : e[1] \in 1..3) /\ w.gsz \in 0..3  BY DEF WellFormed
<1> QED BY <1>1, UpdateLines DEF S2Update

UpdatesFormed(u) == \A x \in u : x[1] \in {"vs", "s2"} /\ x[2].h \in 1..3

LEMMA UpdatesOf ==
  ASSUME NEW vs, NEW g, \A e \in vs \union g : e.h \in 1..3
  PROVE  UpdatesFormed(Updates(vs, g))
BY DEF Updates, UpdatesFormed

-----------------------------------------------------------------------------
(* How the handlers change a walk.                                          *)

LEMMA IdleWalk ==
  ASSUME s \in Scenarios, NEW w, WellFormed(w)
  PROVE  WellFormed(Idle(w)) /\ Idle(w).ph = w.ph /\ Idle(w).lev = w.lev
<1>1. 0 \in 0..s.depth + 1  BY ScenarioFacts
<1> QED BY <1>1 DEF WellFormed, Idle, Fields

LEMMA ReadWalk ==
  ASSUME s \in Scenarios, NEW w, WellFormed(w), NEW frame, NEW idx
  PROVE  WellFormed(Read(w, frame, idx)) /\ Read(w, frame, idx).ph = w.ph
         /\ Read(w, frame, idx).depth = w.depth
<1>1. s.depth \in Nat  BY ScenarioFacts
<1>2. 1 \in 0..s.depth + 1  BY <1>1
<1> DEFINE v == [w EXCEPT !.addr = <<frame, idx>>, !.n = 1]
<1>3. WellFormed(v) /\ v.ph = w.ph /\ v.depth = w.depth  BY <1>2 DEF WellFormed, Fields
<1> HIDE DEF v
<1>4. WellFormed([v EXCEPT !.io = "sent"]) /\ [v EXCEPT !.io = "sent"].ph = v.ph
      /\ [v EXCEPT !.io = "sent"].depth = v.depth
  BY <1>3 DEF WellFormed, Fields
<1> QED BY <1>3, <1>4 DEF Read, Send, v

LEMMA InitGstageWalk ==
  ASSUME s \in Scenarios, TwoStage, NEW w, WellFormed(w), NEW page
  PROVE  WellFormed(InitGstage(w, page)) /\ InitGstage(w, page).ph = w.ph
         /\ InitGstage(w, page).depth = w.depth
<1> DEFINE v == [w EXCEPT !.glev = s.gtop, !.s2hit = 0, !.s2ents = {}]
<1>1. s.gtop = 3  BY ScenarioFacts
<1>2. WellFormed(v) /\ v.ph = w.ph /\ v.depth = w.depth  BY <1>1 DEF WellFormed, Fields
<1>3. InitGstage(w, page) = Read(v, s.groot, Idx(page, s.gtop))  BY DEF InitGstage
<1> HIDE DEF v
<1> QED BY <1>2, <1>3, ReadWalk

LEMMA FromS2Walk ==
  ASSUME s \in Scenarios, TwoStage, NEW w, WellFormed(w), NEW page, NEW e, e.h \in 1..3
  PROVE  WellFormed(FromS2(w, page, e)) /\ FromS2(w, page, e).ph = w.ph
         /\ FromS2(w, page, e).depth = w.depth
<1> DEFINE v == [w EXCEPT !.s2hit = e.h, !.glev = s.gtop - e.h]
<1>1. s.gtop - e.h \in 0..3  BY ScenarioFacts
<1>2. WellFormed(v) /\ v.ph = w.ph /\ v.depth = w.depth  BY <1>1 DEF WellFormed, Fields
<1>3. FromS2(w, page, e) = Read(v, e.ppn, Idx(page, s.gtop - e.h))  BY DEF FromS2
<1> HIDE DEF v
<1> QED BY <1>2, <1>3, ReadWalk

LEMMA FromLineWalk ==
  ASSUME s \in Scenarios, s.vtop # Bare, NEW w, WellFormed(w), NEW e, e.h \in 0..3
  PROVE  WellFormed(FromLine(w, e)) /\ FromLine(w, e).ph = w.ph /\ FromLine(w, e).depth = w.depth
<1> DEFINE lev == CASE e.h = 0 -> s.vtop [] e.leaf -> 0 [] OTHER -> 3 - e.h
           base == CASE e.h = 0 -> s.vroot [] e.leaf -> 0 [] OTHER -> e.ppn
           l0 == IF e.h = 3 /\ ~e.leaf THEN e.ppn ELSE 0
<1>1. s.vtop \in 0..3  BY ScenarioFacts
<1>2. lev \in 0..3
  <2>1. CASE e.h = 0  BY <2>1, <1>1
  <2>2. CASE e.h # 0 /\ e.leaf  BY <2>2
  <2>3. CASE e.h # 0 /\ ~e.leaf  BY <2>3
  <2> QED BY <2>1, <2>2, <2>3
<1>3. FromLine(w, e) = [w EXCEPT !.hit = e.h, !.lev = lev, !.base = base, !.l0 = l0]
  BY DEF FromLine
<1> HIDE DEF lev, base, l0
<1> QED BY <1>2, <1>3 DEF WellFormed, Fields

LEMMA IdleWalkFormed ==
  ASSUME s \in Scenarios
  PROVE  WellFormed(NoWalk) /\ WellFormed(Ended) /\ Ended.ph = "ended"
BY ScenarioFacts DEF WellFormed, Fields, NoWalk, Ended, NoLine, Stations

\* Phases and the other stations of a task are apart.
LEMMA PhasesApart ==
  ASSUME NEW ph \in Phases
  PROVE  ph \in Stations /\ ph \notin {"idle", "routed", "queued", "ended"}
BY DEF Phases, Stations

-----------------------------------------------------------------------------
(* What a step has to show: the new values are formed, and the one task it  *)
(* is about stays in step with its group and its place.                     *)

LEMMA TypedNext ==
  ASSUME Typed, s' = s, outstanding' \in Int,
         UpdatesFormed(upd'), \A e \in wc' \union s2' : e.h \in 1..3,
         DOMAIN walks' = Ids, DOMAIN groups' = Tasks,
         \A i \in Ids : \/ walks'[i] = walks[i]
                        \/ WellFormed(walks'[i]) /\ PrefetchPhase(i, walks'[i]),
         \A t \in Tasks : groups'[t] = groups[t] \/ GroupFormed(groups'[t])
  PROVE  Typed'
<1>1. Tasks' = Tasks /\ Ids' = Ids /\ (TwoStage' <=> TwoStage)  BY DEF Tasks, Ids, TwoStage
<1>2. \A i \in Ids : WellFormed(walks'[i]) /\ PrefetchPhase(i, walks'[i])  BY DEF Typed
<1>3. \A t \in Tasks : GroupFormed(groups'[t])  BY DEF Typed
<1>4. (\A i \in Ids : WellFormed(walks[i]))'  BY <1>1, <1>2 DEF WellFormed
<1>5. (\A i \in Ids : PrefetchPhase(i, walks[i]))'  BY <1>1, <1>2 DEF PrefetchPhase
<1>6. (\A t \in Tasks : GroupFormed(groups[t]))'  BY <1>1, <1>3 DEF GroupFormed
<1>7. LinesFormed'  BY DEF LinesFormed, UpdatesFormed
<1>8. (s \in Scenarios)' /\ (outstanding \in Int)' /\ (DOMAIN walks = Ids)' /\ (DOMAIN groups = Tasks)'
  BY <1>1 DEF Typed
<1> QED BY <1>4, <1>5, <1>6, <1>7, <1>8 DEF Typed

LEMMA BooksNext ==
  ASSUME Typed, Books, s' = s, NEW t \in Tasks,
         \A u \in Tasks \ {t} : groups'[u] = groups[u],
         \A i \in Ids : i[1] # t => walks'[i].ph = walks[i].ph,
         InStep(t)', PendingCounted(t)',
         HasPlace(t) /\ HasPlace(t)' => outstanding' = outstanding,
         ~HasPlace(t) /\ ~HasPlace(t)' => outstanding' = outstanding,
         HasPlace(t) /\ ~HasPlace(t)' => outstanding' = outstanding - 1,
         ~HasPlace(t) /\ HasPlace(t)' => outstanding' = outstanding + 1
                                         /\ outstanding < MaxOutstanding
  PROVE  Books'
<1>1. Tasks' = Tasks /\ Ids' = Ids /\ s.depth \in Nat
  <2>1. s \in Scenarios  BY DEF Typed
  <2> QED BY <2>1, ScenarioFacts DEF Tasks, Ids
<1>2. ASSUME NEW u \in Tasks \ {t}, NEW d \in 0..s.depth
      PROVE  walks'[<<u, d>>].ph = walks[<<u, d>>].ph
  <2>1. <<u, d>> \in Ids /\ <<u, d>>[1] # t  BY DEF Ids
  <2> QED BY <2>1
<1>3. ASSUME NEW u \in Tasks \ {t} PROVE InStep(u)' /\ PendingCounted(u)' /\ (HasPlace(u)' <=> HasPlace(u))
  <2>1. \A d \in 1..s.depth : walks'[<<u, d>>].ph = walks[<<u, d>>].ph
    <3>1. 1..s.depth \subseteq 0..s.depth  BY <1>1
    <3> QED BY <1>2, <3>1
  <2>2. 0 \in 0..s.depth  BY <1>1
  <2>3. walks'[<<u, 0>>].ph = walks[<<u, 0>>].ph  BY <1>2, <2>2
  <2>4. Running(u)' = Running(u)  BY <2>1 DEF Running
  <2>5. groups'[u] = groups[u]  OBVIOUS
  <2>6. InStep(u) /\ PendingCounted(u)  BY DEF Books
  <2>7. InStep(u)'  BY <2>3, <2>4, <2>5, <2>6 DEF InStep
  <2>8. PendingCounted(u)'  BY <2>4, <2>5, <2>6 DEF PendingCounted
  <2> QED BY <2>3, <2>5, <2>7, <2>8 DEF HasPlace
<1>4. \A u \in Tasks : InStep(u)' /\ PendingCounted(u)'  BY <1>3
<1>5. (\A u \in Tasks : InStep(u) /\ PendingCounted(u))'  BY <1>1, <1>4
<1>6. PlacesCounted'
  <2>1. IsFiniteSet(InPtw) /\ outstanding = Cardinality(InPtw) /\ Cardinality(InPtw) \in Nat
        /\ outstanding <= MaxOutstanding
    BY FS_CardinalityType DEF Books, PlacesCounted
  <2>2. MaxOutstanding \in Nat  BY WalkAssumption
  <2>3. (t \in InPtw <=> HasPlace(t)) /\ (t \in InPtw' <=> HasPlace(t)')  BY <1>1 DEF InPtw
  <2>4. \A u : u # t => (u \in InPtw' <=> u \in InPtw)  BY <1>1, <1>3 DEF InPtw
  <2>5. CASE HasPlace(t) <=> HasPlace(t)'
    <3>1. InPtw' = InPtw  BY <2>3, <2>4, <2>5
    <3>2. Cardinality(InPtw') = Cardinality(InPtw) /\ IsFiniteSet(InPtw')  BY <3>1, <2>1
    <3> QED BY <3>2, <2>1, <2>5 DEF PlacesCounted
  <2>6. CASE HasPlace(t) /\ ~HasPlace(t)'
    <3>1. InPtw' = InPtw \ {t} /\ t \in InPtw  BY <2>3, <2>4, <2>6
    <3>2. IsFiniteSet(InPtw') /\ Cardinality(InPtw') = Cardinality(InPtw) - 1
      BY <3>1, <2>1, FS_RemoveElement
    <3> QED BY <3>2, <2>1, <2>2, <2>6 DEF PlacesCounted
  <2>7. CASE ~HasPlace(t) /\ HasPlace(t)'
    <3>1. InPtw' = InPtw \union {t} /\ t \notin InPtw  BY <2>3, <2>4, <2>7
    <3>2. IsFiniteSet(InPtw') /\ Cardinality(InPtw') = Cardinality(InPtw) + 1
      BY <3>1, <2>1, FS_AddElement
    <3> QED BY <3>2, <2>1, <2>2, <2>7 DEF PlacesCounted
  <2> QED BY <2>5, <2>6, <2>7
<1> QED BY <1>5, <1>6 DEF Books

-----------------------------------------------------------------------------
(* The ways a handler leaves a walk: it reads on, the task is answered, it  *)
(* waits for its group, or a prefetch ends.                                 *)

LEMMA ContinueKeeps ==
  ASSUME Inv, NEW i \in Ids, walks[i].ph \in Phases \/ (walks[i].ph = "queued" /\ i[2] = 0),
         NEW w, WellFormed(w), w.ph \in Phases, PrefetchPhase(i, w), Continue(i, w)
  PROVE  Inv'
<1> DEFINE t == i[1]
<1>1. s \in Scenarios /\ DOMAIN walks = Ids  BY DEF Inv, Typed
<1>2. t \in Tasks /\ i[2] \in 0..s.depth /\ i = <<t, i[2]>> /\ s.depth \in Nat
  BY <1>1, ScenarioFacts DEF Ids
<1>3. /\ walks' = [walks EXCEPT ![i] = w] /\ s' = s
      /\ UNCHANGED <<wc, s2, upd, groups, outstanding>>
  BY DEF Continue, caches
<1>4. DOMAIN walks' = Ids /\ walks'[i] = w /\ \A j \in Ids : j # i => walks'[j] = walks[j]
  BY <1>1, <1>3
<1>5. Typed'
  <2>1. UpdatesFormed(upd') /\ (\A e \in wc' \union s2' : e.h \in 1..3) /\ outstanding' \in Int
        /\ DOMAIN groups' = Tasks
    BY <1>3 DEF Inv, Typed, LinesFormed, UpdatesFormed
  <2> QED BY <1>3, <1>4, <2>1, TypedNext DEF Inv
<1>6. Running(t)' = Running(t)
  <2>1. ASSUME NEW d \in 1..s.depth PROVE walks'[<<t, d>>].ph \in Phases <=> walks[<<t, d>>].ph \in Phases
    <3>1. <<t, d>> \in Ids  BY <1>2 DEF Ids
    <3>2. CASE <<t, d>> = i
      <4>1. i[2] = d  BY <3>2
      <4>2. walks[i].ph \in Phases  BY <4>1
      <4> QED BY <1>4, <3>2, <4>2
    <3> QED BY <1>4, <3>1, <3>2
  <2> QED BY <1>3, <2>1 DEF Running
<1>7. InStep(t) /\ PendingCounted(t)  BY <1>2 DEF Inv, Books
<1>8. \/ walks'[<<t, 0>>] = walks[<<t, 0>>]
      \/ walks'[<<t, 0>>].ph \in Phases /\ walks[<<t, 0>>].ph \in Phases \union {"queued"}
  <2>1. <<t, 0>> \in Ids  BY <1>1, <1>2, ScenarioFacts
  <2>2. CASE i = <<t, 0>>  BY <2>1, <2>2, <1>4
  <2>3. CASE i # <<t, 0>>  BY <2>1, <2>3, <1>4
  <2> QED BY <2>2, <2>3
<1>9. InStep(t)'
  <2>1. walks'[<<t, 0>>].ph \in Phases => walks[<<t, 0>>].ph # "ended"
    BY <1>8, PhasesApart
  <2> QED BY <1>3, <1>6, <1>7, <1>8, <2>1, PhasesApart DEF InStep
<1>10. PendingCounted(t)'  BY <1>3, <1>6, <1>7 DEF PendingCounted
<1>11. HasPlace(t)' <=> HasPlace(t)  BY <1>3, <1>8 DEF HasPlace
<1>12. Books'
  <2>1. \A j \in Ids : j[1] # t => walks'[j].ph = walks[j].ph  BY <1>4
  <2> HIDE DEF t
  <2> QED BY <1>2, <1>3, <1>9, <1>10, <1>11, <2>1, BooksNext DEF Inv
<1> QED BY <1>5, <1>12 DEF Inv

LEMMA ReleaseKeeps ==
  ASSUME Inv, NEW t \in Tasks, walks[<<t, 0>>].ph \in Phases \union {"queued"},
         groups[t].st # "open", NEW r, NEW g, NEW u, UpdatesFormed(u), Release(t, r, g, u)
  PROVE  Inv'
<1>1. s \in Scenarios /\ DOMAIN walks = Ids /\ outstanding \in Int /\ s.depth \in Nat
  BY ScenarioFacts DEF Inv, Typed
<1>2. /\ walks' = [walks EXCEPT ![<<t, 0>>] = Ended] /\ s' = s
      /\ outstanding' = outstanding - 1 /\ upd' = upd \union u
      /\ UNCHANGED <<wc, s2, groups>>
  BY DEF Release
<1>3. <<t, 0>> \in Ids  BY <1>1, ScenarioFacts
<1>4. DOMAIN walks' = Ids /\ walks'[<<t, 0>>] = Ended
      /\ \A j \in Ids : j # <<t, 0>> => walks'[j] = walks[j]
  BY <1>1, <1>2, <1>3
<1>5. WellFormed(Ended) /\ Ended.ph = "ended"  BY <1>1, IdleWalkFormed
<1>6. Typed'
  <2>1. UpdatesFormed(upd') /\ (\A e \in wc' \union s2' : e.h \in 1..3) /\ outstanding' \in Int
        /\ DOMAIN groups' = Tasks
    BY <1>1, <1>2 DEF Inv, Typed, LinesFormed, UpdatesFormed
  <2>2. PrefetchPhase(<<t, 0>>, Ended)  BY <1>5 DEF PrefetchPhase
  <2> QED BY <1>2, <1>4, <1>5, <2>1, <2>2, TypedNext DEF Inv
<1>7. groups[t].st = "none"
  <2>1. InStep(t) /\ GroupFormed(groups[t])  BY DEF Inv, Books, Typed
  <2> QED BY <2>1, PhasesApart DEF InStep, GroupFormed
<1>8. InStep(t)' /\ PendingCounted(t)'
  BY <1>2, <1>4, <1>5, <1>7 DEF InStep, PendingCounted
<1>9. HasPlace(t) /\ ~HasPlace(t)'
  BY <1>2, <1>4, <1>5, <1>7, PhasesApart DEF HasPlace
<1>10. Books'
  <2>1. \A j \in Ids : j[1] # t => walks'[j].ph = walks[j].ph  BY <1>4
  <2> QED BY <1>2, <1>8, <1>9, <2>1, BooksNext DEF Inv
<1> QED BY <1>6, <1>10 DEF Inv

\* A task gets a group, or its group what the main walk found.
LEMMA GroupKeeps ==
  ASSUME Inv, s' = s, NEW t \in Tasks, HasPlace(t),
         UNCHANGED <<wc, s2, outstanding>>, UpdatesFormed(upd'),
         NEW group, GroupFormed(group), group.st = "open",
         groups' = [groups EXCEPT ![t] = group],
         NEW ws, walks' = ws, DOMAIN ws = Ids,
         \A i \in Ids : i[1] # t => ws[i] = walks[i],
         \A i \in Ids : WellFormed(ws[i]) /\ PrefetchPhase(i, ws[i]),
         group.main => ws[<<t, 0>>].ph = "ended",
         ~group.main => ws[<<t, 0>>].ph \in Phases,
         \/ group.fault
         \/ group.pend = Cardinality({d \in 1..s.depth : ws[<<t, d>>].ph \in Phases})
  PROVE  Inv'
<1>1. DOMAIN groups' = Tasks /\ groups'[t] = group /\ \A u \in Tasks \ {t} : groups'[u] = groups[u]
  BY DEF Inv, Typed
<1>2. Typed'
  <2>1. (\A e \in wc' \union s2' : e.h \in 1..3) /\ outstanding' \in Int
    BY DEF Inv, Typed, LinesFormed
  <2>2. \A u \in Tasks : groups'[u] = groups[u] \/ GroupFormed(groups'[u])  BY <1>1
  <2> QED BY <1>1, <2>1, <2>2, TypedNext DEF Inv
<1>3. InStep(t)' /\ HasPlace(t)'  BY <1>1 DEF InStep, HasPlace
<1>4. PendingCounted(t)'
  <2>1. Running(t)' = {d \in 1..s.depth : ws[<<t, d>>].ph \in Phases}  BY DEF Running
  <2> QED BY <1>1, <2>1 DEF PendingCounted
<1>5. Books'
  <2>1. \A i \in Ids : i[1] # t => walks'[i].ph = walks[i].ph  OBVIOUS
  <2> QED BY <1>1, <1>3, <1>4, <2>1, BooksNext DEF Inv
<1> QED BY <1>2, <1>5 DEF Inv

LEMMA JoinKeeps ==
  ASSUME Inv, NEW t \in Tasks, walks[<<t, 0>>].ph \in Phases \union {"queued"},
         NEW group, GroupFormed(group), group.st = "open", group.main,
         NEW ws, DOMAIN ws = Ids,
         \A i \in Ids : i[1] # t => ws[i] = walks[i],
         \A i \in Ids : WellFormed(ws[i]) /\ PrefetchPhase(i, ws[i]),
         \/ group.fault
         \/ group.pend = Cardinality({d \in 1..s.depth : ws[<<t, d>>].ph \in Phases}),
         NEW u, UpdatesFormed(u), JoinGroup(t, group, ws, u)
  PROVE  Inv'
<1> DEFINE vs == [ws EXCEPT ![<<t, 0>>] = Ended]
<1>1. s \in Scenarios /\ s.depth \in Nat  BY ScenarioFacts DEF Inv, Typed
<1>2. /\ walks' = vs /\ s' = s /\ groups' = [groups EXCEPT ![t] = group]
      /\ upd' = upd \union u /\ UNCHANGED <<wc, s2, outstanding>>
  BY DEF JoinGroup
<1>3. <<t, 0>> \in Ids  BY <1>1, ScenarioFacts
<1>4. DOMAIN vs = Ids /\ vs[<<t, 0>>] = Ended /\ \A j \in Ids : j # <<t, 0>> => vs[j] = ws[j]
  BY <1>3
<1> HIDE DEF vs
<1>5. WellFormed(Ended) /\ Ended.ph = "ended" /\ PrefetchPhase(<<t, 0>>, Ended)
  BY <1>1, IdleWalkFormed DEF PrefetchPhase
<1>6. {d \in 1..s.depth : vs[<<t, d>>].ph \in Phases} = {d \in 1..s.depth : ws[<<t, d>>].ph \in Phases}
  <2>1. ASSUME NEW d \in 1..s.depth PROVE vs[<<t, d>>] = ws[<<t, d>>]
    <3>1. <<t, d>> \in Ids /\ <<t, d>> # <<t, 0>>  BY <1>1 DEF Ids
    <3> QED BY <3>1, <1>4
  <2> QED BY <2>1
<1>7. UpdatesFormed(upd')  BY <1>2 DEF Inv, Typed, LinesFormed, UpdatesFormed
<1>8. HasPlace(t)  BY DEF HasPlace
<1>9. (\A j \in Ids : j[1] # t => vs[j] = walks[j])
      /\ \A j \in Ids : WellFormed(vs[j]) /\ PrefetchPhase(j, vs[j])
  BY <1>4, <1>5
<1>10. group.fault \/ group.pend = Cardinality({d \in 1..s.depth : vs[<<t, d>>].ph \in Phases})
  BY <1>6
<1> QED BY <1>2, <1>4, <1>5, <1>7, <1>8, <1>9, <1>10, GroupKeeps

\* A prefetch walk ends: the group it belongs to waits for one walk less.
LEMMA EndPrefetchKeeps ==
  ASSUME Inv, NEW i \in Ids, IsPrefetch(i), walks[i].ph \in Phases,
         NEW slot, NEW u, UpdatesFormed(u), EndPrefetch(i, slot, u)
  PROVE  Inv'
<1> DEFINE t == i[1]
           d == i[2]
           g == groups[t]
<1>1. s \in Scenarios /\ DOMAIN walks = Ids /\ DOMAIN groups = Tasks /\ GroupFormed(g)
      /\ t \in Tasks /\ d \in 1..s.depth /\ i = <<t, d>> /\ s.depth \in Nat
  <2>1. s \in Scenarios  BY DEF Inv, Typed
  <2>2. t \in Tasks /\ d \in 0..s.depth /\ i = <<t, d>> /\ s.depth \in Nat
    BY <2>1, ScenarioFacts DEF Ids
  <2>3. d \in 1..s.depth  BY <2>2 DEF IsPrefetch
  <2> QED BY <2>1, <2>2, <2>3 DEF Inv, Typed
<1>2. /\ walks' = [walks EXCEPT ![i] = Ended] /\ s' = s
      /\ UNCHANGED <<wc, s2, outstanding>>
      /\ upd' = upd \/ upd' = upd \union u
  BY DEF EndPrefetch
<1>3. DOMAIN walks' = Ids /\ walks'[i] = Ended
      /\ \A j \in Ids : j # i => walks'[j] = walks[j]
  BY <1>1, <1>2
<1>4. WellFormed(Ended) /\ Ended.ph = "ended" /\ PrefetchPhase(i, Ended)
  BY <1>1, IdleWalkFormed DEF PrefetchPhase
<1>5. /\ DOMAIN groups' = Tasks /\ \A v \in Tasks \ {t} : groups'[v] = groups[v]
      /\ g.st # "open" => groups'[t] = g
      /\ g.st = "open" =>
           /\ GroupFields \subseteq DOMAIN groups'[t]
           /\ groups'[t].st = "open" /\ groups'[t].main = g.main /\ groups'[t].fault = g.fault
           /\ groups'[t].pend = Max({g.pend - 1, 0})
  <2>1. CASE g.st # "open"
    <3>1. groups' = groups  BY <2>1 DEF EndPrefetch
    <3> QED BY <3>1, <2>1, <1>1
  <2>2. CASE g.st = "open"
    <3> DEFINE h == [groups EXCEPT ![t].slots[d] = slot]
    <3>1. groups' = [h EXCEPT ![t].pend = Max({@ - 1, 0})]
      BY <2>2 DEF EndPrefetch
    <3>2. DOMAIN h = Tasks /\ h[t] = [g EXCEPT !.slots[d] = slot] /\ \A v \in Tasks \ {t} : h[v] = groups[v]
      BY <1>1
    <3>3. GroupFields \subseteq DOMAIN h[t] /\ h[t].st = g.st /\ h[t].main = g.main
          /\ h[t].fault = g.fault /\ h[t].pend = g.pend
      BY <3>2, <1>1 DEF GroupFormed, GroupFields
    <3> HIDE DEF h
    <3>4. DOMAIN groups' = Tasks /\ groups'[t] = [h[t] EXCEPT !.pend = Max({h[t].pend - 1, 0})]
          /\ \A v \in Tasks \ {t} : groups'[v] = h[v]
      BY <3>1, <3>2, <1>1
    <3>5. GroupFields \subseteq DOMAIN groups'[t]
          /\ groups'[t].st = h[t].st /\ groups'[t].main = h[t].main /\ groups'[t].fault = h[t].fault
          /\ groups'[t].pend = Max({h[t].pend - 1, 0})
      BY <3>3, <3>4 DEF GroupFields
    <3> QED BY <2>2, <3>2, <3>3, <3>4, <3>5
  <2> QED BY <2>1, <2>2
<1>6. g.st = "open" => groups'[t].pend = IF g.pend >= 1 THEN g.pend - 1 ELSE 0
  <2>1. g.pend \in Nat  BY <1>1 DEF GroupFormed
  <2>2. Max({g.pend - 1, 0}) = IF g.pend - 1 >= 0 THEN g.pend - 1 ELSE 0  BY <2>1, MaxOfTwo
  <2> QED BY <2>1, <2>2, <1>5
<1>7. Typed'
  <2>1. UpdatesFormed(upd') /\ (\A e \in wc' \union s2' : e.h \in 1..3) /\ outstanding' \in Int
    BY <1>2 DEF Inv, Typed, LinesFormed, UpdatesFormed
  <2>2. groups'[t] = g \/ GroupFormed(groups'[t])  BY <1>1, <1>5, <1>6 DEF GroupFormed
  <2>3. \A v \in Tasks : groups'[v] = groups[v] \/ GroupFormed(groups'[v])  BY <1>5, <2>2
  <2>4. ASSUME NEW j \in Ids
        PROVE  walks'[j] = walks[j] \/ (WellFormed(walks'[j]) /\ PrefetchPhase(j, walks'[j]))
    <3>1. CASE j = i
      <4>1. walks'[j] = Ended  BY <3>1, <1>3
      <4>2. WellFormed(Ended) /\ PrefetchPhase(j, Ended)  BY <3>1, <1>4
      <4> QED BY <4>1, <4>2
    <3>2. CASE j # i  BY <3>2, <1>3
    <3> QED BY <3>1, <3>2
  <2> QED BY <1>2, <1>3, <1>5, <2>1, <2>3, <2>4, TypedNext DEF Inv
<1>8. Running(t)' = Running(t) \ {d} /\ d \in Running(t)
  <2>1. ASSUME NEW e \in 1..s.depth, e # d PROVE walks'[<<t, e>>] = walks[<<t, e>>]
    <3>1. <<t, e>> \in Ids /\ <<t, e>> # i  BY <1>1, <2>1 DEF Ids
    <3> QED BY <3>1, <1>3
  <2>2. walks'[<<t, d>>].ph \notin Phases  BY <1>1, <1>3, <1>4, PhasesApart
  <2> QED BY <1>1, <1>2, <2>1, <2>2 DEF Running
<1>9. walks'[<<t, 0>>] = walks[<<t, 0>>]
  <2>1. <<t, 0>> \in Ids /\ <<t, 0>> # i  BY <1>1, ScenarioFacts
  <2> QED BY <2>1, <1>3
<1>10. InStep(t) /\ PendingCounted(t)  BY <1>1 DEF Inv, Books
<1>11. InStep(t)'
  BY <1>5, <1>8, <1>9, <1>10 DEF InStep
<1>12. PendingCounted(t)'
  <2> SUFFICES ASSUME groups'[t].st = "open", ~groups'[t].fault
               PROVE  groups'[t].pend = Cardinality(Running(t)')
    BY DEF PendingCounted
  <2>1. g.st = "open" /\ ~g.fault  BY <1>5
  <2>2. g.pend = Cardinality(Running(t))  BY <2>1, <1>10 DEF PendingCounted
  <2>3. IsFiniteSet(Running(t))
    <3>1. IsFiniteSet(1..s.depth)  BY <1>1, FS_Interval
    <3>2. Running(t) \subseteq 1..s.depth  BY DEF Running
    <3> QED BY <3>1, <3>2, FS_Subset
  <2>4. Cardinality(Running(t)') = Cardinality(Running(t)) - 1
        /\ Cardinality(Running(t)') \in Nat
    <3>1. IsFiniteSet(Running(t) \ {d}) /\ Cardinality(Running(t) \ {d}) = Cardinality(Running(t)) - 1
      BY <1>8, <2>3, FS_RemoveElement
    <3> QED BY <3>1, <1>8, FS_CardinalityType
  <2>5. g.pend \in Nat  BY <1>1 DEF GroupFormed
  <2> QED BY <1>6, <2>1, <2>2, <2>4, <2>5
<1>13. HasPlace(t)' <=> HasPlace(t)  BY <1>5, <1>9 DEF HasPlace
<1>14. Books'
  <2>1. \A j \in Ids : j[1] # t => walks'[j].ph = walks[j].ph  BY <1>3
  <2> HIDE DEF t, g, d
  <2> QED BY <1>1, <1>2, <1>5, <1>11, <1>12, <1>13, <2>1, BooksNext DEF Inv
<1> QED BY <1>7, <1>14 DEF Inv

\* The prefetch walks of a task start, none of which was running.
Begun(ws, t, n) ==
  /\ DOMAIN ws = Ids
  /\ \A i \in Ids : i[1] # t \/ i[2] = 0 => ws[i] = walks[i]
  /\ \A i \in Ids : WellFormed(ws[i]) /\ PrefetchPhase(i, ws[i])
  /\ Cardinality({d \in 1..s.depth : ws[<<t, d>>].ph \in Phases}) = n

LEMMA SpawnedWalks ==
  ASSUME Typed, TwoStage, NEW t \in Tasks, Running(t) = {}, NEW frame, NEW n \in 0..s.depth
  PROVE  Begun(Spawned(t, frame, n), t, n)
<1> DEFINE ws == Spawned(t, frame, n)
           begun(i) == Read([NoWalk EXCEPT !.ph = "VS_PTE_READ"], frame, Idx(s.tasks[t].iova, 0) + i[2])
<1>1. s \in Scenarios /\ s.depth \in Nat  BY ScenarioFacts DEF Typed
<1>2. ASSUME NEW i PROVE WellFormed(begun(i)) /\ begun(i).ph = "VS_PTE_READ"
  <2> DEFINE v == [NoWalk EXCEPT !.ph = "VS_PTE_READ"]
  <2>1. WellFormed(v) /\ v.ph = "VS_PTE_READ"
    <3>1. WellFormed(NoWalk)  BY <1>1, IdleWalkFormed
    <3> HIDE DEF NoWalk
    <3> QED BY <3>1 DEF WellFormed, Fields, Stations, Phases
  <2>2. begun(i) = Read(v, frame, Idx(s.tasks[t].iova, 0) + i[2])  OBVIOUS
  <2> HIDE DEF v, begun
  <2> QED BY <1>1, <2>1, <2>2, ReadWalk
<1>3. /\ DOMAIN ws = Ids
      /\ \A i \in Ids : ws[i] = IF i[1] = t /\ i[2] \in 1..n THEN begun(i) ELSE walks[i]
  BY DEF Spawned
<1> HIDE DEF ws, begun
<1>4. \A i \in Ids : i[1] # t \/ i[2] = 0 => ws[i] = walks[i]  BY <1>3
<1>5. ASSUME NEW i \in Ids PROVE WellFormed(ws[i]) /\ PrefetchPhase(i, ws[i])
  <2>1. CASE i[1] = t /\ i[2] \in 1..n
    <3>1. ws[i] = begun(i)  BY <2>1, <1>3
    <3>2. WellFormed(ws[i])  BY <3>1, <1>2
    <3>3. PrefetchPhase(i, ws[i])  BY <2>1, <1>1 DEF PrefetchPhase
    <3> QED BY <3>2, <3>3
  <2>2. CASE ~(i[1] = t /\ i[2] \in 1..n)  BY <2>2, <1>3 DEF Typed
  <2> QED BY <2>1, <2>2
<1>6. {d \in 1..s.depth : ws[<<t, d>>].ph \in Phases} = 1..n
  <2>1. ASSUME NEW d \in 1..s.depth PROVE ws[<<t, d>>].ph \in Phases <=> d \in 1..n
    <3>1. <<t, d>> \in Ids  BY <1>1 DEF Ids
    <3>2. walks[<<t, d>>].ph \notin Phases  BY DEF Running
    <3>3. "VS_PTE_READ" \in Phases  BY DEF Phases
    <3> QED BY <1>2, <1>3, <3>1, <3>2, <3>3
  <2> QED BY <2>1, <1>1
<1>7. Cardinality(1..n) = n  BY <1>1, FS_Interval
<1>8. Begun(ws, t, n)  BY <1>3, <1>4, <1>5, <1>6, <1>7 DEF Begun
<1> QED BY <1>8 DEF ws

-----------------------------------------------------------------------------
(* The groups that a walk opens or joins.                                   *)

LEMMA NewGroups ==
  ASSUME s \in Scenarios, NEW t, NEW i, NEW w, NEW n \in 0..s.depth, NEW slot,
         NEW depth, NEW frame, NEW size
  PROVE  /\ GroupFormed(OpenGroup(t, n)) /\ OpenGroup(t, n).st = "open"
         /\ ~OpenGroup(t, n).main /\ OpenGroup(t, n).pend = n
         /\ GroupFormed(LateGroup(t, n, slot)) /\ LateGroup(t, n, slot).st = "open"
         /\ LateGroup(t, n, slot).main /\ LateGroup(t, n, slot).pend = n
         /\ GroupFormed(HugeGroup(t, depth, frame, size))
         /\ HugeGroup(t, depth, frame, size).st = "open"
         /\ HugeGroup(t, depth, frame, size).main /\ HugeGroup(t, depth, frame, size).pend = 0
         /\ GroupFormed(BurstGroup(i, w)) /\ BurstGroup(i, w).st = "open"
         /\ BurstGroup(i, w).main /\ BurstGroup(i, w).pend = 0
<1>1. s.depth \in Nat /\ 0 \in 0..s.depth  BY ScenarioFacts
<1>2. GroupFormed(OpenGroup(t, n)) /\ OpenGroup(t, n).st = "open"
      /\ ~OpenGroup(t, n).main /\ OpenGroup(t, n).pend = n
  BY DEF GroupFormed, GroupFields, OpenGroup, NoGroup
<1>3. GroupFormed(LateGroup(t, n, slot)) /\ LateGroup(t, n, slot).st = "open"
      /\ LateGroup(t, n, slot).main /\ LateGroup(t, n, slot).pend = n
  <2> DEFINE g == OpenGroup(t, n)
  <2>1. LateGroup(t, n, slot) = [g EXCEPT !.main = TRUE, !.slots[0] = slot]  BY DEF LateGroup
  <2> HIDE DEF g
  <2>2. GroupFormed(g) /\ g.st = "open" /\ g.pend = n  BY <1>2 DEF g
  <2> QED BY <2>1, <2>2 DEF GroupFormed, GroupFields
<1>4. GroupFormed(HugeGroup(t, depth, frame, size))
      /\ HugeGroup(t, depth, frame, size).st = "open"
      /\ HugeGroup(t, depth, frame, size).main /\ HugeGroup(t, depth, frame, size).pend = 0
  BY <1>1 DEF GroupFormed, GroupFields, HugeGroup, NoGroup
<1>5. GroupFormed(BurstGroup(i, w)) /\ BurstGroup(i, w).st = "open"
      /\ BurstGroup(i, w).main /\ BurstGroup(i, w).pend = 0
  BY <1>1 DEF GroupFormed, GroupFields, BurstGroup, NoGroup
<1> QED BY <1>2, <1>3, <1>4, <1>5

\* The main walk of a task with a group, or without one and any prefetch.
LEMMA MainWalk ==
  ASSUME Inv, NEW i \in Ids, ~IsPrefetch(i), walks[i].ph \in Phases \union {"queued"}
  PROVE  /\ i = <<i[1], 0>> /\ i[1] \in Tasks /\ i[2] = 0
         /\ groups[i[1]].st \in {"none", "open"}
         /\ groups[i[1]].st = "none" => Running(i[1]) = {}
         /\ GroupFormed(groups[i[1]]) /\ PendingCounted(i[1])
<1>1. s \in Scenarios  BY DEF Inv, Typed
<1>2. i[1] \in Tasks /\ i[2] \in 0..s.depth /\ i = <<i[1], i[2]>> /\ s.depth \in Nat
  BY <1>1, ScenarioFacts DEF Ids
<1>3. i[2] = 0 /\ i = <<i[1], 0>>  BY <1>2 DEF IsPrefetch
<1>4. InStep(i[1]) /\ PendingCounted(i[1]) /\ GroupFormed(groups[i[1]])
  BY <1>2 DEF Inv, Books, Typed
<1>5. walks[<<i[1], 0>>].ph # "ended"  BY <1>3, PhasesApart
<1> QED BY <1>2, <1>3, <1>4, <1>5 DEF InStep, GroupFormed

\* A walk joins a group without prefetches of its own.
LEMMA CompleteGroup ==
  ASSUME Inv, NEW i \in Ids, ~IsPrefetch(i), walks[i].ph \in Phases \union {"queued"},
         groups[i[1]].st # "open", NEW group, GroupFormed(group), group.st = "open",
         group.main, group.pend = 0, NEW u, UpdatesFormed(u),
         JoinGroup(i[1], group, walks, u)
  PROVE  Inv'
<1> DEFINE t == i[1]
<1>1. i = <<t, 0>> /\ t \in Tasks /\ Running(t) = {}  BY MainWalk
<1>2. DOMAIN walks = Ids /\ \A j \in Ids : WellFormed(walks[j]) /\ PrefetchPhase(j, walks[j])
  BY DEF Inv, Typed
<1>3. {d \in 1..s.depth : walks[<<t, d>>].ph \in Phases} = {}  BY <1>1 DEF Running
<1>4. group.pend = Cardinality({d \in 1..s.depth : walks[<<t, d>>].ph \in Phases})
  BY <1>3, FS_EmptySet
<1>5. walks[<<t, 0>>].ph \in Phases \union {"queued"}  BY <1>1
<1> HIDE DEF t
<1> QED BY <1>1, <1>2, <1>4, <1>5, JoinKeeps DEF t

LEMMA FailKeeps ==
  ASSUME Inv, NEW i \in Ids, walks[i].ph \in Phases, NEW w, NEW cause, Fail(i, w, cause)
  PROVE  Inv'
<1> DEFINE t == i[1]
<1>1. UpdatesFormed({})  BY DEF UpdatesFormed
<1>2. CASE IsPrefetch(i)
  <2>1. EndPrefetch(i, Unfilled(t, i[2]), {})  BY <1>2 DEF Fail
  <2> QED BY <1>1, <1>2, <2>1, EndPrefetchKeeps
<1>3. CASE ~IsPrefetch(i) /\ groups[t].st = "open"
  <2> DEFINE group == [groups[t] EXCEPT !.main = TRUE, !.pend = 0, !.fault = TRUE,
                                        !.slots[0] = Slot(Iova(i), w.gpa)]
  <2>1. JoinGroup(t, group, walks, {})  BY <1>3 DEF Fail
  <2>2. i = <<t, 0>> /\ t \in Tasks /\ GroupFormed(groups[t])  BY <1>3, MainWalk
  <2>3. 0 \in 0..s.depth
    <3>1. s \in Scenarios  BY DEF Inv, Typed
    <3> QED BY <3>1, ScenarioFacts
  <2>4. GroupFormed(group) /\ group.st = "open" /\ group.main /\ group.fault
    BY <1>3, <2>2, <2>3 DEF GroupFormed, GroupFields
  <2>5. DOMAIN walks = Ids /\ \A j \in Ids : WellFormed(walks[j]) /\ PrefetchPhase(j, walks[j])
    BY DEF Inv, Typed
  <2>6. walks[<<t, 0>>].ph \in Phases \union {"queued"}  BY <2>2
  <2> HIDE DEF group, t
  <2> QED BY <1>1, <2>1, <2>2, <2>4, <2>5, <2>6, JoinKeeps
<1>4. CASE ~IsPrefetch(i) /\ groups[t].st # "open"
  <2>1. Release(t, Fault(cause), {Given("pt", t, Iova(i), w.pa)}, {})  BY <1>4 DEF Fail
  <2>2. i = <<t, 0>> /\ t \in Tasks  BY <1>4, MainWalk
  <2>3. walks[<<t, 0>>].ph \in Phases \union {"queued"}  BY <2>2
  <2> HIDE DEF t
  <2> QED BY <1>1, <1>4, <2>1, <2>2, <2>3, ReleaseKeeps
<1> QED BY <1>2, <1>3, <1>4

LEMMA FinishKeeps ==
  ASSUME Inv, NEW i \in Ids, walks[i].ph \in Phases, NEW w, WellFormed(w), Finish(i, w)
  PROVE  Inv'
<1> DEFINE t == i[1]
           vs == VsUpdate(w, Iova(i))
           slot == Slot(Iova(i), w.pa)
           n == InTable(Iova(i), w.depth)
<1>1. s \in Scenarios /\ Typed /\ s.depth \in Nat /\ Iova(i) \in Nat
  BY ScenarioFacts DEF Inv, Typed
<1>2. w.depth \in 0..s.depth /\ w.psz \in 0..3  BY DEF WellFormed
<1>3. n \in 0..s.depth
  <2>1. w.depth \in Nat  BY <1>1, <1>2
  <2>2. n \in 0..w.depth  BY <1>1, <2>1, InTableRange
  <2> HIDE DEF n
  <2> QED BY <1>1, <1>2, <2>1, <2>2
<1>4. \A e \in vs : e.h \in 1..3  BY VsLines
<1>5. \A e \in S2Update(w) : e.h \in 1..3  BY S2Lines
<1> HIDE DEF vs
<1>6. /\ UpdatesFormed({})
      /\ UpdatesFormed(Updates({}, S2Update(w))) /\ UpdatesFormed(Updates(vs, {}))
      /\ UpdatesFormed(Updates(vs, S2Update(w)))
  BY <1>4, <1>5, UpdatesOf DEF UpdatesFormed
<1>7. CASE IsPrefetch(i)
  <2>1. EndPrefetch(i, slot, Updates({}, S2Update(w)))  BY <1>7 DEF Finish
  <2> QED BY <1>6, <1>7, <2>1, EndPrefetchKeeps
<1>8. CASE ~IsPrefetch(i) /\ groups[t].st = "open"
  <2> DEFINE group == [groups[t] EXCEPT !.slots[0] = slot, !.main = TRUE]
  <2>1. JoinGroup(t, group, walks, {})  BY <1>8 DEF Finish
  <2>2. i = <<t, 0>> /\ t \in Tasks /\ GroupFormed(groups[t]) /\ PendingCounted(t)
    BY <1>8, MainWalk
  <2>3. GroupFormed(group) /\ group.st = "open" /\ group.main /\ group.fault = groups[t].fault
        /\ group.pend = groups[t].pend
    BY <1>8, <2>2 DEF GroupFormed, GroupFields
  <2>4. DOMAIN walks = Ids /\ \A j \in Ids : WellFormed(walks[j]) /\ PrefetchPhase(j, walks[j])
    BY DEF Inv, Typed
  <2>5. walks[<<t, 0>>].ph \in Phases \union {"queued"}  BY <2>2
  <2> HIDE DEF group, t
  <2>6. group.fault \/ group.pend = Cardinality({d \in 1..s.depth : walks[<<t, d>>].ph \in Phases})
    BY <1>8, <2>2, <2>3 DEF PendingCounted, Running
  <2> QED BY <1>6, <2>1, <2>2, <2>3, <2>4, <2>5, <2>6, JoinKeeps
<1>9. CASE ~IsPrefetch(i) /\ groups[t].st # "open" /\ w.depth > 0 /\ w.psz > 0
  <2> DEFINE group == HugeGroup(t, w.depth, w.pa, w.psz)
  <2>1. JoinGroup(t, group, walks, Updates(vs, S2Update(w)))
    <3>1. w.psz > 0 /\ w.psz # 0  BY <1>2, <1>9
    <3> QED BY <1>9, <3>1 DEF Finish, vs
  <2>2. GroupFormed(group) /\ group.st = "open" /\ group.main /\ group.pend = 0
    BY <1>1, <1>3, NewGroups
  <2> HIDE DEF group
  <2> QED BY <1>6, <1>9, <2>1, <2>2, CompleteGroup
<1>10. CASE ~IsPrefetch(i) /\ groups[t].st # "open" /\ w.depth > 0 /\ w.psz = 0 /\ TwoStage
  <2> DEFINE group == LateGroup(t, n, slot)
             ws == Spawned(t, w.l0, n)
  <2>1. JoinGroup(t, group, ws, Updates(vs, S2Update(w)))
    <3>1. w.psz = 0 /\ ~(w.psz > 0)  BY <1>10
    <3> QED BY <1>10, <3>1 DEF Finish, vs
  <2>2. GroupFormed(group) /\ group.st = "open" /\ group.main /\ group.pend = n
    <3>1. group = LateGroup(t, n, slot)  OBVIOUS
    <3> HIDE DEF n, slot, group
    <3> QED BY <1>1, <1>3, <3>1, NewGroups
  <2>3. i = <<t, 0>> /\ t \in Tasks /\ Running(t) = {}  BY <1>10, MainWalk
  <2>4. /\ DOMAIN ws = Ids
        /\ \A j \in Ids : j[1] # t \/ j[2] = 0 => ws[j] = walks[j]
        /\ \A j \in Ids : WellFormed(ws[j]) /\ PrefetchPhase(j, ws[j])
        /\ Cardinality({d \in 1..s.depth : ws[<<t, d>>].ph \in Phases}) = n
    <3>1. Typed /\ TwoStage /\ t \in Tasks /\ Running(t) = {} /\ n \in 0..s.depth
      BY <1>1, <1>3, <1>10, <2>3
    <3> HIDE DEF t, n
    <3>2. Begun(ws, t, n)  BY <3>1, SpawnedWalks
    <3> HIDE DEF ws
    <3> QED BY <3>2 DEF Begun
  <2>5. walks[<<t, 0>>].ph \in Phases \union {"queued"}  BY <2>3
  <2> HIDE DEF group, ws, t, n
  <2> QED BY <1>6, <2>1, <2>2, <2>3, <2>4, <2>5, JoinKeeps
<1>11. CASE ~IsPrefetch(i) /\ groups[t].st # "open" /\ w.depth > 0 /\ w.psz = 0 /\ ~TwoStage
  <2> DEFINE group == BurstGroup(i, w)
  <2>1. JoinGroup(t, group, walks, Updates(vs, {}))  BY <1>11 DEF Finish, vs
  <2>2. GroupFormed(group) /\ group.st = "open" /\ group.main /\ group.pend = 0
    BY <1>1, <1>3, NewGroups
  <2> HIDE DEF group
  <2> QED BY <1>6, <1>11, <2>1, <2>2, CompleteGroup
<1>12. CASE ~IsPrefetch(i) /\ groups[t].st # "open" /\ ~(w.depth > 0)
  <2>1. EndAlone(i, w)  BY <1>12 DEF Finish
  <2>2. PICK r, g : Release(t, r, g, Updates(vs, IF w.msi THEN {} ELSE S2Update(w)))
    BY <2>1 DEF EndAlone, vs
  <2>3. UpdatesFormed(Updates(vs, IF w.msi THEN {} ELSE S2Update(w)))  BY <1>6
  <2>4. i = <<t, 0>> /\ t \in Tasks  BY <1>12, MainWalk
  <2>5. walks[<<t, 0>>].ph \in Phases \union {"queued"}  BY <2>4
  <2> HIDE DEF t
  <2> QED BY <1>12, <2>2, <2>3, <2>4, <2>5, ReleaseKeeps
<1> QED BY <1>2, <1>7, <1>8, <1>9, <1>10, <1>11, <1>12

\* The second stage of a GPA begins, or ends at once with a line of the cache.
LEMMA ExplicitKeeps ==
  ASSUME Inv, TwoStage, NEW i \in Ids, walks[i].ph \in Phases, NEW w, WellFormed(w),
         Explicit(i, w)
  PROVE  Inv'
<1> DEFINE e == LookupS2(w.gpa)
           ready == [w EXCEPT !.ph = "GS_EXPLICIT"]
<1>1. s \in Scenarios /\ \A f \in s2 : f.h \in 1..3  BY DEF Inv, Typed, LinesFormed
<1>2. e.h \in 0..3 /\ (e.leaf => e.h > 0)  BY <1>1, LookupLine DEF LookupS2
<1>3. "GS_EXPLICIT" \in Phases /\ "GS_EXPLICIT" \in Stations  BY DEF Phases, Stations
<1>4. WellFormed(ready) /\ ready.ph = "GS_EXPLICIT"  BY <1>3 DEF WellFormed, Fields
<1>5. CASE e.leaf
  <2> DEFINE v == [w EXCEPT !.s2hit = e.h, !.gsz = 4 - e.h, !.pa = Within(e.ppn, w.gpa, 4 - e.h)]
  <2>1. Finish(i, v)  BY <1>5 DEF Explicit
  <2>2. 4 - e.h \in 0..3  BY <1>2, <1>5
  <2> HIDE DEF e
  <2>3. WellFormed(v)  BY <2>2 DEF WellFormed, Fields
  <2> HIDE DEF v
  <2> QED BY <2>1, <2>3, FinishKeeps
<1>6. CASE ~e.leaf /\ e.h > 0
  <2> DEFINE v == FromS2(ready, w.gpa, e)
  <2>1. Continue(i, v)  BY <1>6 DEF Explicit
  <2>2. e.h \in 1..3  BY <1>2, <1>6
  <2> HIDE DEF e, ready
  <2>3. WellFormed(v) /\ v.ph = "GS_EXPLICIT"  BY <1>1, <1>4, <2>2, FromS2Walk
  <2> HIDE DEF v
  <2> QED BY <1>3, <2>1, <2>3, ContinueKeeps DEF PrefetchPhase
<1>7. CASE ~e.leaf /\ ~(e.h > 0)
  <2> DEFINE v == InitGstage(ready, w.gpa)
  <2>1. Continue(i, v)  BY <1>7 DEF Explicit
  <2> HIDE DEF ready
  <2>2. WellFormed(v) /\ v.ph = "GS_EXPLICIT"  BY <1>1, <1>4, InitGstageWalk
  <2> HIDE DEF v
  <2> QED BY <1>3, <2>1, <2>2, ContinueKeeps DEF PrefetchPhase
<1> QED BY <1>5, <1>6, <1>7

LEMMA TranslatedKeeps ==
  ASSUME Inv, NEW i \in Ids, walks[i].ph \in Phases, NEW w, WellFormed(w), Translated(i, w)
  PROVE  Inv'
<1> DEFINE isMsi == Task(i).msi /\ w.gpa \in s.msipages
<1>1. CASE isMsi
  <2> DEFINE v == [w EXCEPT !.msi = TRUE, !.pa = w.gpa, !.depth = 0]
  <2>1. Finish(i, v)  BY <1>1 DEF Translated
  <2>2. 0 \in 0..s.depth
    <3>1. s \in Scenarios  BY DEF Inv, Typed
    <3> QED BY <3>1, ScenarioFacts
  <2>3. WellFormed(v)  BY <2>2 DEF WellFormed, Fields
  <2> HIDE DEF v
  <2> QED BY <2>1, <2>3, FinishKeeps
<1>2. CASE ~isMsi /\ TwoStage
  <2>1. Explicit(i, w)  BY <1>2 DEF Translated
  <2> QED BY <1>2, <2>1, ExplicitKeeps
<1>3. CASE ~isMsi /\ ~TwoStage
  <2> DEFINE v == [w EXCEPT !.pa = w.gpa]
  <2>1. Finish(i, v)  BY <1>3 DEF Translated
  <2>2. WellFormed(v)  BY DEF WellFormed, Fields
  <2> HIDE DEF v
  <2> QED BY <2>1, <2>2, FinishKeeps
<1> QED BY <1>1, <1>2, <1>3

-----------------------------------------------------------------------------
(* ptw_rsp_process_thread, one lemma per phase.                             *)

\* A walk in its phase with an answer, and what the handler makes of it.
LEMMA WalkInHand ==
  ASSUME Inv, NEW i \in Ids, NEW phase \in Phases, Back(i, phase)
  PROVE  /\ s \in Scenarios /\ walks[i].ph \in Phases
         /\ WellFormed(Idle(walks[i])) /\ Idle(walks[i]).ph = phase
<1>1. s \in Scenarios /\ WellFormed(walks[i])  BY DEF Inv, Typed
<1>2. walks[i].ph = phase  BY DEF Back
<1> QED BY <1>1, <1>2, IdleWalk

LEMMA VsLeafKeeps ==
  ASSUME Inv, NEW i \in Ids, walks[i].ph \in Phases, NEW w, WellFormed(w), w.ph \in Phases,
         NEW pte, VsLeaf(i, w, pte)
  PROVE  Inv'
<1> DEFINE leaf == [w EXCEPT !.psz = w.lev, !.gpa = Within(pte.ppn, Iova(i), w.lev)]
           set == pte.p \cup {"A"} \cup (IF Writes(i) THEN {"D"} ELSE {})
           read == Read(leaf, w.base, Idx(Iova(i), w.lev))
           new == [read EXCEPT !.ph = "AD_UPDATE", !.ad = [pte EXCEPT !.p = set]]
<1>1. s \in Scenarios  BY DEF Inv, Typed
<1>2. \/ VsFault(i, w) \/ Continue(i, new) \/ Translated(i, leaf)
  BY DEF VsLeaf
<1>3. WellFormed(leaf)  BY DEF WellFormed, Fields
<1> HIDE DEF leaf
<1>4. WellFormed(read)  BY <1>1, <1>3, ReadWalk
<1> HIDE DEF read
<1>5. "AD_UPDATE" \in Phases /\ "AD_UPDATE" \in Stations  BY DEF Phases, Stations
<1>6. WellFormed(new) /\ new.ph = "AD_UPDATE"  BY <1>4, <1>5 DEF WellFormed, Fields
<1> HIDE DEF new
<1>7. CASE VsFault(i, w)  BY <1>7, FailKeeps DEF VsFault
<1>8. CASE Continue(i, new)
  <2>1. PrefetchPhase(i, new)  BY <1>6 DEF PrefetchPhase
  <2> QED BY <1>5, <1>6, <1>8, <2>1, ContinueKeeps
<1>9. CASE Translated(i, leaf)  BY <1>3, <1>9, TranslatedKeeps
<1> QED BY <1>2, <1>7, <1>8, <1>9

LEMMA VsTableKeeps ==
  ASSUME Inv, NEW i \in Ids, walks[i].ph \in Phases, NEW w, WellFormed(w), w.ph = "VS_WALK",
         NEW pte, VsTable(i, w, pte)
  PROVE  Inv'
<1> DEFINE below == w.lev - 1
           last == below = 0 /\ w.depth > 0
           n == InTable(Iova(i), w.depth)
           next == [w EXCEPT !.lev = below, !.base = pte.ppn]
<1>1. s \in Scenarios /\ s.depth \in Nat /\ Iova(i) \in Nat
  BY ScenarioFacts DEF Inv, Typed
<1>2. w.lev \in 0..3 /\ w.depth \in 0..s.depth /\ \A e \in w.ents : e[1] \in 1..3
  BY DEF WellFormed
<1>3. "VS_WALK" \in Phases /\ "GS_IMPLICIT" \in Phases /\ "GS_IMPLICIT" \in Stations
  BY DEF Phases, Stations
<1>4. CASE below < 0
  <2>1. VsFault(i, w)
    <3>1. ~(below >= 0)  BY <1>2, <1>4
    <3> QED BY <1>4, <3>1 DEF VsTable
  <2> QED BY <2>1, FailKeeps DEF VsFault
<1>5. ASSUME below >= 0 PROVE WellFormed(next) /\ next.ph = "VS_WALK" /\ next.depth = w.depth
                              /\ next.ents = w.ents
  <2>1. below \in 0..3  BY <1>2, <1>5
  <2> HIDE DEF below
  <2> QED BY <2>1 DEF WellFormed, Fields
<1>6. CASE below >= 0 /\ TwoStage
  <2> DEFINE init == InitGstage(next, pte.ppn)
             new == [init EXCEPT !.ph = "GS_IMPLICIT"]
  <2>1. Continue(i, new)
    <3>1. ~(below < 0)  BY <1>2, <1>6
    <3> QED BY <1>6, <3>1 DEF VsTable
  <2> HIDE DEF next
  <2>2. WellFormed(init)  BY <1>1, <1>5, <1>6, InitGstageWalk
  <2> HIDE DEF init
  <2>3. WellFormed(new) /\ new.ph = "GS_IMPLICIT"  BY <1>3, <2>2 DEF WellFormed, Fields
  <2> HIDE DEF new
  <2>4. PrefetchPhase(i, new)  BY <2>3 DEF PrefetchPhase
  <2> QED BY <1>3, <2>1, <2>3, <2>4, ContinueKeeps
<1>7. CASE below >= 0 /\ ~TwoStage
  <2> DEFINE read == Read(next, pte.ppn, Idx(Iova(i), below))
             num == IF last THEN 1 + n ELSE 1
             new == [read EXCEPT !.ents = @ \cup {<<4 - w.lev, pte.ppn>>},
                                 !.n = num, !.depth = IF last THEN n ELSE @]
  <2>1. Continue(i, new)
    <3>1. ~(below < 0)  BY <1>2, <1>7
    <3> QED BY <1>7, <3>1 DEF VsTable
  <2>2. n \in 0..s.depth
    <3>1. w.depth \in Nat  BY <1>1, <1>2
    <3>2. n \in 0..w.depth  BY <1>1, <3>1, InTableRange
    <3> HIDE DEF n
    <3> QED BY <1>1, <1>2, <3>1, <3>2
  <2> HIDE DEF n
  <2>3. num \in 0..s.depth + 1  BY <1>1, <2>2
  <2>4. 4 - w.lev \in 1..3  BY <1>2, <1>7
  <2>5. <<4 - w.lev, pte.ppn>>[1] \in 1..3  BY <2>4
  <2> HIDE DEF num, last, next, below
  <2>6. WellFormed(read) /\ read.ph = "VS_WALK"
    <3>1. WellFormed(next) /\ next.ph = "VS_WALK"  BY <1>5, <1>7
    <3> QED BY <1>1, <3>1, ReadWalk
  <2> HIDE DEF read
  <2>7. WellFormed(new) /\ new.ph = "VS_WALK"
    <3> DEFINE line == <<4 - w.lev, pte.ppn>>
    <3>1. line[1] \in 1..3  BY <2>5
    <3> HIDE DEF line
    <3>2. new = [read EXCEPT !.ents = read.ents \cup {line}, !.n = num,
                             !.depth = IF last THEN n ELSE read.depth]
      BY <2>6 DEF line, WellFormed, Fields
    <3> HIDE DEF new
    <3> QED BY <2>2, <2>3, <2>6, <3>1, <3>2 DEF WellFormed, Fields
  <2> HIDE DEF new
  <2>8. PrefetchPhase(i, new)  BY <2>7 DEF PrefetchPhase
  <2> QED BY <1>3, <2>1, <2>7, <2>8, ContinueKeeps
<1>8. below < 0 \/ below >= 0  BY <1>2
<1> QED BY <1>4, <1>6, <1>7, <1>8

LEMMA VsWalkKeeps ==
  ASSUME Inv, NEW i \in Ids, VsWalk(i)
  PROVE  Inv'
<1> DEFINE w == Idle(walks[i])
<1>1. "VS_WALK" \in Phases  BY DEF Phases
<1>2. Back(i, "VS_WALK")  BY DEF VsWalk
<1>3. walks[i].ph \in Phases /\ WellFormed(w) /\ w.ph = "VS_WALK"  BY <1>1, <1>2, WalkInHand
<1>4. VsFault(i, w) \/ VsLeaf(i, w, Pte(i)) \/ VsTable(i, w, Pte(i))  BY DEF VsWalk
<1> HIDE DEF w
<1>5. CASE VsFault(i, w)  BY <1>3, <1>5, FailKeeps DEF VsFault
<1>6. CASE VsLeaf(i, w, Pte(i))  BY <1>1, <1>3, <1>6, VsLeafKeeps
<1>7. CASE VsTable(i, w, Pte(i))  BY <1>3, <1>7, VsTableKeeps
<1> QED BY <1>4, <1>5, <1>6, <1>7

LEMMA GsImplicitKeeps ==
  ASSUME Inv, NEW i \in Ids, GsImplicit(i)
  PROVE  Inv'
<1> DEFINE w == Idle(walks[i])
           pte == Pte(i)
           spa == Within(pte.ppn, w.base, w.glev)
           entry == IF w.lev < s.vtop THEN {<<3 - w.lev, spa>>} ELSE {}
           read == Read(w, spa, Idx(Iova(i), w.lev))
           down == [read EXCEPT !.ph = "VS_WALK", !.l0 = IF w.lev = 0 THEN spa ELSE @,
                                !.ents = @ \cup entry]
           next == Read(w, pte.ppn, Idx(w.base, w.glev - 1))
           deeper == [next EXCEPT !.glev = @ - 1]
<1>1. "GS_IMPLICIT" \in Phases /\ "VS_WALK" \in Phases /\ "VS_WALK" \in Stations
  BY DEF Phases, Stations
<1>2. Back(i, "GS_IMPLICIT")  BY DEF GsImplicit
<1>3. s \in Scenarios /\ walks[i].ph \in Phases /\ WellFormed(w) /\ w.ph = "GS_IMPLICIT"
  BY <1>1, <1>2, WalkInHand
<1>4. \/ Fail(i, w, GuestFault("read"))
      \/ Continue(i, down)
      \/ w.glev # 0 /\ Continue(i, deeper)
  BY DEF GsImplicit
<1> HIDE DEF w
<1>5. w.lev \in 0..3 /\ w.glev \in 0..3  BY <1>3 DEF WellFormed
<1>6. \A e \in entry : e[1] \in 1..3
  <2>1. CASE w.lev < s.vtop
    <3>1. s.vtop <= 3 /\ s.vtop \in Int  BY <1>3, ScenarioFacts DEF Bare
    <3>2. 3 - w.lev \in 1..3  BY <1>5, <2>1, <3>1
    <3> QED BY <2>1, <3>2
  <2>2. CASE ~(w.lev < s.vtop)  BY <2>2
  <2> QED BY <2>1, <2>2
<1> HIDE DEF spa, entry
<1>7. WellFormed(read) /\ WellFormed(next) /\ next.ph = "GS_IMPLICIT" /\ next.glev = w.glev
  <2>1. WellFormed(read) /\ WellFormed(next) /\ next.ph = "GS_IMPLICIT"  BY <1>3, ReadWalk
  <2>2. next.glev = w.glev  BY <1>3 DEF Read, Send, WellFormed, Fields
  <2> QED BY <2>1, <2>2
<1> HIDE DEF read, next, pte
<1>8. WellFormed(down) /\ down.ph = "VS_WALK"
  <2>1. down = [read EXCEPT !.ph = "VS_WALK", !.l0 = IF w.lev = 0 THEN spa ELSE read.l0,
                            !.ents = read.ents \cup entry]
    BY <1>7 DEF WellFormed, Fields
  <2> HIDE DEF down
  <2> QED BY <1>1, <1>6, <1>7, <2>1 DEF WellFormed, Fields
<1> HIDE DEF down
<1>9. CASE Fail(i, w, GuestFault("read"))  BY <1>3, <1>9, FailKeeps
<1>10. CASE Continue(i, down)
  <2>1. PrefetchPhase(i, down)  BY <1>8 DEF PrefetchPhase
  <2> QED BY <1>1, <1>3, <1>8, <1>10, <2>1, ContinueKeeps
<1>11. CASE w.glev # 0 /\ Continue(i, deeper)
  <2>1. next.glev - 1 \in 0..3  BY <1>5, <1>7, <1>11
  <2>2. deeper = [next EXCEPT !.glev = next.glev - 1]  BY <1>7 DEF WellFormed, Fields
  <2>3. WellFormed(deeper) /\ deeper.ph = "GS_IMPLICIT"
    <3> HIDE DEF deeper
    <3> QED BY <1>7, <2>1, <2>2 DEF WellFormed, Fields
  <2> HIDE DEF deeper
  <2>4. PrefetchPhase(i, deeper)  BY <2>3 DEF PrefetchPhase
  <2> QED BY <1>1, <1>3, <1>11, <2>3, <2>4, ContinueKeeps
<1> QED BY <1>4, <1>9, <1>10, <1>11

LEMMA VsPteReadKeeps ==
  ASSUME Inv, NEW i \in Ids, VsPteRead(i)
  PROVE  Inv'
<1> DEFINE w == Idle(walks[i])
           gpa == [w EXCEPT !.gpa = Pte(i).ppn]
<1>1. "VS_PTE_READ" \in Phases  BY DEF Phases
<1>2. Back(i, "VS_PTE_READ")  BY DEF VsPteRead
<1>3. walks[i].ph \in Phases /\ WellFormed(w)  BY <1>1, <1>2, WalkInHand
<1>4. IsPrefetch(i) /\ TwoStage
  BY <1>2 DEF Inv, Typed, PrefetchPhase, Back, IsPrefetch
<1>5. EndPrefetch(i, Unfilled(i[1], i[2]), {}) \/ Explicit(i, gpa)  BY DEF VsPteRead
<1> HIDE DEF w
<1>6. WellFormed(gpa)  BY <1>3 DEF WellFormed, Fields
<1> HIDE DEF gpa
<1>7. CASE EndPrefetch(i, Unfilled(i[1], i[2]), {})
  <2>1. UpdatesFormed({})  BY DEF UpdatesFormed
  <2> QED BY <1>3, <1>4, <1>7, <2>1, EndPrefetchKeeps
<1>8. CASE Explicit(i, gpa)  BY <1>3, <1>4, <1>6, <1>8, ExplicitKeeps
<1> QED BY <1>5, <1>7, <1>8

LEMMA GsExplicitKeeps ==
  ASSUME Inv, NEW i \in Ids, GsExplicit(i)
  PROVE  Inv'
<1> DEFINE w == Idle(walks[i])
           pte == Pte(i)
           done == [w EXCEPT !.gsz = w.glev, !.pa = Within(pte.ppn, w.gpa, w.glev)]
           next == Read(w, pte.ppn, Idx(w.gpa, w.glev - 1))
           line == <<4 - w.glev, pte.ppn>>
           deeper == [next EXCEPT !.glev = @ - 1, !.s2ents = @ \cup {line}]
<1>1. "GS_EXPLICIT" \in Phases  BY DEF Phases
<1>2. Back(i, "GS_EXPLICIT")  BY DEF GsExplicit
<1>3. s \in Scenarios /\ walks[i].ph \in Phases /\ WellFormed(w) /\ w.ph = "GS_EXPLICIT"
  BY <1>1, <1>2, WalkInHand
<1>4. \/ Fail(i, w, GuestFault(Task(i).acc))
      \/ Finish(i, done)
      \/ w.glev # 0 /\ Continue(i, deeper)
  BY DEF GsExplicit
<1> HIDE DEF w
<1>5. w.glev \in 0..3  BY <1>3 DEF WellFormed
<1>6. WellFormed(done)  BY <1>3 DEF WellFormed, Fields
<1>7. WellFormed(next) /\ next.ph = "GS_EXPLICIT" /\ next.glev = w.glev
  <2>1. WellFormed(next) /\ next.ph = "GS_EXPLICIT"  BY <1>3, ReadWalk
  <2>2. next.glev = w.glev  BY <1>3 DEF Read, Send, WellFormed, Fields
  <2> QED BY <2>1, <2>2
<1>8. w.glev # 0 => line[1] \in 1..3
  <2>1. w.glev # 0 => 4 - w.glev \in 1..3  BY <1>5
  <2>2. line[1] = 4 - w.glev  OBVIOUS
  <2> QED BY <2>1, <2>2
<1> HIDE DEF done, next, line, pte
<1>9. CASE Fail(i, w, GuestFault(Task(i).acc))  BY <1>3, <1>9, FailKeeps
<1>10. CASE Finish(i, done)  BY <1>3, <1>6, <1>10, FinishKeeps
<1>11. CASE w.glev # 0 /\ Continue(i, deeper)
  <2>1. next.glev - 1 \in 0..3  BY <1>5, <1>7, <1>11
  <2>2. deeper = [next EXCEPT !.glev = next.glev - 1, !.s2ents = next.s2ents \cup {line}]
    BY <1>7 DEF WellFormed, Fields
  <2>3. WellFormed(deeper) /\ deeper.ph = "GS_EXPLICIT"
    <3> HIDE DEF deeper
    <3> QED BY <1>7, <1>8, <1>11, <2>1, <2>2 DEF WellFormed, Fields
  <2> HIDE DEF deeper
  <2>4. PrefetchPhase(i, deeper)  BY <2>3 DEF PrefetchPhase
  <2> QED BY <1>1, <1>3, <1>11, <2>3, <2>4, ContinueKeeps
<1> QED BY <1>4, <1>9, <1>10, <1>11

LEMMA AdUpdateKeeps ==
  ASSUME Inv, NEW i \in Ids, AdUpdate(i)
  PROVE  Inv'
<1> DEFINE v == Idle(walks[i])
           w == [v EXCEPT !.ad = Bad]
           init == InitGstage(w, w.gpa)
           new == [init EXCEPT !.ph = "GS_EXPLICIT"]
           e == LookupS2(w.gpa)
           below == FromS2(new, w.gpa, e)
           done == [w EXCEPT !.pa = w.gpa]
<1>1. "AD_UPDATE" \in Phases /\ "GS_EXPLICIT" \in Phases /\ "GS_EXPLICIT" \in Stations
  BY DEF Phases, Stations
<1>2. Back(i, "AD_UPDATE")  BY DEF AdUpdate
<1>3. s \in Scenarios /\ walks[i].ph \in Phases /\ WellFormed(v)
  BY <1>1, <1>2, WalkInHand
<1>4. \/ TwoStage /\ e.h > 0 /\ Continue(i, below)
      \/ TwoStage /\ Continue(i, new)
      \/ Finish(i, done)
  BY DEF AdUpdate
<1> HIDE DEF v
<1>5. WellFormed(w)  BY <1>3 DEF WellFormed, Fields
<1> HIDE DEF w
<1>6. WellFormed(done)  BY <1>5 DEF WellFormed, Fields
<1>7. TwoStage => WellFormed(init)  BY <1>3, <1>5, InitGstageWalk
<1> HIDE DEF init
<1>8. TwoStage => WellFormed(new) /\ new.ph = "GS_EXPLICIT"
  BY <1>1, <1>7 DEF WellFormed, Fields
<1>9. e.h \in 0..3
  <2>1. \A f \in s2 : f.h \in 1..3  BY DEF Inv, Typed, LinesFormed
  <2> QED BY <2>1, LookupLine DEF LookupS2
<1> HIDE DEF new, e
<1>10. TwoStage /\ e.h > 0 => WellFormed(below) /\ below.ph = "GS_EXPLICIT"
  BY <1>3, <1>8, <1>9, FromS2Walk
<1> HIDE DEF below, done
<1>11. CASE TwoStage /\ e.h > 0 /\ Continue(i, below)
  <2>1. PrefetchPhase(i, below)  BY <1>10, <1>11 DEF PrefetchPhase
  <2> QED BY <1>1, <1>3, <1>10, <1>11, <2>1, ContinueKeeps
<1>12. CASE TwoStage /\ Continue(i, new)
  <2>1. PrefetchPhase(i, new)  BY <1>8, <1>12 DEF PrefetchPhase
  <2> QED BY <1>1, <1>3, <1>8, <1>12, <2>1, ContinueKeeps
<1>13. CASE Finish(i, done)  BY <1>3, <1>6, <1>13, FinishKeeps
<1> QED BY <1>4, <1>11, <1>12, <1>13

LEMMA HandleKeeps ==
  ASSUME Inv, NEW i \in Ids, Handle(i)
  PROVE  Inv'
BY VsWalkKeeps, GsImplicitKeeps, VsPteReadKeeps, GsExplicitKeeps, AdUpdateKeeps DEF Handle

-----------------------------------------------------------------------------
(* From the submission of a task to the start of its walk.                  *)

\* Steps that touch neither the counter nor a group, and leave a task within
\* or without the PTW as it was.
LEMMA OneWalkKeeps ==
  ASSUME Inv, s' = s, NEW i \in Ids, NEW w, WellFormed(w), PrefetchPhase(i, w),
         walks' = [walks EXCEPT ![i] = w],
         UNCHANGED <<wc, s2, upd, groups, outstanding>>,
         \/ w.ph = walks[i].ph
         \/ i[2] = 0 /\ walks[i].ph = "idle" /\ w.ph = "routed"
         \/ i[2] = 0 /\ walks[i].ph = "idle" /\ w.ph = "ended"
  PROVE  Inv'
<1> DEFINE t == i[1]
<1>1. s \in Scenarios /\ DOMAIN walks = Ids /\ t \in Tasks /\ i[2] \in 0..s.depth
      /\ i = <<t, i[2]>> /\ s.depth \in Nat
  <2>1. s \in Scenarios /\ DOMAIN walks = Ids  BY DEF Inv, Typed
  <2> QED BY <2>1, ScenarioFacts DEF Ids
<1>2. DOMAIN walks' = Ids /\ walks'[i] = w /\ \A j \in Ids : j # i => walks'[j] = walks[j]
  BY <1>1
<1>3. Typed'
  <2>1. UpdatesFormed(upd') /\ (\A e \in wc' \union s2' : e.h \in 1..3) /\ outstanding' \in Int
        /\ DOMAIN groups' = Tasks
    BY DEF Inv, Typed, LinesFormed, UpdatesFormed
  <2> QED BY <1>2, <2>1, TypedNext DEF Inv
<1>4. Running(t)' = Running(t)
  <2>1. ASSUME NEW d \in 1..s.depth PROVE walks'[<<t, d>>].ph = walks[<<t, d>>].ph
    <3>1. <<t, d>> \in Ids  BY <1>1 DEF Ids
    <3>2. CASE <<t, d>> = i
      <4>1. i[2] = d /\ d # 0  BY <1>1, <3>2
      <4> QED BY <1>2, <3>2, <4>1
    <3> QED BY <1>2, <3>1, <3>2
  <2> QED BY <2>1 DEF Running
<1>5. InStep(t) /\ PendingCounted(t)  BY <1>1 DEF Inv, Books
<1>6. \/ walks'[<<t, 0>>].ph = walks[<<t, 0>>].ph
      \/ walks[<<t, 0>>].ph = "idle" /\ walks'[<<t, 0>>].ph \in {"routed", "ended"}
  <2>1. <<t, 0>> \in Ids  BY <1>1, ScenarioFacts
  <2>2. CASE i = <<t, 0>>  BY <2>1, <2>2, <1>2
  <2>3. CASE i # <<t, 0>>
    <3>1. i[2] # 0  BY <1>1, <2>3
    <3> QED BY <2>1, <2>3, <3>1, <1>2
  <2> QED BY <2>2, <2>3
<1>7. InStep(t)'  BY <1>4, <1>5, <1>6, PhasesApart DEF InStep
<1>8. PendingCounted(t)'  BY <1>4, <1>5 DEF PendingCounted
<1>9. HasPlace(t)' <=> HasPlace(t)  BY <1>6, PhasesApart DEF HasPlace
<1>10. Books'
  <2>1. \A j \in Ids : j[1] # t => walks'[j].ph = walks[j].ph  BY <1>2
  <2>2. \A u \in Tasks \ {t} : groups'[u] = groups[u]  OBVIOUS
  <2> HIDE DEF t
  <2> QED BY <1>1, <1>7, <1>8, <1>9, <2>1, <2>2, BooksNext DEF Inv
<1> QED BY <1>3, <1>10 DEF Inv

LEMMA SubmitKeeps ==
  ASSUME Inv, NEW t \in Tasks, Submit(t)
  PROVE  Inv'
<1> DEFINE i == <<t, 0>>
           front == IF Task(i).msi THEN NoLine ELSE Lookup(wc, Task(i).iova)
           routed == [NoWalk EXCEPT !.ph = "routed", !.depth = s.depth, !.front = front]
<1>1. s \in Scenarios /\ s.depth \in Nat /\ i \in Ids  BY ScenarioFacts DEF Inv, Typed
<1>2. /\ walks[i].ph = "idle" /\ s' = s
      /\ UNCHANGED <<wc, s2, upd, groups, outstanding>>
      /\ walks' = [walks EXCEPT ![i] = Ended] \/ walks' = [walks EXCEPT ![i] = routed]
  BY DEF Submit, caches, Task
<1>3. front.h \in 0..3
  <2>1. \A e \in wc : e.h \in 1..3  BY DEF Inv, Typed, LinesFormed
  <2> QED BY <2>1, LookupLine DEF NoLine
<1> HIDE DEF front
<1>4. WellFormed(routed) /\ routed.ph = "routed"
  <2>1. WellFormed(NoWalk)  BY <1>1, IdleWalkFormed
  <2>2. s.depth \in 0..s.depth  BY <1>1
  <2> HIDE DEF NoWalk
  <2> QED BY <1>3, <2>1, <2>2 DEF WellFormed, Fields, Stations
<1>5. WellFormed(Ended) /\ Ended.ph = "ended"  BY <1>1, IdleWalkFormed
<1> HIDE DEF routed
<1>6. PrefetchPhase(i, Ended) /\ PrefetchPhase(i, routed)  BY <1>4, <1>5 DEF PrefetchPhase
<1>7. i[2] = 0  OBVIOUS
<1> HIDE DEF i
<1> QED BY <1>1, <1>2, <1>4, <1>5, <1>6, <1>7, OneWalkKeeps

LEMMA ServeKeeps ==
  ASSUME Inv, NEW i \in Ids, Serve(i)
  PROVE  Inv'
<1> DEFINE b == IF walks[i].ph = "AD_UPDATE" THEN walks[i].buf
                ELSE [k \in 1..walks[i].n |-> Word(<<walks[i].addr[1], walks[i].addr[2] + k - 1>>)]
           w == [walks[i] EXCEPT !.io = "back", !.buf = b]
<1>1. WellFormed(walks[i]) /\ PrefetchPhase(i, walks[i]) /\ DOMAIN walks = Ids
  BY DEF Inv, Typed
<1>2. s' = s /\ UNCHANGED <<wc, s2, upd, groups, outstanding>>  BY DEF Serve, caches
<1>3. walks' = [walks EXCEPT ![i] = w]
  <2> DEFINE h == [walks EXCEPT ![i].io = "back"]
  <2>1. walks' = [h EXCEPT ![i].buf = IF walks[i].ph = "AD_UPDATE" THEN @
              ELSE [k \in 1..walks[i].n |-> Word(<<walks[i].addr[1], walks[i].addr[2] + k - 1>>)]]
    BY DEF Serve
  <2>2. DOMAIN h = Ids /\ h[i] = [walks[i] EXCEPT !.io = "back"]
        /\ \A j \in Ids : j # i => h[j] = walks[j]
    BY <1>1
  <2>3. h[i].buf = walks[i].buf  BY <1>1, <2>2 DEF WellFormed, Fields
  <2> HIDE DEF h
  <2>4. walks' = [h EXCEPT ![i].buf = b]  BY <2>1, <2>3
  <2> HIDE DEF b
  <2>5. DOMAIN walks' = Ids /\ walks'[i] = [h[i] EXCEPT !.buf = b]
        /\ \A j \in Ids : j # i => walks'[j] = h[j]
    BY <2>2, <2>4
  <2>6. walks'[i] = w  BY <2>2, <2>5
  <2> HIDE DEF w
  <2>7. walks' = [j \in Ids |-> IF j = i THEN w ELSE walks[j]]
    BY <2>2, <2>4, <2>5, <2>6
  <2> QED BY <2>7, <1>1
<1> HIDE DEF b
<1>4. WellFormed(w) /\ w.ph = walks[i].ph  BY <1>1 DEF WellFormed, Fields
<1> HIDE DEF w
<1>5. PrefetchPhase(i, w)  BY <1>1, <1>4 DEF PrefetchPhase
<1> QED BY <1>2, <1>3, <1>4, <1>5, OneWalkKeeps

LEMMA AdmitKeeps ==
  ASSUME Inv, NEW t \in Tasks, Admit(t)
  PROVE  Inv'
<1> DEFINE i == <<t, 0>>
           w == [walks[i] EXCEPT !.ph = "queued"]
<1>1. s \in Scenarios /\ s.depth \in Nat /\ i \in Ids  BY ScenarioFacts DEF Inv, Typed
<1>2. /\ walks[i].ph = "routed" /\ s' = s
      /\ outstanding < MaxOutstanding /\ outstanding' = outstanding + 1
      /\ UNCHANGED <<wc, s2, upd, groups>>
      /\ walks' = [walks EXCEPT ![i].ph = "queued"]
  BY DEF Admit, caches
<1>3. WellFormed(walks[i]) /\ DOMAIN walks = Ids /\ outstanding \in Int  BY <1>1 DEF Inv, Typed
<1>4. WellFormed(w) /\ w.ph = "queued"  BY <1>3 DEF WellFormed, Fields, Stations
<1>5. walks'[i] = w /\ DOMAIN walks' = Ids /\ \A j \in Ids : j # i => walks'[j] = walks[j]
  BY <1>1, <1>2, <1>3
<1> HIDE DEF w
<1>6. Typed'
  <2>1. UpdatesFormed(upd') /\ (\A e \in wc' \union s2' : e.h \in 1..3) /\ outstanding' \in Int
        /\ DOMAIN groups' = Tasks
    BY <1>2, <1>3 DEF Inv, Typed, LinesFormed, UpdatesFormed
  <2>2. PrefetchPhase(i, w)  BY <1>4 DEF PrefetchPhase
  <2> QED BY <1>2, <1>4, <1>5, <2>1, <2>2, TypedNext DEF Inv
<1>7. Running(t)' = Running(t)
  <2>1. ASSUME NEW d \in 1..s.depth PROVE walks'[<<t, d>>] = walks[<<t, d>>]
    <3>1. <<t, d>> \in Ids /\ <<t, d>> # i  BY <1>1 DEF Ids
    <3> QED BY <1>5, <3>1
  <2> QED BY <1>2, <2>1 DEF Running
<1>8. InStep(t) /\ PendingCounted(t) /\ GroupFormed(groups[t])  BY DEF Inv, Books, Typed
<1>9. groups[t].st = "none"  BY <1>2, <1>8, PhasesApart DEF InStep, GroupFormed
<1>10. InStep(t)' /\ PendingCounted(t)'
  BY <1>2, <1>4, <1>5, <1>7, <1>8, <1>9 DEF InStep, PendingCounted
<1>11. ~HasPlace(t) /\ HasPlace(t)'
  BY <1>2, <1>4, <1>5, <1>9, PhasesApart DEF HasPlace
<1>12. Books'
  <2>1. \A j \in Ids : j[1] # t => walks'[j].ph = walks[j].ph  BY <1>5
  <2> QED BY <1>2, <1>10, <1>11, <2>1, BooksNext DEF Inv
<1> QED BY <1>6, <1>12 DEF Inv

-----------------------------------------------------------------------------
(* ptw_req_process_thread.                                                  *)

\* A task that waits for its walk: it has no group and no prefetches.
LEMMA Queued ==
  ASSUME Inv, NEW t \in Tasks, walks[<<t, 0>>].ph = "queued"
  PROVE  /\ s \in Scenarios /\ <<t, 0>> \in Ids /\ ~IsPrefetch(<<t, 0>>)
         /\ WellFormed(walks[<<t, 0>>]) /\ Iova(<<t, 0>>) \in Nat
         /\ groups[t].st = "none" /\ Running(t) = {}
         /\ walks[<<t, 0>>].ph \in Phases \union {"queued"}
<1>1. s \in Scenarios /\ <<t, 0>> \in Ids  BY ScenarioFacts DEF Inv, Typed
<1>2. ~IsPrefetch(<<t, 0>>)  BY DEF IsPrefetch
<1>3. WellFormed(walks[<<t, 0>>]) /\ GroupFormed(groups[t]) /\ InStep(t)
  BY <1>1 DEF Inv, Typed, Books
<1>4. groups[t].st = "none"  BY <1>3, PhasesApart DEF InStep, GroupFormed
<1> QED BY <1>1, <1>2, <1>3, <1>4, ScenarioFacts DEF InStep

LEMMA StartBareKeeps ==
  ASSUME Inv, NEW t \in Tasks, StartBare(t)
  PROVE  Inv'
<1> DEFINE i == <<t, 0>>
           w == [walks[i] EXCEPT !.ph = "GS_EXPLICIT", !.gpa = Task(i).iova]
           e == LookupS2(w.gpa)
           new == InitGstage(w, w.gpa)
           below == FromS2(new, w.gpa, e)
           result == {Given("pt", t, w.gpa, w.gpa)}
<1>1. walks[i].ph = "queued"  BY DEF StartBare
<1>2. s \in Scenarios /\ i \in Ids /\ WellFormed(walks[i]) /\ groups[t].st = "none" /\ i[2] = 0
      /\ walks[i].ph \in Phases \union {"queued"}
  BY <1>1, Queued
<1>3. \/ TwoStage /\ e.h > 0 /\ Continue(i, below)
      \/ TwoStage /\ Continue(i, new)
      \/ Release(t, Done(w.gpa), result, {})
  BY DEF StartBare
<1>4. "GS_EXPLICIT" \in Phases /\ "GS_EXPLICIT" \in Stations  BY DEF Phases, Stations
<1>5. WellFormed(w) /\ w.ph = "GS_EXPLICIT"  BY <1>2, <1>4 DEF WellFormed, Fields
<1>6. e.h \in 0..3
  <2>1. \A f \in s2 : f.h \in 1..3  BY DEF Inv, Typed, LinesFormed
  <2> QED BY <2>1, LookupLine DEF LookupS2
<1> HIDE DEF w, e, result
<1>7. TwoStage => WellFormed(new) /\ new.ph = "GS_EXPLICIT"  BY <1>2, <1>5, InitGstageWalk
<1> HIDE DEF new
<1>8. TwoStage /\ e.h > 0 => WellFormed(below) /\ below.ph = "GS_EXPLICIT"
  BY <1>2, <1>6, <1>7, FromS2Walk
<1> HIDE DEF below
<1>9. CASE TwoStage /\ e.h > 0 /\ Continue(i, below)
  <2>1. PrefetchPhase(i, below)  BY <1>8, <1>9 DEF PrefetchPhase
  <2> HIDE DEF i
  <2> QED BY <1>1, <1>2, <1>4, <1>8, <1>9, <2>1, ContinueKeeps
<1>10. CASE TwoStage /\ Continue(i, new)
  <2>1. PrefetchPhase(i, new)  BY <1>7, <1>10 DEF PrefetchPhase
  <2> HIDE DEF i
  <2> QED BY <1>1, <1>2, <1>4, <1>7, <1>10, <2>1, ContinueKeeps
<1>11. CASE Release(t, Done(w.gpa), result, {})
  <2>1. UpdatesFormed({})  BY DEF UpdatesFormed
  <2> QED BY <1>2, <1>11, <2>1, ReleaseKeeps
<1> QED BY <1>3, <1>9, <1>10, <1>11

LEMMA StartFaultKeeps ==
  ASSUME Inv, NEW t \in Tasks, StartFault(t)
  PROVE  Inv'
<1>1. walks[<<t, 0>>].ph = "queued"  BY DEF StartFault
<1>2. groups[t].st = "none" /\ walks[<<t, 0>>].ph \in Phases \union {"queued"}
  BY <1>1, Queued
<1>3. UpdatesFormed({})  BY DEF UpdatesFormed
<1>4. PICK r, g : Release(t, r, g, {})  BY DEF StartFault
<1> QED BY <1>2, <1>3, <1>4, ReleaseKeeps

LEMMA StartLeafKeeps ==
  ASSUME Inv, NEW t \in Tasks, StartLeaf(t)
  PROVE  Inv'
<1> DEFINE i == <<t, 0>>
           e == StartLine(i)
           pa == Within(e.ppn, Iova(i), 4 - e.h)
           group == HugeGroup(t, walks[i].depth, pa, 4 - e.h)
<1>1. walks[i].ph = "queued"  BY DEF StartLeaf
<1>2. s \in Scenarios /\ i \in Ids /\ ~IsPrefetch(i) /\ groups[t].st = "none"
      /\ walks[i].ph \in Phases \union {"queued"}
  BY <1>1, Queued
<1>3. UpdatesFormed({})  BY DEF UpdatesFormed
<1>4. Release(t, Done(pa), {}, {}) \/ JoinGroup(t, group, walks, {})  BY DEF StartLeaf
<1>5. CASE Release(t, Done(pa), {}, {})  BY <1>2, <1>3, <1>5, ReleaseKeeps
<1>6. CASE JoinGroup(t, group, walks, {})
  <2>1. 0 \in 0..s.depth  BY <1>2, ScenarioFacts
  <2>2. GroupFormed(group) /\ group.st = "open" /\ group.main /\ group.pend = 0
    BY <1>2, <2>1, NewGroups
  <2>3. i[1] = t  OBVIOUS
  <2> HIDE DEF group, i
  <2> QED BY <1>2, <1>3, <1>6, <2>2, <2>3, CompleteGroup
<1> QED BY <1>4, <1>5, <1>6

\* The line a walk starts from is one of the walker cache, or none.
LEMMA StartLineFormed ==
  ASSUME Inv, NEW i \in Ids
  PROVE  StartLine(i).h \in 0..3
<1>1. LookupVs(Iova(i)).h \in 0..3
  <2>1. \A e \in wc : e.h \in 1..3  BY DEF Inv, Typed, LinesFormed
  <2> QED BY <2>1, LookupLine DEF LookupVs
<1>2. walks[i].front.h \in 0..3  BY DEF Inv, Typed, WellFormed
<1>3. StartLine(i) = LookupVs(Iova(i)) \/ StartLine(i) = walks[i].front
  BY <1>1, <1>2 DEF StartLine
<1> QED BY <1>1, <1>2, <1>3

\* With a line of the last table in two stages the prefetches start at once.
LEMMA StartWalkKeeps ==
  ASSUME Inv, NEW t \in Tasks, StartWalk(t)
  PROVE  Inv'
<1> DEFINE i == <<t, 0>>
           e == StartLine(i)
           hit == e.h > 0
           w == FromLine(walks[i], e)
           idx == Idx(Iova(i), w.lev)
           near == hit /\ w.lev = 0 /\ w.depth > 0
           n == InTable(Iova(i), w.depth)
           num == IF near THEN 1 + n ELSE 1
           read == Read(w, w.base, idx)
           first == [read EXCEPT !.ph = "VS_WALK", !.n = num, !.depth = IF near THEN n ELSE @]
           init == InitGstage(w, w.base)
           implicit == [init EXCEPT !.ph = "GS_IMPLICIT"]
           begun == [Spawned(t, w.l0, n) EXCEPT ![i] = first]
<1>1. walks[i].ph = "queued" /\ s.vtop # Bare  BY DEF StartWalk
<1>2. s \in Scenarios /\ i \in Ids /\ WellFormed(walks[i]) /\ Iova(i) \in Nat
      /\ groups[t].st = "none" /\ Running(t) = {} /\ i[1] = t /\ i[2] = 0 /\ s.depth \in Nat
  BY <1>1, Queued, ScenarioFacts
<1>3. \/ TwoStage /\ Continue(i, implicit)
      \/ /\ TwoStage
         /\ walks' = begun
         /\ groups' = [groups EXCEPT ![t] = OpenGroup(t, n)]
         /\ UNCHANGED <<s, wc, s2, upd, outstanding>>
      \/ Continue(i, first)
  BY DEF StartWalk, caches
<1>4. e.h \in 0..3  BY <1>2, StartLineFormed
<1> HIDE DEF e
<1>5. WellFormed(w)  BY <1>1, <1>2, <1>4, FromLineWalk
<1> HIDE DEF w
<1>6. n \in 0..s.depth
  <2>1. w.depth \in 0..s.depth /\ w.depth \in Nat  BY <1>2, <1>5 DEF WellFormed
  <2>2. n \in 0..w.depth  BY <1>2, <2>1, InTableRange
  <2> HIDE DEF n
  <2> QED BY <1>2, <2>1, <2>2
<1> HIDE DEF n, idx, near
<1>7. num \in 0..s.depth + 1  BY <1>2, <1>6
<1>8. WellFormed(read)  BY <1>2, <1>5, ReadWalk
<1>9. "GS_IMPLICIT" \in Phases /\ "GS_IMPLICIT" \in Stations
      /\ "VS_WALK" \in Phases /\ "VS_WALK" \in Stations
  BY DEF Phases, Stations
<1> HIDE DEF read, num
<1>10. WellFormed(first) /\ first.ph = "VS_WALK"
  <2>1. first = [read EXCEPT !.ph = "VS_WALK", !.n = num, !.depth = IF near THEN n ELSE read.depth]
    BY <1>8 DEF WellFormed, Fields
  <2> HIDE DEF first
  <2> QED BY <1>6, <1>7, <1>8, <1>9, <2>1 DEF WellFormed, Fields
<1>11. TwoStage => WellFormed(init)  BY <1>2, <1>5, InitGstageWalk
<1> HIDE DEF init, first
<1>12. TwoStage => WellFormed(implicit) /\ implicit.ph = "GS_IMPLICIT"
  BY <1>9, <1>11 DEF WellFormed, Fields
<1> HIDE DEF implicit
<1>13. PrefetchPhase(i, first)  BY <1>10 DEF PrefetchPhase
<1>14. CASE TwoStage /\ Continue(i, implicit)
  <2>1. PrefetchPhase(i, implicit)  BY <1>12, <1>14 DEF PrefetchPhase
  <2> HIDE DEF i
  <2> QED BY <1>1, <1>2, <1>9, <1>12, <1>14, <2>1, ContinueKeeps
<1>15. CASE Continue(i, first)
  <2> HIDE DEF i
  <2> QED BY <1>1, <1>2, <1>9, <1>10, <1>13, <1>15, ContinueKeeps
<1>16. CASE /\ TwoStage
            /\ walks' = begun
            /\ groups' = [groups EXCEPT ![t] = OpenGroup(t, n)]
            /\ UNCHANGED <<s, wc, s2, upd, outstanding>>
  <2> DEFINE ws == Spawned(t, w.l0, n)
             group == OpenGroup(t, n)
  <2>1. GroupFormed(group) /\ group.st = "open" /\ ~group.main /\ group.pend = n
    BY <1>2, <1>6, NewGroups
  <2>2. /\ DOMAIN ws = Ids
        /\ \A j \in Ids : j[1] # t \/ j[2] = 0 => ws[j] = walks[j]
        /\ \A j \in Ids : WellFormed(ws[j]) /\ PrefetchPhase(j, ws[j])
        /\ Cardinality({d \in 1..s.depth : ws[<<t, d>>].ph \in Phases}) = n
    <3>1. Typed /\ Running(t) = {}  BY <1>2 DEF Inv
    <3> HIDE DEF i
    <3>2. Begun(ws, t, n)  BY <1>6, <1>16, <3>1, SpawnedWalks
    <3> HIDE DEF ws
    <3> QED BY <3>2 DEF Begun
  <2> HIDE DEF ws
  <2>3. begun = [ws EXCEPT ![i] = first]  BY DEF ws
  <2>4. DOMAIN begun = Ids /\ begun[i] = first /\ \A j \in Ids : j # i => begun[j] = ws[j]
    BY <1>2, <2>2, <2>3
  <2> HIDE DEF begun, group
  <2>5. {d \in 1..s.depth : begun[<<t, d>>].ph \in Phases} = {d \in 1..s.depth : ws[<<t, d>>].ph \in Phases}
    <3>1. ASSUME NEW d \in 1..s.depth PROVE begun[<<t, d>>] = ws[<<t, d>>]
      <4>1. <<t, d>> \in Ids /\ <<t, d>> # i  BY <1>2 DEF Ids
      <4> QED BY <4>1, <2>4
    <3> QED BY <3>1
  <2>6. group.pend = Cardinality({d \in 1..s.depth : begun[<<t, d>>].ph \in Phases})
    BY <2>1, <2>2, <2>5
  <2>7. HasPlace(t)  BY <1>1 DEF HasPlace
  <2>8. UpdatesFormed(upd')  BY <1>16 DEF Inv, Typed, LinesFormed, UpdatesFormed
  <2>9. (\A j \in Ids : j[1] # t => begun[j] = walks[j])
        /\ \A j \in Ids : WellFormed(begun[j]) /\ PrefetchPhase(j, begun[j])
    BY <1>2, <1>10, <1>13, <2>2, <2>4
  <2>10. begun[<<t, 0>>].ph \in Phases  BY <1>9, <1>10, <2>4
  <2>11. s' = s /\ UNCHANGED <<wc, s2, outstanding>> /\ walks' = begun
         /\ groups' = [groups EXCEPT ![t] = group]
    BY <1>16 DEF group
  <2> QED BY <2>1, <2>4, <2>6, <2>7, <2>8, <2>9, <2>10, <2>11, GroupKeeps
<1> QED BY <1>3, <1>14, <1>15, <1>16

-----------------------------------------------------------------------------
(* The monitor, the flush and the walker RAMs.                              *)

LEMMA TakeKeeps ==
  ASSUME Inv, NEW t \in Tasks, Take(t)
  PROVE  Inv'
<1> DEFINE g == [groups[t] EXCEPT !.st = "taken"]
<1>1. /\ groups[t].st = "open" /\ groups[t].main
      /\ outstanding' = outstanding - 1 /\ s' = s
      /\ groups' = [groups EXCEPT ![t].st = "taken"]
      /\ UNCHANGED <<wc, s2, upd, walks>>
  BY DEF Take, Complete, caches
<1>2. GroupFormed(groups[t]) /\ DOMAIN groups = Tasks /\ InStep(t) /\ outstanding \in Int
  BY DEF Inv, Typed, Books
<1>3. GroupFormed(g) /\ g.st = "taken"  BY <1>2 DEF GroupFormed, GroupFields
<1>4. DOMAIN groups' = Tasks /\ groups'[t] = g /\ \A u \in Tasks \ {t} : groups'[u] = groups[u]
  BY <1>1, <1>2
<1> HIDE DEF g
<1>5. walks[<<t, 0>>].ph = "ended"  BY <1>1, <1>2 DEF InStep
<1>6. Typed'
  <2>1. UpdatesFormed(upd') /\ (\A e \in wc' \union s2' : e.h \in 1..3) /\ outstanding' \in Int
        /\ DOMAIN walks' = Ids
    BY <1>1, <1>2 DEF Inv, Typed, LinesFormed, UpdatesFormed
  <2>2. \A u \in Tasks : groups'[u] = groups[u] \/ GroupFormed(groups'[u])  BY <1>3, <1>4
  <2>3. \A i \in Ids : walks'[i] = walks[i]  BY <1>1
  <2> QED BY <1>1, <1>4, <2>1, <2>2, <2>3, TypedNext DEF Inv
<1>7. InStep(t)' /\ PendingCounted(t)'
  BY <1>1, <1>3, <1>4, <1>5 DEF InStep, PendingCounted
<1>8. HasPlace(t) /\ ~HasPlace(t)'
  BY <1>1, <1>3, <1>4, <1>5, PhasesApart DEF HasPlace
<1>9. Books'
  <2>1. \A i \in Ids : i[1] # t => walks'[i].ph = walks[i].ph  BY <1>1
  <2> QED BY <1>1, <1>4, <1>7, <1>8, <2>1, BooksNext DEF Inv
<1> QED BY <1>6, <1>9 DEF Inv

LEMMA FlushKeeps ==
  ASSUME Inv, NEW t \in Tasks, Flush(t)
  PROVE  Inv'
<1>1. /\ groups[t].st = "taken" /\ s' = s
      /\ groups' = [groups EXCEPT ![t] = NoGroup]
      /\ UNCHANGED <<wc, s2, upd, walks, outstanding>>
  BY DEF Flush, caches
<1>2. s \in Scenarios /\ DOMAIN groups = Tasks /\ InStep(t)
  BY DEF Inv, Typed, Books
<1>3. GroupFormed(NoGroup) /\ NoGroup.st = "none"
  <2>1. 0 \in 0..s.depth  BY <1>2, ScenarioFacts
  <2> QED BY <2>1 DEF GroupFormed, GroupFields, NoGroup
<1>4. DOMAIN groups' = Tasks /\ groups'[t] = NoGroup
      /\ \A u \in Tasks \ {t} : groups'[u] = groups[u]
  BY <1>1, <1>2
<1>5. walks[<<t, 0>>].ph = "ended"  BY <1>1, <1>2 DEF InStep
<1>6. Typed'
  <2>1. UpdatesFormed(upd') /\ (\A e \in wc' \union s2' : e.h \in 1..3) /\ outstanding' \in Int
        /\ DOMAIN walks' = Ids
    BY <1>1, <1>2 DEF Inv, Typed, LinesFormed, UpdatesFormed
  <2>2. \A u \in Tasks : groups'[u] = groups[u] \/ GroupFormed(groups'[u])  BY <1>3, <1>4
  <2>3. \A i \in Ids : walks'[i] = walks[i]  BY <1>1
  <2> QED BY <1>1, <1>4, <2>1, <2>2, <2>3, TypedNext DEF Inv
<1>7. InStep(t)' /\ PendingCounted(t)'
  BY <1>1, <1>3, <1>4, <1>5 DEF InStep, PendingCounted
<1>8. ~HasPlace(t) /\ ~HasPlace(t)'
  BY <1>1, <1>3, <1>4, <1>5, PhasesApart DEF HasPlace
<1>9. Books'
  <2>1. \A i \in Ids : i[1] # t => walks'[i].ph = walks[i].ph  BY <1>1
  <2> QED BY <1>1, <1>4, <1>7, <1>8, <2>1, BooksNext DEF Inv
<1> QED BY <1>6, <1>9 DEF Inv

\* Inserting a line evicts at most one.
LEMMA InsertedLines ==
  ASSUME NEW cache, \A f \in cache : f.h \in 1..3, NEW e, e.h \in 1..3,
         NEW after \in Insertions(cache, e)
  PROVE  \A f \in after : f.h \in 1..3
<1>1. after \subseteq cache \cup {e}  BY DEF Insertions
<1> QED BY <1>1

\* Nothing that the books look at changes.
LEMMA BooksSame ==
  ASSUME Books, UNCHANGED <<s, walks, groups, outstanding>>
  PROVE  Books'
<1>1. Tasks' = Tasks /\ InPtw' = InPtw  BY DEF Tasks, InPtw, HasPlace
<1>2. PlacesCounted'  BY <1>1 DEF Books, PlacesCounted
<1>3. \A t \in Tasks : InStep(t)' /\ PendingCounted(t)'
  BY DEF Books, InStep, PendingCounted, Running
<1>4. (\A t \in Tasks : InStep(t) /\ PendingCounted(t))'  BY <1>1, <1>3
<1> QED BY <1>2, <1>4 DEF Books

LEMMA UpdateKeeps ==
  ASSUME Inv, Update
  PROVE  Inv'
<1>1. PICK u \in upd :
        /\ upd' = upd \ {u}
        /\ \/ u[1] = "vs" /\ UpdateVs(u[2])
           \/ u[1] = "s2" /\ UpdateS2(u[2])
        /\ UNCHANGED <<s, written, walks, groups, outstanding, out, given>>
  BY DEF Update
<1>2. /\ UpdatesFormed(upd) /\ u[2].h \in 1..3
      /\ \A e \in wc : e.h \in 1..3
      /\ \A e \in s2 : e.h \in 1..3
  BY DEF Inv, Typed, LinesFormed, UpdatesFormed
<1>3. (\A e \in wc' : e.h \in 1..3) /\ (\A e \in s2' : e.h \in 1..3)
  <2>1. CASE UpdateVs(u[2])  BY <1>2, <2>1, InsertedLines DEF UpdateVs
  <2>2. CASE UpdateS2(u[2])  BY <1>2, <2>2, InsertedLines DEF UpdateS2
  <2> QED BY <1>1, <2>1, <2>2
<1>4. UpdatesFormed(upd')  BY <1>1, <1>2 DEF UpdatesFormed
<1>5. Typed'
  <2>1. \A e \in wc' \union s2' : e.h \in 1..3  BY <1>3
  <2>2. outstanding' \in Int /\ DOMAIN walks' = Ids /\ DOMAIN groups' = Tasks
    BY <1>1 DEF Inv, Typed
  <2>3. (\A i \in Ids : walks'[i] = walks[i]) /\ (\A t \in Tasks : groups'[t] = groups[t])
    BY <1>1
  <2> QED BY <1>1, <1>4, <2>1, <2>2, <2>3, TypedNext DEF Inv
<1> QED BY <1>1, <1>5, BooksSame DEF Inv

-----------------------------------------------------------------------------
(* The invariant holds, and says what the runs check.                       *)

LEMMA InitKeeps ==
  ASSUME Init
  PROVE  Inv
<1>1. s \in Scenarios /\ s.depth \in Nat /\ 0 \in 0..s.depth  BY ScenarioFacts DEF Init
<1>2. /\ wc = {} /\ s2 = {} /\ upd = {} /\ outstanding = 0
      /\ walks = [i \in Ids |-> NoWalk] /\ groups = [t \in Tasks |-> NoGroup]
  BY DEF Init
<1>3. WellFormed(NoWalk) /\ NoWalk.ph = "idle"  BY <1>1, IdleWalkFormed DEF NoWalk
<1>4. GroupFormed(NoGroup) /\ NoGroup.st = "none"
  BY <1>1 DEF GroupFormed, GroupFields, NoGroup
<1>5. \A i \in Ids : WellFormed(walks[i]) /\ walks[i].ph = "idle"  BY <1>2, <1>3
<1>6. \A t \in Tasks : GroupFormed(groups[t]) /\ groups[t].st = "none"  BY <1>2, <1>4
<1>7. Typed
  <2>1. DOMAIN walks = Ids /\ DOMAIN groups = Tasks  BY <1>2
  <2>2. LinesFormed /\ outstanding \in Int  BY <1>2 DEF LinesFormed
  <2>3. \A i \in Ids : PrefetchPhase(i, walks[i])  BY <1>5 DEF PrefetchPhase
  <2> QED BY <1>1, <1>5, <1>6, <2>1, <2>2, <2>3 DEF Typed
<1>8. ASSUME NEW t \in Tasks PROVE InStep(t) /\ PendingCounted(t) /\ ~HasPlace(t)
  <2>1. <<t, 0>> \in Ids  BY <1>1, ScenarioFacts
  <2>2. Running(t) = {}
    <3>1. \A d \in 1..s.depth : <<t, d>> \in Ids  BY <1>1 DEF Ids
    <3> QED BY <1>5, <3>1, PhasesApart DEF Running
  <2> QED BY <1>5, <1>6, <2>1, <2>2, PhasesApart DEF InStep, PendingCounted, HasPlace
<1>9. PlacesCounted
  <2>1. InPtw = {}  BY <1>8 DEF InPtw
  <2> QED BY <1>2, <2>1, FS_EmptySet, WalkAssumption DEF PlacesCounted
<1> QED BY <1>7, <1>8, <1>9 DEF Inv, Books

LEMMA StutterKeeps ==
  ASSUME Inv, UNCHANGED vars
  PROVE  Inv'
<1>1. UNCHANGED <<s, wc, s2, upd, walks, groups, outstanding>>  BY DEF vars, caches
<1>2. Typed'
  <2>1. UpdatesFormed(upd') /\ (\A e \in wc' \union s2' : e.h \in 1..3) /\ outstanding' \in Int
        /\ DOMAIN walks' = Ids /\ DOMAIN groups' = Tasks
    BY <1>1 DEF Inv, Typed, LinesFormed, UpdatesFormed
  <2>2. (\A i \in Ids : walks'[i] = walks[i]) /\ (\A t \in Tasks : groups'[t] = groups[t])
    BY <1>1
  <2> QED BY <1>1, <2>1, <2>2, TypedNext DEF Inv
<1> QED BY <1>1, <1>2, BooksSame DEF Inv

LEMMA NextKeeps ==
  ASSUME Inv, [Next]_vars
  PROVE  Inv'
<1>1. ASSUME NEW t \in Tasks, Submit(t) PROVE Inv'  BY <1>1, SubmitKeeps
<1>2. ASSUME NEW t \in Tasks, Admit(t) PROVE Inv'  BY <1>2, AdmitKeeps
<1>3. ASSUME NEW t \in Tasks, Start(t) PROVE Inv'
  BY <1>3, StartBareKeeps, StartFaultKeeps, StartLeafKeeps, StartWalkKeeps DEF Start
<1>4. ASSUME NEW t \in Tasks, Take(t) PROVE Inv'  BY <1>4, TakeKeeps
<1>5. ASSUME NEW t \in Tasks, Flush(t) PROVE Inv'  BY <1>5, FlushKeeps
<1>6. ASSUME NEW i \in Ids, Serve(i) PROVE Inv'  BY <1>6, ServeKeeps
<1>7. ASSUME NEW i \in Ids, Handle(i) PROVE Inv'  BY <1>7, HandleKeeps
<1>8. CASE Update  BY <1>8, UpdateKeeps
<1>9. CASE UNCHANGED vars  BY <1>9, StutterKeeps
<1> QED BY <1>1, <1>2, <1>3, <1>4, <1>5, <1>6, <1>7, <1>8, <1>9 DEF Next

LEMMA InvAlways == Spec => []Inv
BY InitKeeps, NextKeeps, PTL DEF Spec

\* The outstanding counter is the number of tasks in the PTW, from the
\* admission of each until its walk ends alone or the monitor takes its group,
\* and it never passes PTW_MAX_OUTSTANDING_TASKS; every variable has its type.
THEOREM PlacesGivenBack == Spec => []OutstandingMatches
<1>1. ASSUME Inv PROVE OutstandingMatches
  <2>1. InPtw = {t \in Tasks : walks[<<t, 0>>].ph \in Phases \cup {"queued"} \/ groups[t].st = "open"}
    BY DEF InPtw, HasPlace
  <2>2. outstanding = Cardinality(InPtw) /\ Cardinality(InPtw) \in Nat
        /\ outstanding <= MaxOutstanding
    BY <1>1, FS_CardinalityType DEF Inv, Books, PlacesCounted
  <2>3. outstanding \in 0..MaxOutstanding  BY <2>2, WalkAssumption
  <2>4. TypeOK
    BY <1>1, <2>3 DEF TypeOK, Inv, Typed, LinesFormed, WellFormed, GroupFormed, Stations
  <2> QED BY <2>1, <2>2, <2>4 DEF OutstandingMatches
<1> QED BY <1>1, InvAlways, PTL

\* An open group that has not met a fault waits for exactly the prefetch walks
\* of its task that still run: the monitor neither takes it before the last of
\* them nor waits for one that is over.
THEOREM GroupsWaitRight == Spec => []GroupCountsWalks
<1>1. ASSUME Inv PROVE GroupCountsWalks
  <2>1. \A t \in Tasks : PendingCounted(t)  BY <1>1 DEF Inv, Books
  <2> QED BY <2>1 DEF GroupCountsWalks, PendingCounted, Running
<1> QED BY <1>1, InvAlways, PTL
=============================================================================
