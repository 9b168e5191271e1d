----------------------------- MODULE DedupProofs -----------------------------
(***************************************************************************)
(* Theorems about Dedup, for any number of tasks, pages, RAMs, ways and    *)
(* buffer entries, any depths of the FIFOs and any set of unmapped pages.  *)
(***************************************************************************)
EXTENDS Dedup, SequencesExt, FiniteSetTheorems, WellFoundedInduction, TLAPS

-----------------------------------------------------------------------------
(* Lemmas about lists and numbers.                                          *)

\* Appending adds one element at the end, and keeps a sequence without
\* repetition so if the element is new.
LEMMA AppendSet ==
  ASSUME NEW S, NEW s \in Seq(S), NEW e \in S
  PROVE  /\ Append(s, e) \in Seq(S)
         /\ ToSet(Append(s, e)) = ToSet(s) \union {e}
         /\ IsInjective(s) /\ e \notin ToSet(s) => IsInjective(Append(s, e))
<1> DEFINE t == Append(s, e)
<1>1. /\ t \in Seq(S)
      /\ Len(t) = Len(s) + 1 /\ Len(s) \in Nat
      /\ DOMAIN s = 1 .. Len(s) /\ DOMAIN t = 1 .. (Len(s) + 1)
      /\ \A i \in 1 .. Len(s) : t[i] = s[i]
      /\ t[Len(s) + 1] = e
  OBVIOUS
<1> HIDE DEF t
<1>2. ToSet(t) = ToSet(s) \union {e}
  <2>1. ASSUME NEW i \in DOMAIN t PROVE t[i] \in ToSet(s) \union {e}
    <3>1. i \in 1 .. Len(s) \/ i = Len(s) + 1  BY <1>1
    <3> QED BY <3>1, <1>1 DEF ToSet
  <2>2. ASSUME NEW i \in DOMAIN s PROVE s[i] \in ToSet(t)
    <3>1. i \in DOMAIN t /\ t[i] = s[i]  BY <1>1
    <3> QED BY <3>1 DEF ToSet
  <2>3. e \in ToSet(t)
    <3>1. Len(s) + 1 \in DOMAIN t  BY <1>1
    <3> QED BY <3>1, <1>1 DEF ToSet
  <2> QED BY <2>1, <2>2, <2>3 DEF ToSet
<1>3. ASSUME IsInjective(s), e \notin ToSet(s) PROVE IsInjective(t)
  <2> SUFFICES ASSUME NEW i \in DOMAIN t, NEW j \in DOMAIN t, t[i] = t[j], i # j
               PROVE  FALSE
    BY DEF IsInjective
  <2>1. (i \in 1 .. Len(s) \/ i = Len(s) + 1) /\ (j \in 1 .. Len(s) \/ j = Len(s) + 1)
    BY <1>1
  <2>2. CASE i \in 1 .. Len(s) /\ j \in 1 .. Len(s)  BY <2>2, <1>1, <1>3 DEF IsInjective
  <2>3. CASE i = Len(s) + 1 /\ j \in 1 .. Len(s)  BY <2>3, <1>1, <1>3 DEF ToSet
  <2>4. CASE j = Len(s) + 1 /\ i \in 1 .. Len(s)  BY <2>4, <1>1, <1>3 DEF ToSet
  <2> QED BY <2>1, <2>2, <2>3, <2>4
<1> QED BY <1>1, <1>2, <1>3 DEF t

\* Taking the head off leaves the other elements, and takes the head with it
\* if the sequence has no repetition.
LEMMA TailSet ==
  ASSUME NEW S, NEW s \in Seq(S), s # << >>
  PROVE  /\ Tail(s) \in Seq(S) /\ Head(s) \in S
         /\ ToSet(s) = {Head(s)} \union ToSet(Tail(s))
         /\ IsInjective(s) => IsInjective(Tail(s)) /\ Head(s) \notin ToSet(Tail(s))
<1> DEFINE t == Tail(s)
<1>1. /\ t \in Seq(S) /\ Head(s) \in S
      /\ Len(s) \in Nat \ {0} /\ Len(t) = Len(s) - 1
      /\ DOMAIN s = 1 .. Len(s) /\ DOMAIN t = 1 .. (Len(s) - 1)
      /\ \A i \in 1 .. (Len(s) - 1) : t[i] = s[i + 1]
      /\ Head(s) = s[1]
  OBVIOUS
<1> HIDE DEF t
<1>2. ToSet(s) = {Head(s)} \union ToSet(t)
  <2>1. ASSUME NEW i \in DOMAIN s PROVE s[i] \in {Head(s)} \union ToSet(t)
    <3>1. CASE i = 1  BY <3>1, <1>1
    <3>2. CASE i # 1
      <4>1. i - 1 \in DOMAIN t /\ t[i - 1] = s[i]  BY <3>2, <1>1
      <4> QED BY <4>1 DEF ToSet
    <3> QED BY <3>1, <3>2
  <2>2. ASSUME NEW i \in DOMAIN t PROVE t[i] \in ToSet(s)
    <3>1. i + 1 \in DOMAIN s /\ t[i] = s[i + 1]  BY <1>1
    <3> QED BY <3>1 DEF ToSet
  <2>3. Head(s) \in ToSet(s)
    <3>1. 1 \in DOMAIN s  BY <1>1
    <3> QED BY <3>1, <1>1 DEF ToSet
  <2> QED BY <2>1, <2>2, <2>3 DEF ToSet
<1>3. ASSUME IsInjective(s) PROVE IsInjective(t) /\ Head(s) \notin ToSet(t)
  <2>1. IsInjective(t)
    <3> SUFFICES ASSUME NEW i \in DOMAIN t, NEW j \in DOMAIN t, t[i] = t[j] PROVE i = j
      BY DEF IsInjective
    <3>1. /\ i + 1 \in DOMAIN s /\ j + 1 \in DOMAIN s /\ i \in Int /\ j \in Int
          /\ s[i + 1] = s[j + 1]
      BY <1>1
    <3>2. i + 1 = j + 1  BY <3>1, <1>3 DEF IsInjective
    <3> QED BY <3>1, <3>2
  <2>2. ASSUME NEW i \in DOMAIN t, t[i] = Head(s) PROVE FALSE
    <3>1. i + 1 \in DOMAIN s /\ 1 \in DOMAIN s /\ i + 1 # 1 /\ s[i + 1] = s[1]
      BY <1>1, <2>2
    <3> QED BY <3>1, <1>3 DEF IsInjective
  <2> QED BY <2>1, <2>2 DEF ToSet
<1> QED BY <1>1, <1>2, <1>3 DEF t

\* A sequence over a set is one over a larger set.
LEMMA SeqMonotone ==
  ASSUME NEW S, NEW T, S \subseteq T
  PROVE  Seq(S) \subseteq Seq(T)
OBVIOUS

\* A function on an interval from 1 is a sequence.
LEMMA FunctionIsSeq ==
  ASSUME NEW S, NEW n \in Nat, NEW s \in [1 .. n -> S]
  PROVE  s \in Seq(S) /\ Len(s) = n
OBVIOUS

\* A set of natural numbers has a least element: < is well founded on Nat.
LEMMA NaturalsHaveMin ==
  ASSUME NEW S \in SUBSET Nat, S # {}
  PROVE  \E m \in S : \A n \in S : m <= n
<1> DEFINE R == OpToRel(<, Nat)
<1>1. IsWellFoundedOn(R, Nat)  BY NatLessThanWellFounded
<1>2. PICK m \in S : \A n \in S : <<n, m>> \notin R
  <2> HIDE DEF R
  <2> QED BY <1>1, WFMin
<1>3. ASSUME NEW n \in S PROVE m <= n
  <2>1. ~(n < m)  BY <1>2 DEF OpToRel
  <2> QED BY <2>1
<1> QED BY <1>3

-----------------------------------------------------------------------------
(* Constants and helpers.                                                  *)

LEMMA Numbers ==
  /\ NoTask \notin Tasks /\ NoPage \notin Pages /\ NoIdx \notin Idx
  /\ Tasks \subseteq Nat /\ Pages \subseteq Nat /\ Idx \subseteq Nat /\ Rams \subseteq Nat
  /\ \A p \in Pages : RamOf(p) \in Rams
BY SizeAssumption DEF NoTask, NoPage, NoIdx, Tasks, Pages, Idx, Rams, RamOf

LEMMA MinOfTwo ==
  ASSUME NEW a \in Int, NEW b \in Int
  PROVE  Min({a, b}) \in {a, b} /\ Min({a, b}) <= a /\ Min({a, b}) <= b
<1>1. \E x \in {a, b} : \A y \in {a, b} : x <= y
  <2>1. CASE a <= b  BY <2>1
  <2>2. CASE b <= a  BY <2>2
  <2> QED BY <2>1, <2>2
<1>2. /\ Min({a, b}) \in {a, b} /\ \A y \in {a, b} : Min({a, b}) <= y
  BY <1>1 DEF Min
<1> QED BY <1>2

\* A group ends within the page table of its main page.
LEMMA DepthType ==
  \A p \in Pages : /\ GroupDepth(p) \in Nat /\ GroupDepth(p) <= LAST_PAGE - p
                   /\ \A d \in 0 .. GroupDepth(p) : p + d \in Pages
<1> SUFFICES ASSUME NEW p \in Pages
             PROVE  /\ GroupDepth(p) \in Nat /\ GroupDepth(p) <= LAST_PAGE - p
                    /\ \A d \in 0 .. GroupDepth(p) : p + d \in Pages
  OBVIOUS
<1>1. p \in Nat /\ LAST_PAGE - p \in Nat /\ PREFETCH_DEPTH \in Nat /\ LAST_PAGE \in Nat
  BY SizeAssumption DEF Pages
<1>2. GroupDepth(p) \in Nat /\ GroupDepth(p) <= LAST_PAGE - p
  <2> DEFINE a == PREFETCH_DEPTH
             b == LAST_PAGE - p
  <2>1. a \in Int /\ b \in Int  BY <1>1
  <2>2. GroupDepth(p) = Min({a, b})  BY DEF GroupDepth
  <2> HIDE DEF a, b
  <2>3. Min({a, b}) \in {a, b} /\ Min({a, b}) <= a /\ Min({a, b}) <= b  BY <2>1, MinOfTwo
  <2>4. a \in Nat /\ b \in Nat /\ b = LAST_PAGE - p  BY <1>1 DEF a, b
  <2> QED BY <2>2, <2>3, <2>4
<1> QED BY <1>1, <1>2 DEF Pages

\* The least free entry exists if one is free.
LEMMA FirstFreeType ==
  ASSUME FreeIdx # {}
  PROVE  FirstFree \in Idx /\ entry[FirstFree].task = NoTask
<1>1. FreeIdx \in SUBSET Nat  BY Numbers DEF FreeIdx
<1>2. \E i \in FreeIdx : \A j \in FreeIdx : i <= j  BY <1>1, NaturalsHaveMin
<1>3. FirstFree \in FreeIdx  BY <1>2 DEF FirstFree
<1> QED BY <1>3 DEF FreeIdx

-----------------------------------------------------------------------------
(* Types.                                                                  *)

Entry == [task : Tasks \union {NoTask}, next : Idx \union {NoIdx}, tail : Idx \union {NoIdx}]
Line == [is_req : BOOLEAN, head : Idx \union {NoIdx}, owner : Tasks \union {NoTask},
         suspended : BOOLEAN]
WorkerState == [at : {"idle", "full", "flush"}, by : Tasks \union {NoTask},
                page : Pages \union {NoPage}, result : Results, cur : Idx \union {NoIdx}]
GroupRecord == [main : Tasks, bypass : BOOLEAN, fault : BOOLEAN, writes : Seq(Message)]

TasksTyped ==
  /\ page \in [Tasks -> Pages \union {NoPage}] /\ answers \in [Tasks -> Seq(Results)]
  /\ next_is_request \in BOOLEAN
FifosTyped ==
  /\ request_fifo \in Seq(Message) /\ inside_fifo \in Seq(Message)
  /\ update_fifo \in Seq(Message) /\ hash_in \in Seq(Message) /\ rsp_write \in Seq(Message)
  /\ ram_fifo \in [Rams -> Seq(Message)]
WalksTyped == /\ ptw_fifo \in Seq(Tasks) /\ bypass \subseteq Tasks /\ walking \subseteq Tasks
              /\ agg \in Seq(GroupRecord)
LinesTyped == /\ DOMAIN line \subseteq Pages /\ line \in [DOMAIN line -> Line]
              /\ \A p \in DOMAIN line : line[p].is_req <=> line[p].head \in Idx
WorkersTyped ==
  /\ worker \in [Rams -> WorkerState]
  /\ \A r \in Rams : /\ worker[r].at = "full" => worker[r].by \in Tasks
                     /\ worker[r].at = "flush" => worker[r].cur \in Idx /\ worker[r].page \in Pages

\* A message is seen by its fields.
LEMMA MessageFields ==
  \A m \in Message : /\ m.kind \in {"request", "prefetch", "update"} /\ m.page \in Pages
                     /\ m.by \in Tasks /\ m.result \in Results
BY DEF Message

LEMMA MadeMessages ==
  ASSUME NEW t \in Tasks, NEW p \in Pages
  PROVE  /\ Prefetch(t, p) \in Message /\ [Request(t) EXCEPT !.page = p] \in Message
         /\ \A res \in Results : Update(t, p, res) \in Message
         /\ Prefetch(t, p).kind = "prefetch" /\ Prefetch(t, p).by = t /\ Prefetch(t, p).page = p
         /\ [Request(t) EXCEPT !.page = p].kind = "request"
         /\ [Request(t) EXCEPT !.page = p].by = t /\ [Request(t) EXCEPT !.page = p].page = p
         /\ \A res : /\ Update(t, p, res).kind = "update" /\ Update(t, p, res).by = t
                     /\ Update(t, p, res).page = p /\ Update(t, p, res).result = res
BY DEF Message, Prefetch, Request, Update, Results

-----------------------------------------------------------------------------
(* The tasks that ask, in a FIFO and in all of them: a task has at most one *)
(* request message, so that it stops asking when the message is served.     *)

Askers(s) == {m.by : m \in {x \in ToSet(s) : x.kind = "request"}}
AskOnce(s) == \A i, j \in DOMAIN s :
  s[i].kind = "request" /\ s[j].kind = "request" /\ s[i].by = s[j].by => i = j

LEMMA AskersIn ==
  ASSUME NEW s \in Seq(Message)
  PROVE  /\ \A t : t \in Askers(s) <=> \E m \in ToSet(s) : m.kind = "request" /\ m.by = t
         /\ ToSet(s) \subseteq Message /\ Askers(s) \subseteq Tasks
<1>1. ToSet(s) \subseteq Message
  BY DEF ToSet
<1>2. \A t : t \in Askers(s) <=> \E m \in ToSet(s) : m.kind = "request" /\ m.by = t
  BY DEF Askers
<1> QED BY <1>1, <1>2, MessageFields

LEMMA AskersEmpty == ToSet(<< >>) = {} /\ Askers(<< >>) = {} /\ AskOnce(<< >>)
BY DEF ToSet, Askers, AskOnce

LEMMA AskersAppend ==
  ASSUME NEW s \in Seq(Message), NEW e \in Message
  PROVE  /\ Append(s, e) \in Seq(Message) /\ ToSet(Append(s, e)) = ToSet(s) \union {e}
         /\ e.kind = "request" => Askers(Append(s, e)) = Askers(s) \union {e.by}
         /\ e.kind # "request" => Askers(Append(s, e)) = Askers(s)
         /\ AskOnce(s) /\ (e.kind = "request" => e.by \notin Askers(s)) => AskOnce(Append(s, e))
<1> DEFINE u == Append(s, e)
<1>1. u \in Seq(Message) /\ ToSet(u) = ToSet(s) \union {e}
  BY AppendSet
<1>2. /\ Len(s) \in Nat /\ DOMAIN s = 1 .. Len(s) /\ DOMAIN u = 1 .. (Len(s) + 1)
      /\ \A i \in 1 .. Len(s) : u[i] = s[i]
      /\ u[Len(s) + 1] = e
  OBVIOUS
<1> HIDE DEF u
<1>3. /\ e.kind = "request" => Askers(u) = Askers(s) \union {e.by}
      /\ e.kind # "request" => Askers(u) = Askers(s)
  <2>1. \A t : t \in Askers(u) <=> \E m \in ToSet(s) \union {e} : m.kind = "request" /\ m.by = t
    BY <1>1 DEF Askers
  <2>2. \A t : t \in Askers(s) <=> \E m \in ToSet(s) : m.kind = "request" /\ m.by = t
    BY AskersIn
  <2>3. \A t : t \in Askers(u) <=> t \in Askers(s) \/ (e.kind = "request" /\ t = e.by)
    BY <2>1, <2>2
  <2> QED BY <2>3
<1>4. ASSUME AskOnce(s), e.kind = "request" => e.by \notin Askers(s)
      PROVE  AskOnce(u)
  <2> SUFFICES ASSUME NEW i \in DOMAIN u, NEW j \in DOMAIN u,
                      u[i].kind = "request", u[j].kind = "request", u[i].by = u[j].by, i # j
               PROVE  FALSE
    BY DEF AskOnce
  <2>1. (i \in 1 .. Len(s) \/ i = Len(s) + 1) /\ (j \in 1 .. Len(s) \/ j = Len(s) + 1)
    BY <1>2
  <2>2. ASSUME NEW k \in 1 .. Len(s), s[k].kind = "request" PROVE s[k].by \in Askers(s)
    <3>1. s[k] \in ToSet(s)  BY <1>2 DEF ToSet
    <3> QED BY <3>1, <2>2, AskersIn
  <2>3. CASE i \in 1 .. Len(s) /\ j \in 1 .. Len(s)  BY <2>3, <1>2, <1>4 DEF AskOnce
  <2>4. CASE i = Len(s) + 1 /\ j \in 1 .. Len(s)  BY <2>4, <1>2, <1>4, <2>2
  <2>5. CASE j = Len(s) + 1 /\ i \in 1 .. Len(s)  BY <2>5, <1>2, <1>4, <2>2
  <2> QED BY <2>1, <2>3, <2>4, <2>5
<1> QED BY <1>1, <1>3, <1>4 DEF u

LEMMA AskersTail ==
  ASSUME NEW s \in Seq(Message), s # << >>
  PROVE  /\ Tail(s) \in Seq(Message) /\ Head(s) \in Message
         /\ ToSet(s) = {Head(s)} \union ToSet(Tail(s))
         /\ Head(s).kind # "request" => Askers(Tail(s)) = Askers(s)
         /\ Head(s).kind = "request" => Head(s).by \in Askers(s)
         /\ AskOnce(s) /\ Head(s).kind = "request" => Askers(Tail(s)) = Askers(s) \ {Head(s).by}
         /\ AskOnce(s) => AskOnce(Tail(s))
<1> DEFINE u == Tail(s)
<1>1. /\ u \in Seq(Message) /\ Head(s) \in Message /\ ToSet(s) = {Head(s)} \union ToSet(u)
  BY TailSet
<1>2. /\ Len(s) \in Nat \ {0} /\ DOMAIN s = 1 .. Len(s) /\ DOMAIN u = 1 .. (Len(s) - 1)
      /\ \A i \in 1 .. (Len(s) - 1) : u[i] = s[i + 1]
      /\ Head(s) = s[1]
  OBVIOUS
<1> HIDE DEF u
<1>3. /\ Head(s).kind # "request" => Askers(u) = Askers(s)
      /\ Head(s).kind = "request" => Askers(s) = Askers(u) \union {Head(s).by}
  <2> DEFINE h == Head(s)
  <2>1. \A t : t \in Askers(s) <=> \E m \in ToSet(u) \union {h} : m.kind = "request" /\ m.by = t
    BY <1>1 DEF Askers
  <2>2. \A t : t \in Askers(u) <=> \E m \in ToSet(u) : m.kind = "request" /\ m.by = t
    BY <1>1, AskersIn
  <2> HIDE DEF h
  <2>3. \A t : t \in Askers(s) <=> t \in Askers(u) \/ (h.kind = "request" /\ t = h.by)
    BY <2>1, <2>2
  <2>4. /\ h.kind # "request" => Askers(u) = Askers(s)
        /\ h.kind = "request" => Askers(s) = Askers(u) \union {h.by}
    BY <2>3
  <2> QED BY <2>4 DEF h
<1>4. ASSUME AskOnce(s), Head(s).kind = "request" PROVE Head(s).by \notin Askers(u)
  <2> SUFFICES ASSUME Head(s).by \in Askers(u) PROVE FALSE  OBVIOUS
  <2>1. PICK m \in ToSet(u) : m.kind = "request" /\ m.by = Head(s).by  BY <1>1, AskersIn
  <2>2. PICK i \in DOMAIN u : u[i] = m  BY DEF ToSet
  <2>3. i + 1 \in DOMAIN s /\ 1 \in DOMAIN s /\ i + 1 # 1 /\ s[i + 1] = m  BY <1>2, <2>2
  <2> QED BY <2>1, <2>3, <1>2, <1>4 DEF AskOnce
<1>5. ASSUME AskOnce(s) PROVE AskOnce(u)
  <2> SUFFICES ASSUME NEW i \in DOMAIN u, NEW j \in DOMAIN u,
                      u[i].kind = "request", u[j].kind = "request", u[i].by = u[j].by
               PROVE  i = j
    BY DEF AskOnce
  <2>1. /\ i + 1 \in DOMAIN s /\ j + 1 \in DOMAIN s /\ i \in Int /\ j \in Int
        /\ u[i] = s[i + 1] /\ u[j] = s[j + 1]
    BY <1>2
  <2>2. i + 1 = j + 1  BY <2>1, <1>5 DEF AskOnce
  <2> QED BY <2>1, <2>2
<1> QED BY <1>1, <1>3, <1>4, <1>5 DEF u

\* What fits of a list behind another one.
LEMMA PrefixType ==
  ASSUME NEW S, NEW s \in Seq(S), NEW u \in Seq(S), NEW n \in Nat
  PROVE  LET w == SubSeq(s \o u, 1, Min({n, Len(s) + Len(u)}))
         IN w \in Seq(S) /\ ToSet(w) \subseteq ToSet(s) \union ToSet(u)
<1> DEFINE c == s \o u
           k == Min({n, Len(s) + Len(u)})
           w == SubSeq(c, 1, k)
<1>1. /\ c \in Seq(S) /\ Len(c) = Len(s) + Len(u) /\ Len(s) \in Nat /\ Len(u) \in Nat
      /\ DOMAIN s = 1 .. Len(s) /\ DOMAIN u = 1 .. Len(u)
      /\ \A i \in 1 .. Len(s) : c[i] = s[i]
      /\ \A i \in (Len(s) + 1) .. (Len(s) + Len(u)) : c[i] = u[i - Len(s)]
  OBVIOUS
<1>2. k \in Nat /\ k <= Len(c)
  <2> DEFINE b == Len(s) + Len(u)
  <2>1. n \in Int /\ b \in Int /\ b \in Nat /\ b = Len(c)  BY <1>1
  <2> HIDE DEF b
  <2>2. Min({n, b}) \in {n, b} /\ Min({n, b}) <= b  BY <2>1, MinOfTwo
  <2> QED BY <2>1, <2>2 DEF b
<1> HIDE DEF c, k
<1>3. /\ w \in Seq(S) /\ DOMAIN w = 1 .. k /\ \A i \in 1 .. k : w[i] = c[i]
  BY <1>1, <1>2
<1> HIDE DEF w
<1>4. ASSUME NEW i \in 1 .. k PROVE c[i] \in ToSet(s) \union ToSet(u)
  <2>1. CASE i \in 1 .. Len(s)
    <3>1. s[i] \in ToSet(s)  BY <2>1, <1>1 DEF ToSet
    <3> QED BY <3>1, <2>1, <1>1
  <2>2. CASE i \in (Len(s) + 1) .. (Len(s) + Len(u))
    <3>1. i - Len(s) \in DOMAIN u  BY <2>2, <1>1
    <3>2. u[i - Len(s)] \in ToSet(u)  BY <3>1 DEF ToSet
    <3> QED BY <3>2, <2>2, <1>1
  <2> QED BY <2>1, <2>2, <1>1, <1>2, <1>4
<1>5. ToSet(w) \subseteq ToSet(s) \union ToSet(u)
  BY <1>3, <1>4 DEF ToSet
<1> QED BY <1>3, <1>5 DEF w, c, k

-----------------------------------------------------------------------------
(* The FIFOs.                                                               *)

Arrived == {t \in Tasks : page[t] # NoPage}
InRam == UNION {ToSet(ram_fifo[r]) : r \in Rams}
AskersInRam == UNION {Askers(ram_fifo[r]) : r \in Rams}
Asking == Askers(request_fifo) \union Askers(hash_in) \union AskersInRam
Sending == {m \in ToSet(update_fifo) \union ToSet(hash_in) \union ToSet(rsp_write) \union InRam :
              m.kind = "update"}

\* A FIFO holds the messages it is for, and a RAM's those of its pages.
Routing ==
  /\ \A m \in ToSet(request_fifo) : m.kind = "request"
  /\ \A m \in ToSet(inside_fifo) : m.kind = "prefetch"
  /\ \A m \in ToSet(update_fifo) \union ToSet(rsp_write) : m.kind = "update"
  /\ \A r \in Rams : \A m \in ToSet(ram_fifo[r]) : RamOf(m.page) = r
OwnPages == \A m \in ToSet(request_fifo) \union ToSet(hash_in) \union InRam :
              m.kind = "request" => m.page = page[m.by]
AskedOnce ==
  /\ AskOnce(request_fifo) /\ AskOnce(hash_in) /\ \A r \in Rams : AskOnce(ram_fifo[r])
  /\ Askers(request_fifo) \intersect Askers(hash_in) = {}
  /\ AskersInRam \intersect (Askers(request_fifo) \union Askers(hash_in)) = {}
Fifos == FifosTyped /\ Routing /\ OwnPages /\ AskedOnce /\ Asking \subseteq Arrived

\* A request in the FIFO of a RAM is for a page of that RAM.
LEMMA AskedRam ==
  ASSUME FifosTyped, Routing, OwnPages, NEW r \in Rams, NEW t \in Askers(ram_fifo[r])
  PROVE  RamOf(page[t]) = r
<1>1. ram_fifo[r] \in Seq(Message)  BY DEF FifosTyped
<1>2. PICK m \in ToSet(ram_fifo[r]) : m.kind = "request" /\ m.by = t  BY <1>1, AskersIn
<1>3. m \in InRam  BY DEF InRam
<1> QED BY <1>2, <1>3 DEF Routing, OwnPages

\* One FIFO of a RAM changes.
LEMMA RamChanges ==
  ASSUME FifosTyped, NEW r \in Rams, NEW s \in Seq(Message), ram_fifo' = [ram_fifo EXCEPT ![r] = s]
  PROVE  /\ ram_fifo' \in [Rams -> Seq(Message)] /\ ram_fifo'[r] = s
         /\ \A q \in Rams \ {r} : ram_fifo'[q] = ram_fifo[q]
         /\ \A m : m \in InRam' <=> m \in ToSet(s) \/ \E q \in Rams \ {r} : m \in ToSet(ram_fifo[q])
         /\ \A t : t \in AskersInRam' <=>
                     t \in Askers(s) \/ \E q \in Rams \ {r} : t \in Askers(ram_fifo[q])
<1>1. /\ ram_fifo' \in [Rams -> Seq(Message)] /\ ram_fifo'[r] = s
      /\ \A q \in Rams \ {r} : ram_fifo'[q] = ram_fifo[q]
  BY DEF FifosTyped
<1>2. \A m : m \in InRam' <=> \E q \in Rams : m \in ToSet(ram_fifo'[q])  BY DEF InRam
<1>3. \A t : t \in AskersInRam' <=> \E q \in Rams : t \in Askers(ram_fifo'[q])  BY DEF AskersInRam
<1>4. \A m : m \in InRam' <=> m \in ToSet(s) \/ \E q \in Rams \ {r} : m \in ToSet(ram_fifo[q])
  BY <1>1, <1>2
<1>5. \A t : t \in AskersInRam' <=>
               t \in Askers(s) \/ \E q \in Rams \ {r} : t \in Askers(ram_fifo[q])
  BY <1>1, <1>3
<1> QED BY <1>1, <1>4, <1>5

\* A task that arrives asks.
LEMMA ArriveFifos ==
  ASSUME Fifos, TasksTyped, NEW t \in Tasks, NEW p \in Pages, Arrive(t, p)
  PROVE  /\ Fifos' /\ Asking' = Asking \union {t} /\ t \notin Asking
         /\ Sending' = Sending
<1> DEFINE m == [Request(t) EXCEPT !.page = p]
<1>1. /\ page[t] = NoPage /\ page' = [page EXCEPT ![t] = p]
      /\ request_fifo' = Append(request_fifo, m)
      /\ UNCHANGED <<inside_fifo, update_fifo, hash_in, ram_fifo, rsp_write>>
  BY DEF Arrive, cacheVars, walkVars
<1>2. m \in Message /\ m.kind = "request" /\ m.by = t /\ m.page = p
  BY MadeMessages
<1> HIDE DEF m
<1>3. t \notin Asking /\ Arrived' = Arrived \union {t}
  BY <1>1, Numbers DEF Fifos, Arrived, TasksTyped
<1>4. /\ request_fifo' \in Seq(Message) /\ ToSet(request_fifo') = ToSet(request_fifo) \union {m}
      /\ Askers(request_fifo') = Askers(request_fifo) \union {t} /\ AskOnce(request_fifo')
  BY <1>1, <1>2, <1>3, AskersAppend DEF Fifos, FifosTyped, AskedOnce, Asking
<1>5. FifosTyped'  BY <1>1, <1>4 DEF Fifos, FifosTyped
<1>6. Routing'  BY <1>1, <1>2, <1>4 DEF Fifos, Routing
<1>7. Askers(hash_in)' = Askers(hash_in) /\ AskersInRam' = AskersInRam /\ InRam' = InRam
  BY <1>1 DEF AskersInRam, InRam
<1>8. AskedOnce'
  BY <1>1, <1>3, <1>4, <1>7 DEF Fifos, AskedOnce, Asking
<1>9. Asking' = Asking \union {t}  BY <1>1, <1>4, <1>7 DEF Asking
<1>10. OwnPages'
  <2> SUFFICES ASSUME NEW x \in ToSet(request_fifo)' \union ToSet(hash_in)' \union InRam',
                      x.kind = "request"
               PROVE  x.page = page'[x.by]
    BY DEF OwnPages
  <2>1. CASE x = m  BY <2>1, <1>1, <1>2 DEF TasksTyped
  <2>2. CASE x # m
    <3>1. x \in ToSet(request_fifo) \union ToSet(hash_in) \union InRam
      BY <2>2, <1>1, <1>4, <1>7
    <3>2. x.by \in Asking
      BY <3>1 DEF Asking, AskersInRam, Askers, InRam
    <3> QED BY <3>1, <3>2, <1>1, <1>3 DEF Fifos, OwnPages, TasksTyped, Arrived
  <2> QED BY <2>1, <2>2
<1>11. Sending' = Sending  BY <1>1, <1>7 DEF Sending
<1> QED BY <1>3, <1>5, <1>6, <1>8, <1>9, <1>10, <1>11 DEF Fifos

\* The scheduler passes messages on.
LEMMA ScheduleFifos ==
  ASSUME Fifos, Schedule
  PROVE  Fifos' /\ Asking' = Asking /\ Sending' = Sending
<1>1. /\ UNCHANGED <<page, ram_fifo, rsp_write>>
      /\ AskersInRam' = AskersInRam /\ InRam' = InRam /\ Arrived' = Arrived
  BY DEF Schedule, cacheVars, walkVars, AskersInRam, InRam, Arrived
<1>2. /\ request_fifo \in Seq(Message) /\ inside_fifo \in Seq(Message)
      /\ update_fifo \in Seq(Message) /\ hash_in \in Seq(Message)
  BY DEF Fifos, FifosTyped
<1>3. CASE /\ inside_fifo # << >> /\ hash_in' = Append(hash_in, Head(inside_fifo))
           /\ inside_fifo' = Tail(inside_fifo) /\ UNCHANGED <<request_fifo, update_fifo>>
  <2> DEFINE m == Head(inside_fifo)
  <2>1. /\ inside_fifo' \in Seq(Message) /\ m \in Message
        /\ ToSet(inside_fifo) = {m} \union ToSet(inside_fifo')
    BY <1>2, <1>3, AskersTail
  <2>2. m.kind = "prefetch"  BY <2>1 DEF Fifos, Routing
  <2> HIDE DEF m
  <2>3. hash_in' = Append(hash_in, m)  BY <1>3 DEF m
  <2>4. /\ hash_in' \in Seq(Message) /\ ToSet(hash_in') = ToSet(hash_in) \union {m}
        /\ Askers(hash_in') = Askers(hash_in) /\ AskOnce(hash_in')
    BY <2>1, <2>2, <2>3, <1>2, AskersAppend DEF Fifos, AskedOnce
  <2>5. FifosTyped'  BY <2>1, <2>4, <1>1, <1>3 DEF Fifos, FifosTyped
  <2>6. Routing'  BY <2>1, <2>4, <1>1, <1>3 DEF Fifos, Routing
  <2>7. OwnPages'  BY <2>2, <2>4, <1>1, <1>3 DEF Fifos, OwnPages
  <2>8. AskedOnce' /\ Asking' = Asking  BY <2>4, <1>1, <1>3 DEF Fifos, AskedOnce, Asking
  <2>9. Sending' = Sending  BY <2>2, <2>4, <1>1, <1>3 DEF Sending
  <2> QED BY <2>5, <2>6, <2>7, <2>8, <2>9, <1>1 DEF Fifos
<1>4. CASE /\ AnyRequest /\ inside_fifo = << >> /\ hash_in' = Append(hash_in, Head(request_fifo))
           /\ request_fifo' = Tail(request_fifo) /\ UNCHANGED <<inside_fifo, update_fifo>>
  <2> DEFINE m == Head(request_fifo)
  <2>1. request_fifo # << >>  BY <1>4 DEF AnyRequest
  <2>2. AskOnce(request_fifo) /\ AskOnce(hash_in)  BY DEF Fifos, AskedOnce
  <2>3. /\ request_fifo' \in Seq(Message) /\ m \in Message
        /\ ToSet(request_fifo) = {m} \union ToSet(request_fifo')
        /\ AskOnce(request_fifo')
    BY <2>1, <2>2, <1>2, <1>4, AskersTail
  <2>4. m.kind = "request"  BY <2>3 DEF Fifos, Routing
  <2>5. m.by \in Askers(request_fifo) /\ Askers(request_fifo') = Askers(request_fifo) \ {m.by}
    BY <2>1, <2>2, <2>4, <1>2, <1>4, AskersTail
  <2> HIDE DEF m
  <2>6. hash_in' = Append(hash_in, m)  BY <1>4 DEF m
  <2>7. m.by \notin Askers(hash_in)  BY <2>5 DEF Fifos, AskedOnce
  <2>8. /\ hash_in' \in Seq(Message) /\ ToSet(hash_in') = ToSet(hash_in) \union {m}
        /\ Askers(hash_in') = Askers(hash_in) \union {m.by} /\ AskOnce(hash_in')
    BY <2>2, <2>3, <2>4, <2>6, <2>7, <1>2, AskersAppend
  <2>9. FifosTyped'  BY <2>3, <2>8, <1>1, <1>4 DEF Fifos, FifosTyped
  <2>10. Routing'  BY <2>3, <2>8, <1>1, <1>4 DEF Fifos, Routing
  <2>11. OwnPages'  BY <2>3, <2>8, <1>1, <1>4 DEF Fifos, OwnPages
  <2>12. AskedOnce' /\ Asking' = Asking
    BY <2>3, <2>5, <2>8, <1>1, <1>4 DEF Fifos, AskedOnce, Asking
  <2>13. Sending' = Sending  BY <2>4, <2>8, <1>1, <1>4 DEF Sending
  <2> QED BY <2>9, <2>10, <2>11, <2>12, <2>13, <1>1 DEF Fifos
<1>5. CASE /\ update_fifo # << >> /\ hash_in' = Append(hash_in, Head(update_fifo))
           /\ update_fifo' = Tail(update_fifo) /\ UNCHANGED <<request_fifo, inside_fifo>>
  <2> DEFINE m == Head(update_fifo)
  <2>1. /\ update_fifo' \in Seq(Message) /\ m \in Message
        /\ ToSet(update_fifo) = {m} \union ToSet(update_fifo')
    BY <1>2, <1>5, AskersTail
  <2>2. m.kind = "update"  BY <2>1 DEF Fifos, Routing
  <2> HIDE DEF m
  <2>3. hash_in' = Append(hash_in, m)  BY <1>5 DEF m
  <2>4. /\ hash_in' \in Seq(Message) /\ ToSet(hash_in') = ToSet(hash_in) \union {m}
        /\ Askers(hash_in') = Askers(hash_in) /\ AskOnce(hash_in')
    BY <2>1, <2>2, <2>3, <1>2, AskersAppend DEF Fifos, AskedOnce
  <2>5. FifosTyped'  BY <2>1, <2>4, <1>1, <1>5 DEF Fifos, FifosTyped
  <2>6. Routing'  BY <2>1, <2>4, <1>1, <1>5 DEF Fifos, Routing
  <2>7. OwnPages'  BY <2>2, <2>4, <1>1, <1>5 DEF Fifos, OwnPages
  <2>8. AskedOnce' /\ Asking' = Asking  BY <2>4, <1>1, <1>5 DEF Fifos, AskedOnce, Asking
  <2>9. Sending' = Sending  BY <2>1, <2>4, <1>1, <1>5 DEF Sending
  <2> QED BY <2>5, <2>6, <2>7, <2>8, <2>9, <1>1 DEF Fifos
<1> QED BY <1>3, <1>4, <1>5 DEF Schedule, ServesRequest

\* So does the hash stage.
LEMMA DispatchFifos ==
  ASSUME Fifos, Dispatch
  PROVE  Fifos' /\ Asking' = Asking /\ Sending' = Sending
<1> DEFINE m == Head(hash_in)
           r == RamOf(m.page)
<1>1. /\ hash_in # << >> /\ hash_in' = Tail(hash_in)
      /\ ram_fifo' = [ram_fifo EXCEPT ![r] = Append(ram_fifo[r], m)]
      /\ UNCHANGED <<page, request_fifo, inside_fifo, update_fifo, rsp_write>>
  BY DEF Dispatch, walkVars
<1>2. hash_in \in Seq(Message) /\ AskOnce(hash_in)  BY DEF Fifos, FifosTyped, AskedOnce
<1>3. /\ hash_in' \in Seq(Message) /\ m \in Message /\ ToSet(hash_in) = {m} \union ToSet(hash_in')
      /\ m.kind # "request" => Askers(hash_in') = Askers(hash_in)
      /\ m.kind = "request" => m.by \in Askers(hash_in) /\ Askers(hash_in') = Askers(hash_in) \ {m.by}
      /\ AskOnce(hash_in')
  BY <1>1, <1>2, AskersTail
<1> HIDE DEF m
<1>4. r \in Rams  BY <1>3, MessageFields, Numbers
<1>5. r = RamOf(m.page)  OBVIOUS
<1> HIDE DEF r
<1> DEFINE old == ram_fifo[r]
           new == Append(old, m)
<1>6. old \in Seq(Message) /\ AskOnce(old) /\ ToSet(old) \subseteq InRam /\ Askers(old) \subseteq AskersInRam
  BY <1>4 DEF Fifos, FifosTyped, AskedOnce, InRam, AskersInRam
<1> HIDE DEF old
<1>7. m.kind = "request" => m.by \notin AskersInRam
  BY <1>3 DEF Fifos, AskedOnce
<1>8. /\ new \in Seq(Message) /\ ToSet(new) = ToSet(old) \union {m}
      /\ m.kind = "request" => Askers(new) = Askers(old) \union {m.by}
      /\ m.kind # "request" => Askers(new) = Askers(old)
      /\ AskOnce(new)
  BY <1>3, <1>6, <1>7, AskersAppend
<1> HIDE DEF new
<1>9. ram_fifo' = [ram_fifo EXCEPT ![r] = new]  BY <1>1 DEF new, old
<1>10. /\ ram_fifo' \in [Rams -> Seq(Message)] /\ ram_fifo'[r] = new
       /\ \A q \in Rams \ {r} : ram_fifo'[q] = ram_fifo[q]
       /\ \A x : x \in InRam' <=> x \in ToSet(new) \/ \E q \in Rams \ {r} : x \in ToSet(ram_fifo[q])
       /\ \A t : t \in AskersInRam' <=>
                   t \in Askers(new) \/ \E q \in Rams \ {r} : t \in Askers(ram_fifo[q])
  BY <1>4, <1>8, <1>9, RamChanges DEF Fifos
<1>11. /\ \A x : x \in InRam <=> x \in ToSet(old) \/ \E q \in Rams \ {r} : x \in ToSet(ram_fifo[q])
       /\ \A t : t \in AskersInRam <=>
                   t \in Askers(old) \/ \E q \in Rams \ {r} : t \in Askers(ram_fifo[q])
  BY <1>4 DEF InRam, AskersInRam, old
<1>12. /\ InRam' = InRam \union {m}
       /\ m.kind = "request" => AskersInRam' = AskersInRam \union {m.by}
       /\ m.kind # "request" => AskersInRam' = AskersInRam
  <2>1. \A x : x \in InRam' <=> x \in InRam \/ x = m  BY <1>8, <1>10, <1>11
  <2>2. \A t : t \in AskersInRam' <=> t \in AskersInRam \/ (m.kind = "request" /\ t = m.by)
    BY <1>8, <1>10, <1>11
  <2> QED BY <2>1, <2>2
<1>13. FifosTyped'  BY <1>1, <1>3, <1>10 DEF Fifos, FifosTyped
<1>14. Routing'
  <2>1. \A q \in Rams : \A x \in ToSet(ram_fifo'[q]) : RamOf(x.page) = q
    BY <1>5, <1>8, <1>10 DEF Fifos, Routing, old
  <2> QED BY <2>1, <1>1 DEF Fifos, Routing
<1>15. OwnPages'  BY <1>1, <1>3, <1>12 DEF Fifos, OwnPages
<1>16. AskedOnce'
  <2>1. \A q \in Rams : AskOnce(ram_fifo'[q])  BY <1>8, <1>10 DEF Fifos, AskedOnce
  <2> QED BY <2>1, <1>1, <1>3, <1>12 DEF Fifos, AskedOnce
<1>17. Asking' = Asking  BY <1>1, <1>3, <1>12 DEF Asking
<1>18. Sending' = Sending  BY <1>1, <1>3, <1>12 DEF Sending
<1>19. Arrived' = Arrived  BY <1>1 DEF Arrived
<1> QED BY <1>13, <1>14, <1>15, <1>16, <1>17, <1>18, <1>19 DEF Fifos

\* A RAM worker takes the message at the head of its FIFO: a task whose
\* request is served asks no more.
LEMMA ServeFifos ==
  ASSUME Fifos, NEW r \in Rams, NEW k, Serves(r, k),
         UNCHANGED <<page, request_fifo, update_fifo, hash_in, rsp_write>>,
         inside_fifo' \in Seq(Message), \A x \in ToSet(inside_fifo') : x.kind = "prefetch"
  PROVE  LET m == Head(ram_fifo[r])
         IN /\ m \in Message /\ m.kind = k /\ RamOf(m.page) = r /\ m \in InRam
            /\ worker[r].at = "idle"
            /\ Fifos'
            /\ k = "request" => /\ Asking' = Asking \ {m.by} /\ m.by \in Asking
                                /\ m.page = page[m.by] /\ Sending' = Sending
            /\ k = "prefetch" => Asking' = Asking /\ Sending' = Sending
            /\ k = "update" => /\ Asking' = Asking /\ m \in Sending
                               /\ Sending = Sending' \union {m}
<1> DEFINE old == ram_fifo[r]
           m == Head(old)
           new == Tail(old)
<1>1. /\ old # << >> /\ m.kind = k /\ ram_fifo' = [ram_fifo EXCEPT ![r] = new]
      /\ worker[r].at = "idle"
  BY DEF Serves
<1>2. old \in Seq(Message) /\ AskOnce(old)
  BY DEF Fifos, FifosTyped, AskedOnce
<1>3. m = Head(ram_fifo[r])  OBVIOUS
<1>4. old = ram_fifo[r]  OBVIOUS
<1> HIDE DEF old
<1>5. /\ new \in Seq(Message) /\ m \in Message /\ ToSet(old) = {m} \union ToSet(new)
      /\ m.kind # "request" => Askers(new) = Askers(old)
      /\ m.kind = "request" => m.by \in Askers(old) /\ Askers(new) = Askers(old) \ {m.by}
      /\ AskOnce(new)
  BY <1>1, <1>2, AskersTail
<1> HIDE DEF m, new
<1>6. /\ ram_fifo' \in [Rams -> Seq(Message)] /\ ram_fifo'[r] = new
      /\ \A q \in Rams \ {r} : ram_fifo'[q] = ram_fifo[q]
      /\ \A x : x \in InRam' <=> x \in ToSet(new) \/ \E q \in Rams \ {r} : x \in ToSet(ram_fifo[q])
      /\ \A t : t \in AskersInRam' <=>
                  t \in Askers(new) \/ \E q \in Rams \ {r} : t \in Askers(ram_fifo[q])
  BY <1>1, <1>5, RamChanges DEF Fifos
<1>7. /\ \A x : x \in InRam <=> x \in ToSet(old) \/ \E q \in Rams \ {r} : x \in ToSet(ram_fifo[q])
      /\ \A t : t \in AskersInRam <=>
                  t \in Askers(old) \/ \E q \in Rams \ {r} : t \in Askers(ram_fifo[q])
  BY <1>4 DEF InRam, AskersInRam
<1>8. RamOf(m.page) = r /\ m \in InRam
  BY <1>4, <1>5, <1>7 DEF Fifos, Routing
<1>9. m.kind = "request" => /\ m.page = page[m.by] /\ m.by \in AskersInRam
                            /\ \A q \in Rams \ {r} : m.by \notin Askers(ram_fifo[q])
  <2> HAVE m.kind = "request"
  <2>1. m.page = page[m.by]  BY <1>8 DEF Fifos, OwnPages
  <2>2. \A q \in Rams : m.by \in Askers(ram_fifo[q]) => q = r
    BY <2>1, <1>8, AskedRam DEF Fifos
  <2> QED BY <2>1, <2>2, <1>5, <1>7
<1>10. InRam = InRam' \union {m} /\ \A x \in InRam' : x \in InRam
  BY <1>5, <1>6, <1>7
<1>11. /\ m.kind # "request" => AskersInRam' = AskersInRam
       /\ m.kind = "request" => AskersInRam' = AskersInRam \ {m.by}
  <2>1. ASSUME m.kind # "request" PROVE \A t : t \in AskersInRam' <=> t \in AskersInRam
    BY <2>1, <1>5, <1>6, <1>7
  <2>2. ASSUME m.kind = "request" PROVE \A t : t \in AskersInRam' <=> t \in AskersInRam /\ t # m.by
    BY <2>2, <1>5, <1>6, <1>7, <1>9
  <2> QED BY <2>1, <2>2
<1>12. FifosTyped'  BY <1>6 DEF Fifos, FifosTyped
<1>13. Routing'
  <2>1. \A q \in Rams : \A x \in ToSet(ram_fifo'[q]) : RamOf(x.page) = q
    BY <1>4, <1>5, <1>6 DEF Fifos, Routing
  <2> QED BY <2>1 DEF Fifos, Routing
<1>14. OwnPages'  BY <1>10 DEF Fifos, OwnPages
<1>15. AskedOnce'
  <2>1. \A q \in Rams : AskOnce(ram_fifo'[q])  BY <1>5, <1>6 DEF Fifos, AskedOnce
  <2> QED BY <2>1, <1>11 DEF Fifos, AskedOnce
<1>16. /\ m.kind # "request" => Asking' = Asking
       /\ m.kind = "request" => Asking' = Asking \ {m.by} /\ m.by \in Asking
  <2>1. m.kind = "request" => m.by \notin Askers(request_fifo) \union Askers(hash_in)
    BY <1>9 DEF Fifos, AskedOnce
  <2> QED BY <2>1, <1>9, <1>11 DEF Asking
<1>17. /\ m.kind # "update" => Sending' = Sending
       /\ m.kind = "update" => m \in Sending /\ Sending = Sending' \union {m}
  BY <1>8, <1>10 DEF Sending
<1>18. Asking' \subseteq Arrived'
  BY <1>16 DEF Fifos, Arrived
<1>19. Fifos'  BY <1>12, <1>13, <1>14, <1>15, <1>18 DEF Fifos
<1>20. m.kind = k /\ worker[r].at = "idle"  BY <1>1
<1> QED BY <1>3, <1>5, <1>8, <1>9, <1>16, <1>17, <1>19, <1>20

\* The other steps leave the FIFOs alone, but for updates that are written.
LEMMA SameFifos ==
  ASSUME Fifos, UNCHANGED <<page, pipeVars, ram_fifo, rsp_write>>
  PROVE  Fifos' /\ Asking' = Asking /\ Sending' = Sending
BY DEF pipeVars, Fifos, FifosTyped, Routing, OwnPages, AskedOnce, Asking, Sending, Arrived, InRam,
       AskersInRam

LEMMA NonEmpty ==
  ASSUME NEW S, NEW s \in Seq(S), s # << >>
  PROVE  Len(s) \in Nat \ {0} /\ DOMAIN s = 1 .. Len(s) /\ Head(s) = s[1] /\ Head(s) \in S
OBVIOUS

LEMMA TailLength ==
  ASSUME NEW S, NEW s \in Seq(S), s # << >>
  PROVE  Len(s) = 1 <=> Tail(s) = << >>
<1>1. Len(s) \in Nat \ {0} /\ Tail(s) \in Seq(S) /\ Len(Tail(s)) = Len(s) - 1
  OBVIOUS
<1>2. \A u \in Seq(S) : Len(u) = 0 <=> u = << >>
  OBVIOUS
<1>3. Tail(s) = << >> <=> Len(s) - 1 = 0
  BY <1>1, <1>2
<1> QED BY <1>1, <1>3

LEMMA Joined ==
  ASSUME NEW S, NEW s \in Seq(S), NEW u \in Seq(S)
  PROVE  LET v == s \o u
         IN /\ v \in Seq(S) /\ Len(v) = Len(s) + Len(u) /\ DOMAIN v = 1 .. (Len(s) + Len(u))
            /\ Len(s) \in Nat /\ Len(u) \in Nat
            /\ \A i \in 1 .. Len(s) : v[i] = s[i]
            /\ \A i \in (Len(s) + 1) .. (Len(s) + Len(u)) : v[i] = u[i - Len(s)]
OBVIOUS

\* A list with another head.
LEMMA ReplaceHead ==
  ASSUME NEW S, NEW s \in Seq(S), s # << >>, NEW e \in S
  PROVE  LET u == <<e>> \o Tail(s)
         IN /\ u \in Seq(S) /\ ToSet(u) = {e} \union ToSet(Tail(s))
            /\ DOMAIN u = DOMAIN s /\ u[1] = e /\ \A i \in DOMAIN s \ {1} : u[i] = s[i]
<1> DEFINE u == <<e>> \o Tail(s)
           t == Tail(s)
<1>1. /\ t \in Seq(S) /\ Len(s) \in Nat \ {0} /\ DOMAIN s = 1 .. Len(s)
      /\ DOMAIN t = 1 .. (Len(s) - 1) /\ Len(t) = Len(s) - 1
      /\ \A i \in 1 .. (Len(s) - 1) : t[i] = s[i + 1]
  OBVIOUS
<1> HIDE DEF t
<1> DEFINE h == <<e>>
           v == h \o t
<1>a. h \in Seq(S) /\ Len(h) = 1 /\ h[1] = e
  OBVIOUS
<1>b. h = <<e>>
  OBVIOUS
<1> HIDE DEF h
<1>2. /\ v \in Seq(S) /\ Len(v) = Len(s) /\ DOMAIN v = 1 .. Len(s)
      /\ v[1] = e /\ \A i \in 2 .. Len(s) : v[i] = t[i - 1]
  <2>1. /\ v \in Seq(S) /\ Len(v) = Len(h) + Len(t) /\ DOMAIN v = 1 .. (Len(h) + Len(t))
        /\ \A i \in 1 .. Len(h) : v[i] = h[i]
        /\ \A i \in (Len(h) + 1) .. (Len(h) + Len(t)) : v[i] = t[i - Len(h)]
    <3>1. h \in Seq(S) /\ t \in Seq(S)  BY <1>1, <1>a
    <3> QED BY <3>1
  <2> HIDE DEF v
  <2> QED BY <2>1, <1>1, <1>a
<1> HIDE DEF v
<1>3. \A i \in DOMAIN s \ {1} : v[i] = s[i] /\ v[i] = t[i - 1] /\ i - 1 \in DOMAIN t
  BY <1>1, <1>2
<1>4. ToSet(v) \subseteq {e} \union ToSet(t)
  BY <1>1, <1>2, <1>3 DEF ToSet
<1>5. ToSet(t) \subseteq ToSet(v)
  <2> SUFFICES ASSUME NEW i \in DOMAIN t PROVE t[i] \in ToSet(v)
    BY DEF ToSet
  <2>1. i + 1 \in DOMAIN v /\ v[i + 1] = t[i]  BY <1>1, <1>2
  <2> QED BY <2>1 DEF ToSet
<1>6. e \in ToSet(v)
  <2>1. 1 \in DOMAIN v  BY <1>1, <1>2
  <2> QED BY <2>1, <1>2 DEF ToSet
<1>7. v = u  BY <1>b DEF v, u, t
<1>8. DOMAIN v = DOMAIN s /\ \A i \in DOMAIN s \ {1} : v[i] = s[i]  BY <1>1, <1>2, <1>3
<1> QED BY <1>2, <1>4, <1>5, <1>6, <1>7, <1>8 DEF t

\* An update of the response thread, or of a group, goes into update_fifo.
LEMMA RspWriteFifos ==
  ASSUME Fifos, Len(rsp_write) <= 1, RspWrite
  PROVE  /\ Fifos' /\ Asking' = Asking /\ Sending' = Sending
         /\ Len(rsp_write') <= 1 /\ Len(update_fifo') <= UPDATE_DEPTH
<1>1. /\ rsp_write # << >> /\ update_fifo' = update_fifo \o rsp_write /\ rsp_write' = << >>
      /\ UNCHANGED <<page, request_fifo, inside_fifo, hash_in, ram_fifo>>
      /\ Len(update_fifo) < UPDATE_DEPTH
  BY DEF RspWrite, cacheVars
<1>2. rsp_write \in Seq(Message) /\ update_fifo \in Seq(Message)  BY DEF Fifos, FifosTyped
<1> DEFINE m == rsp_write[1]
<1>3. rsp_write = <<m>> /\ m \in Message /\ ToSet(rsp_write) = {m}
  <2>1. Len(rsp_write) = 1
    <3>1. rsp_write # << >> /\ rsp_write \in Seq(Message)  BY <1>1, <1>2
    <3>2. Len(rsp_write) \in Nat \ {0}  BY <3>1, NonEmpty
    <3>3. Len(rsp_write) <= 1  OBVIOUS
    <3>4. \A n \in Nat \ {0} : n <= 1 => n = 1  OBVIOUS
    <3> QED BY <3>2, <3>3, <3>4
  <2>2. DOMAIN rsp_write = {1} /\ rsp_write = <<m>> /\ m \in Message  BY <2>1, <1>2
  <2>3. ToSet(rsp_write) = {m}  BY <2>2 DEF ToSet
  <2> QED BY <2>2, <2>3
<1> HIDE DEF m
<1>4. update_fifo' = Append(update_fifo, m)  BY <1>1, <1>2, <1>3
<1>5. /\ update_fifo' \in Seq(Message) /\ ToSet(update_fifo') = ToSet(update_fifo) \union {m}
      /\ Len(update_fifo') = Len(update_fifo) + 1 /\ Len(update_fifo) \in Nat
  BY <1>2, <1>3, <1>4, AppendSet
<1>6. ToSet(rsp_write') = {} /\ rsp_write' \in Seq(Message) /\ Len(rsp_write') = 0
  BY <1>1 DEF ToSet
<1>7. InRam' = InRam /\ AskersInRam' = AskersInRam /\ Arrived' = Arrived
  BY <1>1 DEF InRam, AskersInRam, Arrived
<1>8. FifosTyped'  BY <1>1, <1>5, <1>6 DEF Fifos, FifosTyped
<1>9. Routing'  BY <1>1, <1>3, <1>5, <1>6 DEF Fifos, Routing
<1>10. OwnPages' /\ AskedOnce' /\ Asking' = Asking
  BY <1>1, <1>7 DEF Fifos, OwnPages, AskedOnce, Asking
<1>11. Sending' = Sending  BY <1>1, <1>3, <1>5, <1>6, <1>7 DEF Sending
<1>12. Len(update_fifo') <= UPDATE_DEPTH  BY <1>1, <1>5, SizeAssumption
<1> QED BY <1>6, <1>7, <1>8, <1>9, <1>10, <1>11, <1>12 DEF Fifos

LEMMA WriteFifos ==
  ASSUME Fifos, NEW m \in Message, m.kind = "update", Len(update_fifo) < UPDATE_DEPTH,
         update_fifo' = Append(update_fifo, m),
         UNCHANGED <<page, request_fifo, inside_fifo, hash_in, ram_fifo, rsp_write>>
  PROVE  /\ Fifos' /\ Asking' = Asking /\ Sending' = Sending \union {m}
         /\ Len(update_fifo') <= UPDATE_DEPTH
<1>1. /\ update_fifo' \in Seq(Message) /\ ToSet(update_fifo') = ToSet(update_fifo) \union {m}
      /\ Len(update_fifo') = Len(update_fifo) + 1 /\ Len(update_fifo) \in Nat
  BY AppendSet DEF Fifos, FifosTyped
<1>2. InRam' = InRam /\ AskersInRam' = AskersInRam /\ Arrived' = Arrived
  BY DEF InRam, AskersInRam, Arrived
<1>3. FifosTyped'  BY <1>1 DEF Fifos, FifosTyped
<1>4. Routing'  BY <1>1 DEF Fifos, Routing
<1>5. OwnPages' /\ AskedOnce' /\ Asking' = Asking
  BY <1>2 DEF Fifos, OwnPages, AskedOnce, Asking
<1>6. Sending' = Sending \union {m}  BY <1>1, <1>2 DEF Sending
<1>7. Len(update_fifo') <= UPDATE_DEPTH  BY <1>1, SizeAssumption
<1> QED BY <1>2, <1>3, <1>4, <1>5, <1>6, <1>7 DEF Fifos

LEMMA AnswerFifos ==
  ASSUME Fifos, NEW m \in Message, m.kind = "update", rsp_write = << >>, rsp_write' = <<m>>,
         UNCHANGED <<page, pipeVars, ram_fifo>>
  PROVE  Fifos' /\ Asking' = Asking /\ Sending' = Sending \union {m} /\ Len(rsp_write') <= 1
<1>1. /\ ToSet(rsp_write) = {} /\ ToSet(rsp_write') = {m} /\ rsp_write' \in Seq(Message)
      /\ Len(rsp_write') = 1
  <2>1. DOMAIN rsp_write' = {1} /\ rsp_write'[1] = m /\ rsp_write' \in Seq(Message) /\ Len(rsp_write') = 1
    OBVIOUS
  <2> QED BY <2>1 DEF ToSet
<1>2. /\ InRam' = InRam /\ AskersInRam' = AskersInRam /\ Arrived' = Arrived
      /\ UNCHANGED <<request_fifo, inside_fifo, update_fifo, hash_in>>
  BY DEF InRam, AskersInRam, Arrived, pipeVars
<1>3. FifosTyped'  BY <1>1, <1>2 DEF Fifos, FifosTyped
<1>4. Routing'  BY <1>1, <1>2 DEF Fifos, Routing
<1>5. OwnPages' /\ AskedOnce' /\ Asking' = Asking
  BY <1>2 DEF Fifos, OwnPages, AskedOnce, Asking
<1>6. Sending' = Sending \union {m}  BY <1>1, <1>2 DEF Sending
<1> QED BY <1>1, <1>2, <1>3, <1>4, <1>5, <1>6 DEF Fifos

-----------------------------------------------------------------------------
(* The groups that the monitor has collected.                               *)

Mains == {g.main : g \in ToSet(agg)}
Awaited == {g.main : g \in {h \in ToSet(agg) : h.bypass}}
Writes == UNION {ToSet(g.writes) : g \in ToSet(agg)}
GroupShape(g) == /\ g.bypass <=> g.writes = << >>
                 /\ \A m \in ToSet(g.writes) : m.kind = "update" /\ m.by = g.main
Groups == /\ agg \in Seq(GroupRecord)
          /\ \A g \in ToSet(agg) : GroupShape(g) /\ (g.fault <=> page[g.main] \in Unmapped)
          /\ \A i, j \in DOMAIN agg : agg[i].main = agg[j].main => i = j

LEMMA GroupFields ==
  \A g \in GroupRecord : /\ g.main \in Tasks /\ g.bypass \in BOOLEAN /\ g.fault \in BOOLEAN
                         /\ g.writes \in Seq(Message)
BY DEF GroupRecord

LEMMA GroupsIn == Groups => ToSet(agg) \subseteq GroupRecord
BY DEF Groups, ToSet

\* What a group is made of: one update of each page it covers, but for IOVA 0.
LEMMA GroupMade ==
  ASSUME NEW t \in Tasks, page[t] \in Pages, GroupDepth(page[t]) > 0,
         NEW res \in [1 .. GroupDepth(page[t]) + 1 -> Results]
  PROVE  LET g == Group(t, res)
         IN /\ g \in GroupRecord /\ g.main = t /\ g.bypass = MarkedBypass(t)
            /\ g.fault <=> page[t] \in Unmapped
            /\ GroupShape(g)
            /\ ~g.bypass /\ ~FirstTable =>
                 \A d \in 0 .. GroupDepth(page[t]) : \E m \in ToSet(g.writes) : m.page = page[t] + d
<1> DEFINE n == GroupDepth(page[t]) + 1
           all == [d \in DOMAIN res |-> Update(t, page[t] + d - 1, res[d])]
           g == Group(t, res)
<1>1. GroupDepth(page[t]) \in Nat /\ page[t] \in Nat
      /\ \A d \in 0 .. GroupDepth(page[t]) : page[t] + d \in Pages
  BY DepthType, Numbers
<1>2. n \in Nat /\ n > 1 /\ DOMAIN res = 1 .. n /\ \A d \in 1 .. n : d - 1 \in 0 .. GroupDepth(page[t])
  BY <1>1
<1>3. \A d \in 1 .. n : page[t] + d - 1 \in Pages
  <2> TAKE d \in 1 .. n
  <2>1. page[t] + (d - 1) \in Pages  BY <1>1, <1>2
  <2>2. page[t] + (d - 1) = page[t] + d - 1  BY <1>1, <1>2
  <2> QED BY <2>1, <2>2
<1> DEFINE U(d) == Update(t, page[t] + d - 1, res[d])
<1>4. \A d \in 1 .. n : /\ U(d) \in Message /\ U(d).kind = "update" /\ U(d).by = t
                        /\ U(d).page = page[t] + d - 1
  <2> TAKE d \in 1 .. n
  <2> DEFINE q == page[t] + d - 1
             e == res[d]
  <2>1. q \in Pages /\ e \in Results  BY <1>2, <1>3
  <2> HIDE DEF q, e, n
  <2>2. /\ Update(t, q, e) \in Message /\ Update(t, q, e).kind = "update"
        /\ Update(t, q, e).by = t /\ Update(t, q, e).page = q
    BY <2>1 DEF Message, Update
  <2>3. U(d) = Update(t, q, e) /\ q = page[t] + d - 1  BY DEF q, e
  <2> QED BY <2>2, <2>3
<1>5. /\ all = [d \in 1 .. n |-> U(d)]
      /\ g = [main |-> t, bypass |-> MarkedBypass(t), fault |-> page[t] \in Unmapped,
              writes |-> IF MarkedBypass(t) THEN << >>
                         ELSE IF FirstTable /\ page[t] = 0 THEN Tail(all) ELSE all]
  BY <1>2 DEF Group
<1> HIDE DEF U
<1>6. /\ all \in Seq(Message) /\ DOMAIN all = 1 .. n /\ all # << >> /\ Len(all) = n
      /\ \A d \in 1 .. n : all[d] = U(d)
  <2>1. all \in [1 .. n -> Message]  BY <1>4, <1>5
  <2> HIDE DEF n
  <2>2. all \in Seq(Message) /\ Len(all) = n /\ DOMAIN all = 1 .. n  BY <2>1, <1>2, FunctionIsSeq
  <2>3. all # << >>  BY <2>2, <1>2
  <2> QED BY <2>2, <2>3, <1>5
<1> HIDE DEF all, g, n
<1>7. ToSet(all) = {U(d) : d \in 1 .. n}  BY <1>6 DEF ToSet
<1>8. /\ Tail(all) \in Seq(Message) /\ ToSet(Tail(all)) \subseteq ToSet(all) /\ Tail(all) # << >>
  <2>1. Len(Tail(all)) = n - 1  BY <1>2, <1>6
  <2>2. Tail(all) # << >>  BY <2>1, <1>2
  <2> QED BY <2>2, <1>6, TailSet
<1>9. MarkedBypass(t) \in BOOLEAN /\ (page[t] \in Unmapped) \in BOOLEAN
  BY ModeAssumption DEF MarkedBypass
<1>10. /\ g.main = t /\ g.bypass = MarkedBypass(t) /\ g.fault = (page[t] \in Unmapped)
       /\ g.writes = IF MarkedBypass(t) THEN << >>
                     ELSE IF FirstTable /\ page[t] = 0 THEN Tail(all) ELSE all
  BY <1>5
<1>11. g.writes \in Seq(Message)  BY <1>6, <1>8, <1>10
<1>12. g \in GroupRecord
  <2> DEFINE w == IF MarkedBypass(t) THEN << >>
                  ELSE IF FirstTable /\ page[t] = 0 THEN Tail(all) ELSE all
  <2>1. w \in Seq(Message)  BY <1>6, <1>8
  <2>2. g = [main |-> t, bypass |-> MarkedBypass(t), fault |-> page[t] \in Unmapped, writes |-> w]
    BY <1>5
  <2> HIDE DEF w
  <2> QED BY <2>1, <2>2, <1>9 DEF GroupRecord
<1>13. g.bypass <=> g.writes = << >>  BY <1>6, <1>8, <1>10
<1>14. \A m \in ToSet(g.writes) : m.kind = "update" /\ m.by = t
  <2>1. ToSet(g.writes) \subseteq ToSet(all)  BY <1>8, <1>10 DEF ToSet
  <2> QED BY <2>1, <1>4, <1>7
<1>15. ASSUME ~g.bypass, ~FirstTable, NEW d \in 0 .. GroupDepth(page[t])
       PROVE  \E m \in ToSet(g.writes) : m.page = page[t] + d
  <2>1. g.writes = all  BY <1>10, <1>15
  <2>2. d + 1 \in 1 .. n /\ page[t] + (d + 1) - 1 = page[t] + d  BY <1>1 DEF n
  <2> QED BY <2>1, <2>2, <1>4, <1>7
<1> QED BY <1>10, <1>12, <1>13, <1>14, <1>15 DEF GroupShape, g

\* A group is collected.
LEMMA GroupAppended ==
  ASSUME Groups, NEW g \in GroupRecord, GroupShape(g), g.fault <=> page[g.main] \in Unmapped,
         g.main \notin Mains, agg' = Append(agg, g), page' = page
  PROVE  /\ Groups' /\ ToSet(agg') = ToSet(agg) \union {g} /\ Mains' = Mains \union {g.main}
         /\ Writes' = Writes \union ToSet(g.writes)
         /\ Awaited' = Awaited \union (IF g.bypass THEN {g.main} ELSE {})
<1>1. agg \in Seq(GroupRecord)  BY DEF Groups
<1>2. agg' \in Seq(GroupRecord) /\ ToSet(agg') = ToSet(agg) \union {g}  BY <1>1, AppendSet
<1>3. /\ Len(agg) \in Nat /\ DOMAIN agg = 1 .. Len(agg) /\ DOMAIN agg' = 1 .. (Len(agg) + 1)
      /\ \A i \in 1 .. Len(agg) : agg'[i] = agg[i]
      /\ agg'[Len(agg) + 1] = g
  BY <1>1
<1>4. \A h \in ToSet(agg') : GroupShape(h) /\ (h.fault <=> page'[h.main] \in Unmapped)
  BY <1>2 DEF Groups
<1>5. ASSUME NEW i \in DOMAIN agg', NEW j \in DOMAIN agg', agg'[i].main = agg'[j].main, i # j
      PROVE  FALSE
  <2>1. \A k \in 1 .. Len(agg) : agg'[k].main \in Mains  BY <1>3 DEF Mains, ToSet
  <2>2. (i \in 1 .. Len(agg) \/ i = Len(agg) + 1) /\ (j \in 1 .. Len(agg) \/ j = Len(agg) + 1)
    BY <1>3
  <2>3. CASE i \in 1 .. Len(agg) /\ j \in 1 .. Len(agg)  BY <2>3, <1>3, <1>5 DEF Groups
  <2>4. CASE i = Len(agg) + 1 /\ j \in 1 .. Len(agg)  BY <2>4, <1>3, <1>5, <2>1
  <2>5. CASE j = Len(agg) + 1 /\ i \in 1 .. Len(agg)  BY <2>5, <1>3, <1>5, <2>1
  <2> QED BY <2>2, <2>3, <2>4, <2>5, <1>5
<1>6. Groups'  BY <1>2, <1>4, <1>5 DEF Groups, GroupShape
<1>7. Mains' = Mains \union {g.main} /\ Writes' = Writes \union ToSet(g.writes)
  BY <1>2 DEF Mains, Writes
<1>8. Awaited' = Awaited \union (IF g.bypass THEN {g.main} ELSE {})
  <2>1. \A t : t \in Awaited' <=> \E h \in ToSet(agg) \union {g} : h.bypass /\ h.main = t
    BY <1>2 DEF Awaited
  <2>2. \A t : t \in Awaited <=> \E h \in ToSet(agg) : h.bypass /\ h.main = t
    BY DEF Awaited
  <2> QED BY <2>1, <2>2
<1> QED BY <1>2, <1>6, <1>7, <1>8

\* The first group writes an update, its last one or not.
AfterWrite == IF Len(Head(agg).writes) = 1 THEN Tail(agg)
              ELSE <<[Head(agg) EXCEPT !.writes = Tail(@)]>> \o Tail(agg)

LEMMA GroupWrites ==
  ASSUME Groups, agg # << >>, Head(agg).writes # << >>, page' = page, agg' = AfterWrite
  PROVE  LET g == Head(agg)
             u == Head(g.writes)
         IN /\ g \in GroupRecord /\ g \in ToSet(agg)
            /\ u \in Message /\ u.kind = "update" /\ u.by = g.main /\ u \in Writes
            /\ Groups' /\ Mains = Mains' \union {g.main} /\ Awaited' = Awaited
            /\ Writes = Writes' \union {u}
            /\ \A h \in ToSet(agg) : h.main # g.main => h \in ToSet(agg')
<1> DEFINE g == Head(agg)
           u == Head(g.writes)
           rest == Tail(agg)
           ws == Tail(g.writes)
<1>1. /\ agg \in Seq(GroupRecord) /\ Len(agg) \in Nat \ {0} /\ DOMAIN agg = 1 .. Len(agg)
      /\ g = agg[1]
  BY NonEmpty DEF Groups
<1>2. /\ rest \in Seq(GroupRecord) /\ g \in GroupRecord /\ ToSet(agg) = {g} \union ToSet(rest)
  BY <1>1, TailSet
<1>3. /\ DOMAIN rest = 1 .. (Len(agg) - 1) /\ \A i \in 1 .. (Len(agg) - 1) : rest[i] = agg[i + 1]
  BY <1>1
<1>4. g.writes \in Seq(Message) /\ g.main \in Tasks /\ GroupShape(g) /\ ~g.bypass
  BY <1>2, GroupFields DEF Groups, GroupShape
<1>5. agg' = IF Len(g.writes) = 1 THEN rest ELSE <<[g EXCEPT !.writes = ws]>> \o rest
  BY DEF AfterWrite
<1>6. g.writes # << >>  OBVIOUS
<1>7. g = Head(agg) /\ u = Head(g.writes)  OBVIOUS
<1>8. rest = Tail(agg)  OBVIOUS
<1>9. ws = Tail(g.writes)  OBVIOUS
<1> HIDE DEF g, rest
<1>10. /\ ws \in Seq(Message) /\ u \in Message /\ ToSet(g.writes) = {u} \union ToSet(ws)
  BY <1>4, <1>6, TailSet
<1>11. u.kind = "update" /\ u.by = g.main /\ u \in Writes
  BY <1>2, <1>4, <1>10 DEF GroupShape, Writes
<1>12. \A h \in ToSet(rest) : h.main # g.main
  <2> SUFFICES ASSUME NEW i \in DOMAIN rest, rest[i].main = g.main PROVE FALSE  BY DEF ToSet
  <2>1. i + 1 \in DOMAIN agg /\ 1 \in DOMAIN agg /\ i + 1 # 1 /\ agg[i + 1].main = agg[1].main
    BY <1>1, <1>3
  <2> QED BY <2>1 DEF Groups
<1>13. \A h \in ToSet(rest) : GroupShape(h) /\ (h.fault <=> page[h.main] \in Unmapped)
  BY <1>2 DEF Groups
<1>14. CASE Len(g.writes) = 1
  <2>1. agg' = rest  BY <1>5, <1>14
  <2>2. ToSet(ws) = {}
    <3>1. ws = << >>  BY <1>4, <1>6, <1>9, <1>14, TailLength
    <3> QED BY <3>1 DEF ToSet
  <2>3. \A i, j \in DOMAIN rest : rest[i].main = rest[j].main => i = j
    <3> SUFFICES ASSUME NEW i \in DOMAIN rest, NEW j \in DOMAIN rest, rest[i].main = rest[j].main
                 PROVE  i = j
      OBVIOUS
    <3>1. /\ i + 1 \in DOMAIN agg /\ j + 1 \in DOMAIN agg /\ i \in Int /\ j \in Int
          /\ agg[i + 1].main = agg[j + 1].main
      BY <1>1, <1>3
    <3>2. i + 1 = j + 1  BY <3>1 DEF Groups
    <3> QED BY <3>1, <3>2
  <2>4. Groups'  BY <2>1, <2>3, <1>2, <1>13 DEF Groups, GroupShape
  <2>5. Mains = Mains' \union {g.main}  BY <2>1, <1>2 DEF Mains
  <2>6. Awaited' = Awaited  BY <2>1, <1>2, <1>4 DEF Awaited
  <2>7. Writes = Writes' \union {u}  BY <2>1, <2>2, <1>2, <1>10 DEF Writes
  <2>8. \A h \in ToSet(agg) : h.main # g.main => h \in ToSet(agg')  BY <2>1, <1>2
  <2> QED BY <2>4, <2>5, <2>6, <2>7, <2>8, <1>2, <1>7, <1>10, <1>11
<1>15. CASE Len(g.writes) # 1
  <2> DEFINE k == [g EXCEPT !.writes = ws]
  <2>1. k \in GroupRecord /\ k.main = g.main /\ k.bypass = g.bypass /\ k.fault = g.fault /\ k.writes = ws
    BY <1>2, <1>10 DEF GroupRecord
  <2>2. agg' = <<k>> \o Tail(agg)  BY <1>5, <1>8, <1>15
  <2> HIDE DEF k
  <2>3. /\ agg' \in Seq(GroupRecord) /\ ToSet(agg') = {k} \union ToSet(rest)
        /\ DOMAIN agg' = DOMAIN agg /\ agg'[1] = k /\ \A i \in DOMAIN agg \ {1} : agg'[i] = agg[i]
    <3> DEFINE v == <<k>> \o Tail(agg)
    <3>1. /\ v \in Seq(GroupRecord) /\ ToSet(v) = {k} \union ToSet(Tail(agg))
          /\ DOMAIN v = DOMAIN agg /\ v[1] = k /\ \A i \in DOMAIN agg \ {1} : v[i] = agg[i]
      BY <2>1, <1>1, ReplaceHead
    <3> QED BY <3>1, <2>2, <1>8
  <2>4. ws # << >>
    BY <1>4, <1>6, <1>9, <1>15, TailLength
  <2>5. GroupShape(k) /\ (k.fault <=> page[k.main] \in Unmapped)
    BY <2>1, <2>4, <1>2, <1>4, <1>10 DEF GroupShape, Groups
  <2>6. \A i, j \in DOMAIN agg' : agg'[i].main = agg'[j].main => i = j
    <3>1. \A i \in DOMAIN agg' : agg'[i].main = agg[i].main
      <4> TAKE i \in DOMAIN agg'
      <4>1. CASE i = 1  BY <4>1, <2>1, <2>3, <1>1
      <4>2. CASE i # 1  BY <4>2, <2>3
      <4> QED BY <4>1, <4>2
    <3>2. \A i, j \in DOMAIN agg : agg[i].main = agg[j].main => i = j  BY DEF Groups
    <3> QED BY <3>1, <3>2, <2>3
  <2>7. Groups'
    <3>1. \A h \in ToSet(agg') : GroupShape(h) /\ (h.fault <=> page'[h.main] \in Unmapped)
      BY <2>3, <2>5, <1>13
    <3>2. agg' \in Seq(GroupRecord)  BY <2>3
    <3> QED BY <3>1, <3>2, <2>6 DEF Groups, GroupShape
  <2>8. Mains = Mains' \union {g.main}  BY <2>1, <2>3, <1>2 DEF Mains
  <2>9. Awaited' = Awaited  BY <2>1, <2>3, <1>2, <1>4 DEF Awaited
  <2>10. Writes = Writes' \union {u}
    <3>1. \A m : m \in Writes <=> m \in ToSet(g.writes) \/ \E h \in ToSet(rest) : m \in ToSet(h.writes)
      BY <1>2 DEF Writes
    <3>2. \A m : m \in Writes' <=> m \in ToSet(ws) \/ \E h \in ToSet(rest) : m \in ToSet(h.writes)
      BY <2>1, <2>3 DEF Writes
    <3> QED BY <3>1, <3>2, <1>10
  <2>11. \A h \in ToSet(agg) : h.main # g.main => h \in ToSet(agg')  BY <2>3, <1>2
  <2> QED BY <2>7, <2>8, <2>9, <2>10, <2>11, <1>2, <1>7, <1>10, <1>11
<1> QED BY <1>14, <1>15

\* The first group has nothing to write: its main task is forwarded.
LEMMA GroupForwards ==
  ASSUME Groups, agg # << >>, Head(agg).writes = << >>, page' = page, agg' = Tail(agg)
  PROVE  LET g == Head(agg)
         IN /\ g \in GroupRecord /\ g \in ToSet(agg) /\ g.bypass /\ g.main \in Awaited
            /\ (g.fault <=> page[g.main] \in Unmapped)
            /\ Groups' /\ Mains' = Mains \ {g.main} /\ Awaited' = Awaited \ {g.main}
            /\ Writes' = Writes
<1> DEFINE g == Head(agg)
           rest == Tail(agg)
<1>1. /\ agg \in Seq(GroupRecord) /\ Len(agg) \in Nat \ {0} /\ DOMAIN agg = 1 .. Len(agg)
      /\ g = agg[1]
  BY NonEmpty DEF Groups
<1>2. /\ rest \in Seq(GroupRecord) /\ g \in GroupRecord /\ ToSet(agg) = {g} \union ToSet(rest)
  BY <1>1, TailSet
<1>3. /\ DOMAIN rest = 1 .. (Len(agg) - 1) /\ \A i \in 1 .. (Len(agg) - 1) : rest[i] = agg[i + 1]
  BY <1>1
<1>4. GroupShape(g) /\ g.bypass /\ ToSet(g.writes) = {} /\ (g.fault <=> page[g.main] \in Unmapped)
  BY <1>2 DEF Groups, GroupShape, ToSet
<1>5. g = Head(agg) /\ agg' = rest  OBVIOUS
<1> HIDE DEF g, rest
<1>6. \A h \in ToSet(rest) : h.main # g.main
  <2> SUFFICES ASSUME NEW i \in DOMAIN rest, rest[i].main = g.main PROVE FALSE  BY DEF ToSet
  <2>1. i + 1 \in DOMAIN agg /\ 1 \in DOMAIN agg /\ i + 1 # 1 /\ agg[i + 1].main = agg[1].main
    BY <1>1, <1>3
  <2> QED BY <2>1 DEF Groups
<1>7. \A h \in ToSet(rest) : GroupShape(h) /\ (h.fault <=> page[h.main] \in Unmapped)
  BY <1>2 DEF Groups
<1>8. \A i, j \in DOMAIN rest : rest[i].main = rest[j].main => i = j
  <2> SUFFICES ASSUME NEW i \in DOMAIN rest, NEW j \in DOMAIN rest, rest[i].main = rest[j].main
               PROVE  i = j
    OBVIOUS
  <2>1. /\ i + 1 \in DOMAIN agg /\ j + 1 \in DOMAIN agg /\ i \in Int /\ j \in Int
        /\ agg[i + 1].main = agg[j + 1].main
    BY <1>1, <1>3
  <2>2. i + 1 = j + 1  BY <2>1 DEF Groups
  <2> QED BY <2>1, <2>2
<1>9. Groups'  BY <1>2, <1>5, <1>7, <1>8 DEF Groups, GroupShape
<1>10. Mains' = Mains \ {g.main} /\ Awaited' = Awaited \ {g.main} /\ g.main \in Awaited
  <2>1. Mains' = {h.main : h \in ToSet(rest)} /\ Mains = {h.main : h \in ToSet(rest)} \union {g.main}
    BY <1>2, <1>5 DEF Mains
  <2>2. /\ \A t : t \in Awaited' <=> \E h \in ToSet(rest) : h.bypass /\ h.main = t
        /\ \A t : t \in Awaited <=> (t = g.main \/ \E h \in ToSet(rest) : h.bypass /\ h.main = t)
    BY <1>2, <1>4, <1>5 DEF Awaited
  <2>3. Mains' = Mains \ {g.main}  BY <2>1, <1>6
  <2>4. Awaited' = Awaited \ {g.main}  BY <2>2, <1>6
  <2> QED BY <2>2, <2>3, <2>4
<1>11. Writes' = Writes  BY <1>2, <1>4, <1>5 DEF Writes
<1> QED BY <1>2, <1>4, <1>5, <1>9, <1>10, <1>11

-----------------------------------------------------------------------------
(* The inductive invariant.                                                 *)

\* Where a task is: it asks, it holds up a worker that found the buffer full,
\* it has a buffer entry, it went around the cache; it is in the PTW; its
\* group or its result is on the way to the lines.
Held == {worker[r].by : r \in {q \in Rams : worker[q].at = "full"}}
Entered == {entry[i].task : i \in Idx} \ {NoTask}
Ptw == ToSet(ptw_fifo) \union walking
Updates == Sending \union Writes
Sent == Mains \union {m.by : m \in Updates}

Limits == /\ Len(update_fifo) <= UPDATE_DEPTH /\ Len(rsp_write) <= 1
          /\ Cardinality(walking) <= PTW_MAX
LineLimit == \A r \in Rams : Cardinality(LinesOf(r)) <= WAYS
HeldOnce == \A r, q \in Rams :
  worker[r].at = "full" /\ worker[q].at = "full" /\ worker[r].by = worker[q].by => r = q
WalkedOnce == IsInjective(ptw_fifo) /\ ToSet(ptw_fifo) \intersect walking = {}

\* A task that has not been served is nowhere else; one that went around has
\* no entry; one that is in the PTW has no result on the way.
Places ==
  /\ Asking \intersect Held = {} /\ Held \subseteq Arrived
  /\ (Asking \union Held) \intersect (bypass \union Ptw \union Entered \union Sent) = {}
  /\ bypass \union Ptw \union Entered \union Sent \subseteq Arrived
  /\ bypass \intersect Entered = {} /\ Ptw \intersect Sent = {} /\ Awaited \subseteq bypass

\* Who has not been forwarded yet.
Pending == Asking \union Held \union Ptw \union Awaited \union (Tasks \ Arrived)
Silent == /\ \A t \in Tasks : Len(answers[t]) <= 1
          /\ \A t \in Pending : answers[t] = << >>

\* The line of an owner that walks, or was forwarded with a fault, stays, and
\* only an update of the owner's own group could flush it.
Owned(t) == /\ page[t] \in ReqPages /\ line[page[t]].owner = t /\ ~line[page[t]].suspended
            /\ ~Flushing(page[t])
Faulted == {t \in Entered : answers[t] # << >>}
Owners == /\ \A t \in Ptw \ bypass : Owned(t)
          /\ \A t \in Faulted : Owned(t) /\ t \notin Sent /\ page[t] \in Unmapped
LineOwners == \A p \in ReqPages : ~line[p].suspended =>
  /\ line[p].owner \in Tasks /\ page[line[p].owner] = p
  /\ line[p].owner \notin bypass \union Asking \union Held

Entries == /\ \A i, j \in Idx : entry[i].task = entry[j].task /\ entry[i].task # NoTask => i = j
           /\ \A i \in Idx : entry[i].task # NoTask => page[entry[i].task] \in ReqPages
Flushes == \A r \in Rams : worker[r].at = "flush" =>
             worker[r].page \in ReqPages /\ RamOf(worker[r].page) = r

\* The chain of a page, as the list of its entries.
ListOf(p, s) == /\ s \in Seq(Idx) /\ s # << >> /\ IsInjective(s) /\ ToSet(s) = Waiting(p)
                /\ IsChain(s, p)
Chains == \A p \in ReqPages : \E s : ListOf(p, s)

CacheInv == LinesTyped /\ WorkersTyped /\ entry \in [Idx -> Entry] /\ LineLimit /\ HeldOnce /\ Flushes
WalkInv == WalksTyped /\ WalkedOnce /\ Groups /\ Limits
ChainInv == Entries /\ Chains
TaskInv == Places /\ Silent /\ Owners /\ LineOwners
Inv == TasksTyped /\ Fifos /\ WalkInv /\ CacheInv /\ ChainInv /\ TaskInv

-----------------------------------------------------------------------------
(* Steps that leave the dedup cache alone.                                  *)

LEMMA SameCache ==
  ASSUME UNCHANGED <<line, entry, worker>>
  PROVE  /\ CacheInv => CacheInv'
         /\ Held' = Held /\ Entered' = Entered /\ ReqPages' = ReqPages
         /\ \A p : Flushing(p)' <=> Flushing(p)
         /\ page' = page => (Entries => Entries') /\ (Chains => Chains')
<1>1. /\ LinesTyped => LinesTyped'
      /\ WorkersTyped => WorkersTyped'
      /\ entry \in [Idx -> Entry] => entry' \in [Idx -> Entry]
  BY DEF LinesTyped, WorkersTyped
<1>2. ReqPages' = ReqPages /\ \A r : LinesOf(r)' = LinesOf(r)
  BY DEF ReqPages, LinesOf
<1>3. LineLimit => LineLimit'  BY <1>2 DEF LineLimit, LinesOf
<1>4. HeldOnce => HeldOnce'  BY DEF HeldOnce
<1>5. Flushes => Flushes'  BY <1>2 DEF Flushes
<1>6. Held' = Held /\ Entered' = Entered /\ \A p : Flushing(p)' <=> Flushing(p)
  BY DEF Held, Entered, Flushing
<1>7. ASSUME page' = page, Entries PROVE Entries'  BY <1>2, <1>7 DEF Entries
<1>8. ASSUME page' = page, Chains PROVE Chains'
  <2> SUFFICES ASSUME NEW p \in ReqPages PROVE (\E s : ListOf(p, s))'
    BY <1>2 DEF Chains
  <2>1. PICK s : ListOf(p, s)  BY <1>8 DEF Chains
  <2>2. Waiting(p)' = Waiting(p) /\ HeadOf(p)' = HeadOf(p) /\ (Flushing(p)' <=> Flushing(p))
    BY <1>8 DEF Waiting, HeadOf, Flushing
  <2>3. ListOf(p, s)'  BY <2>1, <2>2 DEF ListOf, IsChain
  <2> QED BY <2>3
<1> QED BY <1>1, <1>2, <1>3, <1>4, <1>5, <1>6, <1>7, <1>8 DEF CacheInv

\* The tasks stay where they are; updates move on, and the lines of the tasks
\* that are in the PTW stay.
LEMMA TaskStays ==
  ASSUME TaskInv, UNCHANGED <<page, answers, bypass>>, Asking' = Asking, Held' = Held,
         Entered' = Entered, Ptw' = Ptw, Sent' \subseteq Sent, Awaited' = Awaited,
         \A t \in (Ptw \ bypass) \union Faulted : Owned(t)', LineOwners'
  PROVE  TaskInv'
<1>1. Arrived' = Arrived /\ Pending' = Pending /\ Faulted' = Faulted
  BY DEF Arrived, Pending, Faulted
<1>2. Places'  BY <1>1 DEF TaskInv, Places
<1>3. Silent'  BY <1>1 DEF TaskInv, Silent
<1>4. Owners'  BY <1>1 DEF TaskInv, Owners
<1> QED BY <1>2, <1>3, <1>4 DEF TaskInv

\* With the cache as it is, the lines of the owners stay.
LEMMA SameLines ==
  ASSUME UNCHANGED <<page, line, worker, bypass>>
  PROVE  /\ \A t : Owned(t)' <=> Owned(t)
         /\ LineOwners /\ Asking' \union Held' \subseteq Asking \union Held => LineOwners'
<1>1. ReqPages' = ReqPages /\ \A p : Flushing(p)' <=> Flushing(p)
  BY DEF ReqPages, Flushing
<1>2. \A t : Owned(t)' <=> Owned(t)  BY <1>1 DEF Owned
<1>3. ASSUME LineOwners, Asking' \union Held' \subseteq Asking \union Held PROVE LineOwners'
  BY <1>1, <1>3 DEF LineOwners
<1> QED BY <1>2, <1>3

LEMMA SentChanges ==
  ASSUME Mains' = Mains, Sending' = Sending, Writes' = Writes
  PROVE  Sent' = Sent
BY DEF Sent, Updates

LEMMA SameGroups ==
  ASSUME UNCHANGED <<agg, page>>
  PROVE  /\ (Groups => Groups') /\ Mains' = Mains /\ Awaited' = Awaited /\ Writes' = Writes
BY DEF Groups, GroupShape, Mains, Awaited, Writes

\* Passing a message on.
LEMMA PassingKeeps ==
  ASSUME Inv, Schedule \/ Dispatch
  PROVE  Inv'
<1>1. UNCHANGED <<page, worker, line, entry, ptw_fifo, bypass, walking, rsp_write, agg, answers>>
      /\ next_is_request' \in BOOLEAN
  BY DEF Schedule, Dispatch, cacheVars, walkVars, ServesRequest, AnyRequest, Inv, TasksTyped
<1>2. Fifos' /\ Asking' = Asking /\ Sending' = Sending
  BY ScheduleFifos, DispatchFifos DEF Inv
<1>3. Len(update_fifo') <= UPDATE_DEPTH
  <2>1. update_fifo' = update_fifo \/ (update_fifo # << >> /\ update_fifo' = Tail(update_fifo))
    BY DEF Schedule, Dispatch
  <2>2. update_fifo \in Seq(Message)  BY DEF Inv, Fifos, FifosTyped
  <2>3. update_fifo # << >> => Len(Tail(update_fifo)) <= Len(update_fifo)  BY <2>2
  <2>4. Len(update_fifo) <= UPDATE_DEPTH  BY DEF Inv, WalkInv, Limits
  <2>5. update_fifo # << >> => Len(Tail(update_fifo)) \in Nat /\ Len(update_fifo) \in Nat  BY <2>2
  <2> QED BY <2>1, <2>3, <2>4, <2>5, SizeAssumption
<1>4. TasksTyped'  BY <1>1 DEF Inv, TasksTyped
<1>5. /\ Groups' /\ Mains' = Mains /\ Awaited' = Awaited /\ Writes' = Writes
  BY <1>1, SameGroups DEF Inv, WalkInv
<1>6. WalkInv'
  BY <1>1, <1>3, <1>5 DEF Inv, WalkInv, WalksTyped, WalkedOnce, Limits
<1>7. CacheInv' /\ Held' = Held /\ Entered' = Entered /\ ChainInv'
  BY <1>1, SameCache DEF Inv, ChainInv
<1>8. Sent' = Sent  BY <1>2, <1>5, SentChanges
<1>9. Ptw' = Ptw  BY <1>1 DEF Ptw
<1>10. LineOwners' /\ \A t \in (Ptw \ bypass) \union Faulted : Owned(t)'
  BY <1>1, <1>2, <1>7, SameLines DEF Inv, TaskInv, Owners
<1>11. TaskInv'  BY <1>1, <1>2, <1>5, <1>7, <1>8, <1>9, <1>10, TaskStays DEF Inv
<1> QED BY <1>2, <1>4, <1>6, <1>7, <1>11 DEF Inv

\* The PTW takes a task.
LEMMA PtwStartKeeps ==
  ASSUME Inv, PtwStart
  PROVE  Inv'
<1> DEFINE t == Head(ptw_fifo)
<1>1. /\ UNCHANGED <<page, pipeVars, ram_fifo, worker, line, entry, bypass, rsp_write, agg, answers>>
      /\ next_is_request' = next_is_request /\ update_fifo' = update_fifo
      /\ ptw_fifo # << >> /\ ptw_fifo' = Tail(ptw_fifo) /\ walking' = walking \union {t}
      /\ Cardinality(walking) < PTW_MAX
  BY DEF PtwStart, PtwHasRoom, cacheVars, pipeVars
<1>2. Fifos' /\ Asking' = Asking /\ Sending' = Sending
  BY <1>1, SameFifos DEF Inv
<1>3. /\ ptw_fifo \in Seq(Tasks) /\ IsInjective(ptw_fifo) /\ walking \subseteq Tasks
      /\ ToSet(ptw_fifo) \intersect walking = {} /\ Cardinality(walking) <= PTW_MAX
  BY DEF Inv, WalkInv, WalksTyped, WalkedOnce, Limits
<1>4. /\ ptw_fifo' \in Seq(Tasks) /\ t \in Tasks /\ ToSet(ptw_fifo) = {t} \union ToSet(ptw_fifo')
      /\ IsInjective(ptw_fifo') /\ t \notin ToSet(ptw_fifo')
  BY <1>1, <1>3, TailSet
<1> HIDE DEF t
<1>5. Cardinality(walking') <= PTW_MAX
  <2>1. IsFiniteSet(Tasks)  BY SizeAssumption, FS_Interval DEF Tasks
  <2>2. IsFiniteSet(walking) /\ Cardinality(walking) \in Nat
    BY <2>1, <1>3, FS_Subset, FS_CardinalityType
  <2>3. t \notin walking  BY <1>3, <1>4
  <2>4. Cardinality(walking \union {t}) = Cardinality(walking) + 1  BY <2>2, <2>3, FS_AddElement
  <2> QED BY <2>2, <2>4, <1>1, SizeAssumption
<1>6. TasksTyped'  BY <1>1 DEF Inv, TasksTyped
<1>7. /\ Groups' /\ Mains' = Mains /\ Awaited' = Awaited /\ Writes' = Writes
  BY <1>1, SameGroups DEF Inv, WalkInv
<1>8. WalkedOnce'  BY <1>1, <1>3, <1>4 DEF WalkedOnce
<1>9. WalksTyped'  BY <1>1, <1>4 DEF Inv, WalkInv, WalksTyped
<1>10. WalkInv'  BY <1>1, <1>5, <1>7, <1>8, <1>9 DEF Inv, WalkInv, Limits
<1>11. CacheInv' /\ Held' = Held /\ Entered' = Entered /\ ChainInv'
  BY <1>1, SameCache DEF Inv, ChainInv
<1>12. Sent' = Sent  BY <1>2, <1>7, SentChanges
<1>13. Ptw' = Ptw  BY <1>1, <1>4 DEF Ptw
<1>14. LineOwners' /\ \A u \in (Ptw \ bypass) \union Faulted : Owned(u)'
  BY <1>1, <1>2, <1>11, SameLines DEF Inv, TaskInv, Owners
<1>15. TaskInv'  BY <1>1, <1>2, <1>7, <1>11, <1>12, <1>13, <1>14, TaskStays DEF Inv
<1> QED BY <1>2, <1>6, <1>10, <1>11, <1>15 DEF Inv

\* A result or a group is written to update_fifo.
LEMMA WritingKeeps ==
  ASSUME Inv, RspWrite \/ AggWrite
  PROVE  Inv'
<1>1. UNCHANGED <<page, worker, line, entry, ptw_fifo, bypass, walking, answers, next_is_request>>
  BY DEF RspWrite, AggWrite, cacheVars
<1>2. /\ Fifos' /\ Asking' = Asking /\ Sent' \subseteq Sent
      /\ Len(rsp_write') <= 1 /\ Len(update_fifo') <= UPDATE_DEPTH
      /\ Groups' /\ Awaited' = Awaited
  <2>1. CASE RspWrite
    <3>1. /\ Fifos' /\ Asking' = Asking /\ Sending' = Sending
          /\ Len(rsp_write') <= 1 /\ Len(update_fifo') <= UPDATE_DEPTH
      BY <2>1, RspWriteFifos DEF Inv, WalkInv, Limits
    <3>2. agg' = agg  BY <2>1 DEF RspWrite
    <3>3. /\ Groups' /\ Mains' = Mains /\ Awaited' = Awaited /\ Writes' = Writes
      BY <1>1, <3>2, SameGroups DEF Inv, WalkInv
    <3> QED BY <3>1, <3>3, SentChanges
  <2>2. CASE AggWrite
    <3> DEFINE g == Head(agg)
               u == Head(g.writes)
    <3>1. /\ agg # << >> /\ Head(agg).writes # << >> /\ agg' = AfterWrite /\ page' = page
          /\ Len(update_fifo) < UPDATE_DEPTH /\ update_fifo' = Append(update_fifo, u)
          /\ UNCHANGED <<page, request_fifo, inside_fifo, hash_in, ram_fifo, rsp_write>>
      BY <2>2 DEF AggWrite, AfterWrite, cacheVars
    <3>2. /\ u \in Message /\ u.kind = "update" /\ u.by = g.main /\ u \in Writes
          /\ Groups' /\ Mains = Mains' \union {g.main} /\ Awaited' = Awaited
          /\ Writes = Writes' \union {u}
      BY <3>1, GroupWrites DEF Inv, WalkInv
    <3> HIDE DEF u, g
    <3>3. /\ Fifos' /\ Asking' = Asking /\ Sending' = Sending \union {u}
          /\ Len(update_fifo') <= UPDATE_DEPTH
      BY <3>1, <3>2, WriteFifos DEF Inv
    <3>4. Updates' \subseteq Updates  BY <3>2, <3>3 DEF Updates
    <3>5. Sent' \subseteq Sent  BY <3>2, <3>4 DEF Sent
    <3>6. Len(rsp_write') <= 1  BY <3>1 DEF Inv, WalkInv, Limits
    <3> QED BY <3>2, <3>3, <3>5, <3>6
  <2> QED BY <2>1, <2>2
<1>3. TasksTyped'  BY <1>1 DEF Inv, TasksTyped
<1>4. WalkInv'
  BY <1>1, <1>2 DEF Inv, WalkInv, WalksTyped, WalkedOnce, Limits, Groups
<1>5. CacheInv' /\ Held' = Held /\ Entered' = Entered /\ ChainInv'
  BY <1>1, SameCache DEF Inv, ChainInv
<1>6. Ptw' = Ptw  BY <1>1 DEF Ptw
<1>7. LineOwners' /\ \A t \in (Ptw \ bypass) \union Faulted : Owned(t)'
  BY <1>1, <1>2, <1>5, SameLines DEF Inv, TaskInv, Owners
<1>8. TaskInv'  BY <1>1, <1>2, <1>5, <1>6, <1>7, TaskStays DEF Inv
<1> QED BY <1>2, <1>3, <1>4, <1>5, <1>8 DEF Inv

\* A task arrives: nothing was waiting for it.
LEMMA ArriveKeeps ==
  ASSUME Inv, NEW t \in Tasks, NEW p \in Pages, Arrive(t, p)
  PROVE  Inv'
<1>1. /\ page[t] = NoPage /\ page' = [page EXCEPT ![t] = p]
      /\ UNCHANGED <<update_fifo, next_is_request, worker, line, entry, ptw_fifo, bypass, walking,
                     rsp_write, agg, answers>>
  BY DEF Arrive, cacheVars, walkVars
<1>2. /\ Fifos' /\ Asking' = Asking \union {t} /\ t \notin Asking /\ Sending' = Sending
  BY ArriveFifos DEF Inv
<1>3. TasksTyped'  BY <1>1 DEF Inv, TasksTyped
<1>4. t \notin Arrived /\ Arrived' = Arrived \union {t} /\ \A u \in Arrived : page'[u] = page[u]
  BY <1>1, Numbers DEF Arrived, Inv, TasksTyped
<1>5. /\ Mains' = Mains /\ Awaited' = Awaited /\ Writes' = Writes
  BY <1>1 DEF Mains, Awaited, Writes
<1>6. Sent' = Sent  BY <1>2, <1>5, SentChanges
<1>7. CacheInv' /\ Held' = Held /\ Entered' = Entered /\ ReqPages' = ReqPages
      /\ \A q : Flushing(q)' <=> Flushing(q)
  BY <1>1, SameCache DEF Inv
<1>8. Ptw' = Ptw /\ bypass \union Ptw \union Entered \union Sent \union Held \subseteq Arrived
  BY <1>1 DEF Ptw, Inv, TaskInv, Places
<1>9. Groups'
  <2>1. \A g \in ToSet(agg) : g.main \in Arrived  BY <1>8 DEF Sent, Mains
  <2> QED BY <2>1, <1>1, <1>4 DEF Inv, WalkInv, Groups, GroupShape
<1>10. WalkInv'
  BY <1>1, <1>9 DEF Inv, WalkInv, WalksTyped, WalkedOnce, Limits
<1>11. \A i \in Idx : entry[i].task # NoTask => entry[i].task \in Arrived
  BY <1>8 DEF Entered
<1>12. Entries'  BY <1>1, <1>4, <1>7, <1>11 DEF Inv, ChainInv, Entries
<1>13. Chains'
  <2> SUFFICES ASSUME NEW q \in ReqPages PROVE (\E s : ListOf(q, s))'
    BY <1>7 DEF Chains
  <2>1. PICK s : ListOf(q, s)  BY DEF Inv, ChainInv, Chains
  <2>2. HeadOf(q)' = HeadOf(q)  BY <1>1, <1>7 DEF HeadOf
  <2>3. Waiting(q)' = Waiting(q)  BY <1>1, <1>4, <1>11 DEF Waiting
  <2>4. ListOf(q, s)'  BY <2>1, <2>2, <2>3, <1>1, <1>7 DEF ListOf, IsChain
  <2> QED BY <2>4
<1>14. Places'
  <2>1. t \notin bypass \union Ptw \union Entered \union Sent \union Held  BY <1>4, <1>8
  <2> QED BY <2>1, <1>1, <1>2, <1>4, <1>5, <1>6, <1>7, <1>8 DEF Inv, TaskInv, Places
<1>15. Pending' \subseteq Pending
  BY <1>2, <1>4, <1>5, <1>7, <1>8 DEF Pending
<1>16. Silent'  BY <1>1, <1>15 DEF Inv, TaskInv, Silent
<1>17. \A u \in Arrived : Owned(u) => Owned(u)'
  BY <1>1, <1>4, <1>7 DEF Owned
<1>18. Faulted' = Faulted /\ Faulted \subseteq Arrived  BY <1>1, <1>7, <1>8 DEF Faulted
<1>19. Owners'
  BY <1>1, <1>4, <1>6, <1>8, <1>17, <1>18 DEF Inv, TaskInv, Owners
<1>20. LineOwners'
  <2> SUFFICES ASSUME NEW q \in ReqPages, ~line[q].suspended
               PROVE  /\ line[q].owner \in Tasks /\ page'[line[q].owner] = q
                      /\ line[q].owner \notin bypass \union Asking' \union Held
    BY <1>1, <1>7 DEF LineOwners
  <2>1. /\ line[q].owner \in Tasks /\ page[line[q].owner] = q
        /\ line[q].owner \notin bypass \union Asking \union Held
    BY DEF Inv, TaskInv, LineOwners
  <2>2. q \in Pages  BY DEF ReqPages, Inv, CacheInv, LinesTyped
  <2>3. line[q].owner \in Arrived  BY <2>1, <2>2, Numbers DEF Arrived
  <2> QED BY <2>1, <2>3, <1>2, <1>4
<1> QED BY <1>2, <1>3, <1>7, <1>10, <1>12, <1>13, <1>14, <1>16, <1>19, <1>20
        DEF Inv, ChainInv, TaskInv

-----------------------------------------------------------------------------
(* The walk of a task ends.                                                 *)

\* A task leaves the PTW with its result on the way, or forwarded.
LEMMA LeavesPtw ==
  ASSUME Inv, NEW t \in walking, walking' = walking \ {t}, rsp_write = << >>,
         UNCHANGED <<page, pipeVars, ram_fifo, line, entry, worker, ptw_fifo, bypass>>,
         Fifos', Groups', Asking' = Asking, Limits', answers' \in [Tasks -> Seq(Results)],
         Sent' \subseteq Sent \union {t}, Awaited' \subseteq bypass,
         \A u \in Tasks \ {t} : answers'[u] = answers[u] /\ (u \in Awaited' => u \in Awaited),
         \/ answers'[t] = answers[t]
         \/ /\ t \notin Sent' /\ Len(answers'[t]) = 1
            /\ t \notin bypass => page[t] \in Unmapped
  PROVE  Inv'
<1>1. /\ next_is_request' = next_is_request  BY DEF pipeVars
<1>2. TasksTyped'  BY <1>1 DEF Inv, TasksTyped
<1>3. walking \subseteq Tasks /\ t \in Tasks /\ t \in Ptw /\ t \notin ToSet(ptw_fifo)
  BY DEF Inv, WalkInv, WalksTyped, WalkedOnce, Ptw
<1>4. Ptw' = Ptw \ {t}  BY <1>3 DEF Ptw
<1>5. WalkInv'
  BY DEF Inv, WalkInv, WalksTyped, WalkedOnce, Groups
<1>6. CacheInv' /\ Held' = Held /\ Entered' = Entered /\ ChainInv'
  BY SameCache DEF Inv, ChainInv
<1>7. Arrived' = Arrived /\ t \in Arrived /\ t \notin Asking \union Held /\ t \notin Sent
      /\ Awaited \subseteq Sent
  BY <1>3 DEF Arrived, Inv, TaskInv, Places, Awaited, Sent, Mains
<1>8. Awaited' \subseteq Sent'  BY DEF Awaited, Sent, Mains
<1>9. Places'
  BY <1>3, <1>4, <1>6, <1>7 DEF Inv, TaskInv, Places
<1>10. answers[t] = << >>  BY <1>3 DEF Inv, TaskInv, Silent, Pending
<1>11. Pending' \subseteq Pending /\ (t \in Pending' => t \in Sent')
  <2>1. \A u \in Awaited' : u \in Awaited \/ u = t
    <3>1. Awaited' \subseteq Tasks  BY <1>9, <1>8 DEF Places, Arrived
    <3> QED BY <3>1
  <2>2. t \in Pending' => t \in Awaited'  BY <1>3, <1>4, <1>6, <1>7 DEF Pending
  <2>3. t \in Pending  BY <1>3 DEF Pending
  <2> QED BY <2>1, <2>2, <2>3, <1>4, <1>6, <1>7, <1>8 DEF Pending
<1>12. Silent'
  <2>1. ASSUME NEW u \in Tasks PROVE Len(answers'[u]) <= 1
    <3>1. CASE answers'[u] = answers[u]  BY <3>1 DEF Inv, TaskInv, Silent
    <3>2. CASE answers'[u] # answers[u]
      <4>1. u = t  BY <3>2
      <4>2. Len(answers'[t]) = 1  BY <3>2, <4>1
      <4> QED BY <4>1, <4>2
    <3> QED BY <3>1, <3>2
  <2>2. Pending \subseteq Tasks
    BY <1>7 DEF Pending, Inv, Fifos, TaskInv, Places, Arrived
  <2>3. ASSUME NEW u \in Pending' PROVE answers'[u] = << >>
    <3>1. u \in Pending /\ u \in Tasks  BY <2>2, <1>11
    <3>2. CASE u # t  BY <3>1, <3>2 DEF Inv, TaskInv, Silent
    <3>3. CASE u = t  BY <3>3, <1>10, <1>11
    <3> QED BY <3>2, <3>3
  <2> QED BY <2>1, <2>3 DEF Silent
<1>13. LineOwners' /\ \A u : Owned(u)' <=> Owned(u)
  BY <1>6, SameLines DEF Inv, TaskInv
<1>14. Faulted \subseteq Entered /\ Entered \subseteq Tasks
  BY DEF Faulted, Inv, TaskInv, Places, Arrived
<1>15. \A u \in Faulted' : u \in Faulted \/ (u = t /\ answers'[t] # answers[t])
  BY <1>6, <1>10, <1>14 DEF Faulted
<1>16. Owners'
  <2>1. \A u \in (Ptw' \ bypass') : Owned(u)'  BY <1>4, <1>13 DEF Inv, TaskInv, Owners
  <2>2. ASSUME NEW u \in Faulted' PROVE Owned(u)' /\ u \notin Sent' /\ page'[u] \in Unmapped
    <3>1. CASE u \in Faulted
      <4>1. u # t  BY <3>1, <1>10 DEF Faulted
      <4> QED BY <3>1, <4>1, <1>13 DEF Inv, TaskInv, Owners
    <3>2. CASE u = t /\ answers'[t] # answers[t]
      <4>1. t \in Entered  BY <3>2, <2>2, <1>6 DEF Faulted
      <4>2. t \notin bypass  BY <4>1 DEF Inv, TaskInv, Places
      <4>3. Owned(t)  BY <4>2, <1>3 DEF Inv, TaskInv, Owners
      <4> QED BY <3>2, <4>2, <4>3, <1>13
    <3> QED BY <3>1, <3>2, <1>15
  <2> QED BY <2>1, <2>2 DEF Owners
<1> QED BY <1>2, <1>5, <1>6, <1>9, <1>12, <1>13, <1>16 DEF Inv, TaskInv

\* The group of a walk is collected, complete or with what a fault left of it.
LEMMA GroupKeeps ==
  ASSUME Inv, NEW t \in Tasks, GroupEnds(t) \/ FaultInGroup(t)
  PROVE  Inv'
<1>1. /\ t \in walking /\ walking' = walking \ {t} /\ rsp_write = << >> /\ rsp_write' = rsp_write
      /\ UNCHANGED <<page, pipeVars, ram_fifo, line, entry, worker, ptw_fifo, bypass, answers>>
      /\ GroupDepth(page[t]) > 0 /\ update_fifo' = update_fifo
  BY DEF GroupEnds, FaultInGroup, Released, cacheVars, pipeVars
<1>2. t \in Ptw /\ t \in Arrived /\ page[t] \in Pages /\ t \notin Sent
  BY <1>1 DEF Ptw, Inv, TaskInv, Places, Arrived, TasksTyped
<1>3. GroupDepth(page[t]) \in Nat  BY <1>2, DepthType
<1>4. PICK res \in [1 .. GroupDepth(page[t]) + 1 -> Results] : agg' = Append(agg, Group(t, res))
  <2>1. CASE GroupEnds(t)
    <3> DEFINE res == [d \in 1 .. GroupDepth(page[t]) + 1 |-> ResultOf(page[t] + d - 1)]
    <3>1. res \in [1 .. GroupDepth(page[t]) + 1 -> Results]
      BY DEF ResultOf, Results
    <3>2. agg' = Append(agg, Group(t, res))  BY <2>1 DEF GroupEnds
    <3> QED BY <3>1, <3>2
  <2>2. CASE FaultInGroup(t)
    <3>1. PICK done \in SUBSET (2 .. GroupDepth(page[t]) + 1) :
            agg' = Append(agg, Group(t, [d \in 1 .. GroupDepth(page[t]) + 1 |->
                CASE d = 1 -> "gpa" [] d \in done -> ResultOf(page[t] + d - 1) [] OTHER -> "none"]))
      BY <2>2 DEF FaultInGroup
    <3> DEFINE res == [d \in 1 .. GroupDepth(page[t]) + 1 |->
                CASE d = 1 -> "gpa" [] d \in done -> ResultOf(page[t] + d - 1) [] OTHER -> "none"]
    <3>2. res \in [1 .. GroupDepth(page[t]) + 1 -> Results]
      BY DEF ResultOf, Results
    <3> QED BY <3>1, <3>2
  <2> QED BY <2>1, <2>2, <1>1
<1> DEFINE g == Group(t, res)
<1>5. /\ g \in GroupRecord /\ g.main = t /\ g.bypass = MarkedBypass(t)
      /\ g.fault <=> page[t] \in Unmapped
      /\ GroupShape(g)
  BY <1>1, <1>2, GroupMade
<1>6. agg' = Append(agg, g)  BY <1>4
<1> HIDE DEF g
<1>7. t \notin Mains  BY <1>2 DEF Sent
<1>8. /\ Groups' /\ Mains' = Mains \union {t} /\ Writes' = Writes \union ToSet(g.writes)
      /\ Awaited' = Awaited \union (IF g.bypass THEN {t} ELSE {})
  BY <1>1, <1>5, <1>6, <1>7, GroupAppended DEF Inv, WalkInv
<1>9. Fifos' /\ Asking' = Asking /\ Sending' = Sending  BY <1>1, SameFifos DEF Inv
<1>10. Sent' \subseteq Sent \union {t}
  BY <1>5, <1>8, <1>9 DEF Sent, Updates, GroupShape
<1>11. Awaited' \subseteq bypass /\ \A u \in Tasks \ {t} : u \in Awaited' => u \in Awaited
  BY <1>5, <1>8 DEF MarkedBypass, Inv, TaskInv, Places
<1>12. Limits'
  <2>1. IsFiniteSet(Tasks)  BY SizeAssumption, FS_Interval DEF Tasks
  <2>2. walking \in SUBSET Tasks /\ Cardinality(walking) <= PTW_MAX
    BY DEF Inv, WalkInv, WalksTyped, Limits
  <2>3. IsFiniteSet(walking) /\ Cardinality(walking) \in Nat  BY <2>1, <2>2, FS_Subset, FS_CardinalityType
  <2>4. Cardinality(walking \ {t}) = Cardinality(walking) - 1  BY <2>3, <1>1, FS_RemoveElement
  <2>5. Cardinality(walking') <= PTW_MAX  BY <2>2, <2>3, <2>4, <1>1, SizeAssumption
  <2> QED BY <2>5, <1>1 DEF Inv, WalkInv, Limits
<1>13. answers' \in [Tasks -> Seq(Results)] /\ answers' = answers
  BY <1>1 DEF Inv, TasksTyped
<1> QED BY <1>1, <1>8, <1>9, <1>10, <1>11, <1>12, <1>13, LeavesPtw

\* A walk without a group: the last page of a page table, and a fault.
LEMMA AloneKeeps ==
  ASSUME Inv, NEW t \in Tasks, LastPageEnds(t) \/ FaultAlone(t)
  PROVE  Inv'
<1>1. /\ t \in walking /\ walking' = walking \ {t} /\ rsp_write = << >> /\ agg' = agg
      /\ UNCHANGED <<page, pipeVars, ram_fifo, line, entry, worker, ptw_fifo, bypass>>
      /\ update_fifo' = update_fifo
  BY DEF LastPageEnds, FaultAlone, Released, cacheVars, pipeVars
<1>2. t \in Ptw /\ t \in Arrived /\ page[t] \in Pages /\ t \notin Sent /\ answers[t] = << >>
  BY <1>1 DEF Ptw, Inv, TaskInv, Places, Arrived, TasksTyped, Silent, Pending
<1>3. /\ Groups' /\ Mains' = Mains /\ Awaited' = Awaited /\ Writes' = Writes
  BY <1>1, SameGroups DEF Inv, WalkInv
<1>4. Awaited' \subseteq bypass  BY <1>3 DEF Inv, TaskInv, Places
<1>5. Cardinality(walking') <= PTW_MAX
  <2>1. IsFiniteSet(Tasks)  BY SizeAssumption, FS_Interval DEF Tasks
  <2>2. walking \in SUBSET Tasks /\ Cardinality(walking) <= PTW_MAX
    BY DEF Inv, WalkInv, WalksTyped, Limits
  <2>3. IsFiniteSet(walking) /\ Cardinality(walking) \in Nat  BY <2>1, <2>2, FS_Subset, FS_CardinalityType
  <2>4. Cardinality(walking \ {t}) = Cardinality(walking) - 1  BY <2>3, <1>1, FS_RemoveElement
  <2> QED BY <2>2, <2>3, <2>4, <1>1, SizeAssumption
<1>6. ASSUME NEW res \in Results, Forward(t, res)
      PROVE  /\ answers' \in [Tasks -> Seq(Results)] /\ Len(answers'[t]) = 1
             /\ \A u \in Tasks \ {t} : answers'[u] = answers[u]
  <2>1. answers \in [Tasks -> Seq(Results)]  BY DEF Inv, TasksTyped
  <2>2. Append(answers[t], res) \in Seq(Results) /\ Len(Append(answers[t], res)) = 1
    BY <1>2
  <2>3. answers' = [answers EXCEPT ![t] = Append(answers[t], res)]  BY <1>6 DEF Forward
  <2> QED BY <2>1, <2>2, <2>3
<1>7. CASE FaultAlone(t) \/ (LastPageEnds(t) /\ t \in bypass)
  <2>1. rsp_write' = rsp_write  BY <1>7 DEF FaultAlone, LastPageEnds
  <2>2. Fifos' /\ Asking' = Asking /\ Sending' = Sending  BY <2>1, <1>1, SameFifos DEF Inv
  <2>3. Sent' = Sent  BY <2>2, <1>3, SentChanges
  <2>4. \E res \in Results : Forward(t, res)  BY <1>7 DEF FaultAlone, LastPageEnds, Results
  <2>5. /\ answers' \in [Tasks -> Seq(Results)] /\ Len(answers'[t]) = 1
        /\ \A u \in Tasks \ {t} : answers'[u] = answers[u]
    BY <2>4, <1>6
  <2>6. t \notin bypass => page[t] \in Unmapped  BY <1>7 DEF FaultAlone
  <2>7. Limits'  BY <2>1, <1>1, <1>5 DEF Inv, WalkInv, Limits
  <2> QED BY <2>2, <2>3, <2>5, <2>6, <2>7, <1>1, <1>2, <1>3, <1>4, LeavesPtw
<1>8. CASE LastPageEnds(t) /\ t \notin bypass
  <2> DEFINE m == Update(t, page[t], "ok")
  <2>1. rsp_write' = <<m>> /\ answers' = answers  BY <1>8 DEF LastPageEnds
  <2>2. m \in Message /\ m.kind = "update" /\ m.by = t
    BY <1>2 DEF Message, Update, Results
  <2> HIDE DEF m
  <2>3. Fifos' /\ Asking' = Asking /\ Sending' = Sending \union {m} /\ Len(rsp_write') <= 1
    BY <2>1, <2>2, <1>1, AnswerFifos DEF Inv
  <2>4. Sent' \subseteq Sent \union {t}  BY <2>2, <2>3, <1>3 DEF Sent, Updates
  <2>5. Limits'  BY <2>3, <1>1, <1>5 DEF Inv, WalkInv, Limits
  <2>6. answers' \in [Tasks -> Seq(Results)]  BY <2>1 DEF Inv, TasksTyped
  <2> QED BY <2>1, <2>3, <2>4, <2>5, <2>6, <1>1, <1>3, <1>4, LeavesPtw
<1> QED BY <1>7, <1>8

\* The group of a task that went around forwards it.
LEMMA AggBypassKeeps ==
  ASSUME Inv, AggBypass
  PROVE  Inv'
<1> DEFINE g == Head(agg)
           t == g.main
<1>1. /\ agg # << >> /\ Head(agg).writes = << >> /\ agg' = Tail(agg)
      /\ UNCHANGED <<page, pipeVars, ram_fifo, line, entry, worker, ptw_fifo, bypass, walking, rsp_write>>
      /\ update_fifo' = update_fifo /\ next_is_request' = next_is_request
      /\ answers' = answers \/ Forward(t, "ok")
  BY DEF AggBypass, cacheVars, pipeVars
<1>2. /\ g \in GroupRecord /\ t \in Awaited /\ Groups'
      /\ Mains' = Mains \ {t} /\ Awaited' = Awaited \ {t} /\ Writes' = Writes
  BY <1>1, GroupForwards DEF Inv, WalkInv
<1>3. t \in Tasks  BY <1>2, GroupFields
<1> HIDE DEF g, t
<1>4. t \in bypass /\ t \in Sent /\ answers[t] = << >>
  BY <1>2 DEF Awaited, Sent, Mains, Inv, TaskInv, Places, Silent, Pending
<1>5. Fifos' /\ Asking' = Asking /\ Sending' = Sending  BY <1>1, SameFifos DEF Inv
<1>6. Sent' \subseteq Sent  BY <1>2, <1>5 DEF Sent, Updates
<1>7. /\ answers' \in [Tasks -> Seq(Results)] /\ Len(answers'[t]) <= 1
      /\ \A u \in Tasks \ {t} : answers'[u] = answers[u]
  <2>1. answers \in [Tasks -> Seq(Results)]  BY DEF Inv, TasksTyped
  <2>2. CASE answers' = answers
    <3>1. Len(answers[t]) <= 1  BY <1>3 DEF Inv, TaskInv, Silent
    <3> QED BY <2>1, <2>2, <3>1
  <2>3. CASE Forward(t, "ok")
    <3>1. Append(answers[t], "ok") \in Seq(Results) /\ Len(Append(answers[t], "ok")) <= 1
      BY <1>4 DEF Results
    <3>2. answers' = [answers EXCEPT ![t] = Append(answers[t], "ok")]  BY <2>3 DEF Forward
    <3> QED BY <2>1, <3>1, <3>2, <1>3
  <2> QED BY <2>2, <2>3, <1>1
<1>8. TasksTyped'  BY <1>1, <1>7 DEF Inv, TasksTyped
<1>9. WalkInv'  BY <1>1, <1>2 DEF Inv, WalkInv, WalksTyped, WalkedOnce, Limits, Groups
<1>10. CacheInv' /\ Held' = Held /\ Entered' = Entered /\ ChainInv'
  BY <1>1, SameCache DEF Inv, ChainInv
<1>11. Ptw' = Ptw /\ Arrived' = Arrived  BY <1>1 DEF Ptw, Arrived
<1>12. Places'  BY <1>1, <1>2, <1>5, <1>6, <1>10, <1>11 DEF Inv, TaskInv, Places
<1>13. t \notin Entered /\ t \notin Ptw /\ t \notin Asking /\ t \notin Held /\ t \in Arrived
  BY <1>4 DEF Inv, TaskInv, Places
<1>14. Pending' \subseteq Pending \ {t}
  BY <1>2, <1>5, <1>10, <1>11, <1>13 DEF Pending
<1>15. Pending \subseteq Tasks
  BY DEF Pending, Inv, Fifos, TaskInv, Places, Arrived
<1>16. Silent'
  BY <1>7, <1>14, <1>15 DEF Inv, TaskInv, Silent
<1>17. LineOwners' /\ \A u : Owned(u)' <=> Owned(u)
  BY <1>1, <1>5, <1>10, SameLines DEF Inv, TaskInv
<1>18. Faulted' = Faulted
  <2>1. Entered \subseteq Tasks  BY DEF Inv, TaskInv, Places, Arrived
  <2> QED BY <2>1, <1>7, <1>10, <1>13 DEF Faulted
<1>19. Owners'
  BY <1>1, <1>6, <1>11, <1>17, <1>18 DEF Inv, TaskInv, Owners
<1> QED BY <1>5, <1>8, <1>9, <1>10, <1>12, <1>16, <1>17, <1>19 DEF Inv, TaskInv

-----------------------------------------------------------------------------
(* The RAM workers, with a task that goes around the cache or waits.        *)

\* A worker that flushes nothing, before or after.
LEMMA IdleOrFull ==
  ASSUME CacheInv, NEW r \in Rams, NEW w \in WorkerState, worker[r].at # "flush", w.at # "flush",
         worker' = [worker EXCEPT ![r] = w], UNCHANGED <<line, entry>>,
         w.at = "full" => w.by \in Tasks \ Held
  PROVE  /\ CacheInv'
         /\ \A p : (Flushing(p)' <=> Flushing(p)) /\ HeadOf(p)' = HeadOf(p)
         /\ worker[r].at # "full" /\ w.at = "full" => Held' = Held \union {w.by}
         /\ worker[r].at = "full" /\ w.at # "full" =>
              worker[r].by \in Held /\ Held' = Held \ {worker[r].by}
<1>1. /\ worker \in [Rams -> WorkerState] /\ worker' \in [Rams -> WorkerState]
      /\ worker'[r] = w /\ \A q \in Rams \ {r} : worker'[q] = worker[q]
  BY DEF CacheInv, WorkersTyped
<1>2. WorkersTyped'  BY <1>1 DEF CacheInv, WorkersTyped
<1>3. LinesTyped' /\ entry' \in [Idx -> Entry] /\ ReqPages' = ReqPages
  BY DEF CacheInv, LinesTyped, ReqPages
<1>4. LineLimit'  BY DEF CacheInv, LineLimit, LinesOf
<1>5. \A p : Flushing(p)' <=> Flushing(p)  BY <1>1 DEF Flushing
<1>6. Flushes'  BY <1>1, <1>3 DEF CacheInv, Flushes
<1>7. ASSUME NEW p PROVE HeadOf(p)' = HeadOf(p)
  <2>1. CASE ~Flushing(p)  BY <2>1, <1>5 DEF HeadOf
  <2>2. CASE Flushing(p)
    <3>1. PICK q \in Rams : worker[q].at = "flush" /\ worker[q].page = p  BY <2>2 DEF Flushing
    <3>2. q = RamOf(p) /\ q \in Rams \ {r}  BY <3>1 DEF CacheInv, Flushes
    <3>3. worker'[RamOf(p)] = worker[RamOf(p)]  BY <3>2, <1>1
    <3> QED BY <2>2, <3>3, <1>5 DEF HeadOf
  <2> QED BY <2>1, <2>2
<1>8. /\ \A t : t \in Held <=> \E q \in Rams : worker[q].at = "full" /\ worker[q].by = t
      /\ \A t : t \in Held' <=> \E q \in Rams : worker'[q].at = "full" /\ worker'[q].by = t
  BY DEF Held
<1>9. HeldOnce'
  <2> SUFFICES ASSUME NEW q \in Rams, NEW z \in Rams, worker'[q].at = "full", worker'[z].at = "full",
                      worker'[q].by = worker'[z].by
               PROVE  q = z
    BY DEF HeldOnce
  <2>1. CASE q = r /\ z # r  BY <2>1, <1>1, <1>8
  <2>2. CASE z = r /\ q # r  BY <2>2, <1>1, <1>8
  <2>3. CASE q # r /\ z # r  BY <2>3, <1>1 DEF CacheInv, HeldOnce
  <2> QED BY <2>1, <2>2, <2>3
<1>10. ASSUME worker[r].at # "full", w.at = "full" PROVE Held' = Held \union {w.by}
  <2>1. \A t : t \in Held' <=> t \in Held \/ t = w.by  BY <1>1, <1>8, <1>10
  <2> QED BY <2>1
<1>11. ASSUME worker[r].at = "full", w.at # "full"
       PROVE  worker[r].by \in Held /\ Held' = Held \ {worker[r].by}
  <2>1. \A q \in Rams \ {r} : worker[q].at = "full" => worker[q].by # worker[r].by
    BY <1>11 DEF CacheInv, HeldOnce
  <2>2. \A t : t \in Held' <=> t \in Held /\ t # worker[r].by  BY <2>1, <1>1, <1>8, <1>11
  <2> QED BY <2>2, <1>8, <1>11
<1> QED BY <1>2, <1>3, <1>4, <1>5, <1>6, <1>7, <1>9, <1>10, <1>11 DEF CacheInv

\* A task that asked, or held a worker up, goes to the PTW on its own.
LEMMA GoesAround ==
  ASSUME Inv, NEW t \in Asking \union Held, GoAround(t),
         Fifos', CacheInv', Sending' = Sending,
         Asking' \subseteq Asking, Held' \subseteq Held, t \notin Asking' \union Held',
         UNCHANGED <<page, next_is_request, update_fifo, line, entry, walking, rsp_write, agg, answers>>,
         \A p : (Flushing(p)' <=> Flushing(p)) /\ HeadOf(p)' = HeadOf(p)
  PROVE  Inv'
<1>1. ptw_fifo' = Append(ptw_fifo, t) /\ bypass' = bypass \union {t}
  BY DEF GoAround
<1>2. t \in Tasks /\ t \in Arrived /\ t \notin bypass \union Ptw \union Entered \union Sent /\ answers[t] = << >>
  BY DEF Inv, TaskInv, Places, Silent, Pending, Fifos, Arrived
<1>3. ptw_fifo \in Seq(Tasks) /\ IsInjective(ptw_fifo) /\ t \notin ToSet(ptw_fifo) /\ t \notin walking
      /\ ToSet(ptw_fifo) \intersect walking = {}
  BY <1>2 DEF Inv, WalkInv, WalksTyped, WalkedOnce, Ptw
<1>4. ptw_fifo' \in Seq(Tasks) /\ ToSet(ptw_fifo') = ToSet(ptw_fifo) \union {t} /\ IsInjective(ptw_fifo')
  BY <1>1, <1>2, <1>3, AppendSet
<1>5. TasksTyped'  BY DEF Inv, TasksTyped
<1>6. /\ Groups' /\ Mains' = Mains /\ Awaited' = Awaited /\ Writes' = Writes
  BY SameGroups DEF Inv, WalkInv
<1>7. WalksTyped'  BY <1>1, <1>2, <1>4 DEF Inv, WalkInv, WalksTyped
<1>8. WalkInv'  BY <1>3, <1>4, <1>6, <1>7 DEF Inv, WalkInv, WalkedOnce, Limits
<1>9. Ptw' = Ptw \union {t} /\ Entered' = Entered /\ Arrived' = Arrived /\ Sent' = Sent
  BY <1>4, <1>6, SentChanges DEF Ptw, Entered, Arrived
<1>10. ReqPages' = ReqPages  BY DEF ReqPages
<1>11. Entries'  BY <1>10 DEF Inv, ChainInv, Entries
<1>12. Chains'
  <2> SUFFICES ASSUME NEW q \in ReqPages PROVE (\E s : ListOf(q, s))'
    BY <1>10 DEF Chains
  <2>1. PICK s : ListOf(q, s)  BY DEF Inv, ChainInv, Chains
  <2>2. Waiting(q)' = Waiting(q)  BY DEF Waiting
  <2>3. ListOf(q, s)'  BY <2>1, <2>2 DEF ListOf, IsChain
  <2> QED BY <2>3
<1>13. Pending' \subseteq Pending \union {t}  BY <1>6, <1>9 DEF Pending, GoAround
<1>14. Silent'  BY <1>2, <1>13 DEF Inv, TaskInv, Silent
<1>15. Places'
  BY <1>1, <1>2, <1>6, <1>9 DEF Inv, TaskInv, Places
<1>16. \A u : Owned(u)' <=> Owned(u)  BY <1>10 DEF Owned
<1>17. Faulted' = Faulted  BY <1>9 DEF Faulted
<1>18. Owners'
  BY <1>1, <1>9, <1>16, <1>17 DEF Inv, TaskInv, Owners
<1>19. LineOwners'  BY <1>1, <1>10 DEF Inv, TaskInv, LineOwners
<1> QED BY <1>5, <1>8, <1>11, <1>12, <1>14, <1>15, <1>18, <1>19 DEF Inv, ChainInv, TaskInv

LEMMA IdleWorkerType == IdleWorker \in WorkerState /\ IdleWorker.at = "idle"
BY DEF IdleWorker, WorkerState, Results

\* What a worker that serves a request takes out of its FIFO.
LEMMA ServedRequest ==
  ASSUME Inv, NEW r \in Rams, Serves(r, "request"),
         UNCHANGED <<page, request_fifo, update_fifo, hash_in, rsp_write>>,
         inside_fifo' \in Seq(Message), \A x \in ToSet(inside_fifo') : x.kind = "prefetch"
  PROVE  LET m == Head(ram_fifo[r])
         IN /\ m.by \in Tasks /\ m.page \in Pages /\ m.page = page[m.by] /\ RamOf(m.page) = r
            /\ m.by \in Asking /\ m.by \in Arrived /\ answers[m.by] = << >>
            /\ m.by \notin bypass \union Ptw \union Entered \union Sent \union Held
            /\ Fifos' /\ Asking' = Asking \ {m.by} /\ Sending' = Sending /\ worker[r].at = "idle"
<1> DEFINE m == Head(ram_fifo[r])
<1>1. /\ m \in Message /\ RamOf(m.page) = r /\ Fifos' /\ Asking' = Asking \ {m.by}
      /\ m.by \in Asking /\ m.page = page[m.by] /\ Sending' = Sending /\ worker[r].at = "idle"
  BY ServeFifos DEF Inv
<1> HIDE DEF m
<1>2. m.by \in Tasks /\ m.page \in Pages  BY <1>1, MessageFields
<1>3. m.by \in Arrived /\ m.by \notin bypass \union Ptw \union Entered \union Sent \union Held
      /\ answers[m.by] = << >>
  BY <1>1 DEF Inv, Fifos, TaskInv, Places, Silent, Pending
<1> QED BY <1>1, <1>2, <1>3 DEF m

LEMMA SameInside ==
  ASSUME Inv, inside_fifo' = inside_fifo
  PROVE  inside_fifo' \in Seq(Message) /\ \A x \in ToSet(inside_fifo') : x.kind = "prefetch"
BY DEF Inv, Fifos, FifosTyped, Routing

\* The requests that find no way writable, or the buffer full.
LEMMA BypassKeeps ==
  ASSUME Inv, NEW r \in Rams,
         ConflictBypass(r) \/ (BufferFull(r) /\ PtwHasRoom)
  PROVE  Inv'
<1> DEFINE m == Head(ram_fifo[r])
<1>1. /\ Serves(r, "request") /\ GoAround(m.by)
      /\ UNCHANGED <<page, pipeVars, worker, line, entry, walking, rsp_write, agg, answers>>
      /\ UNCHANGED <<request_fifo, inside_fifo, update_fifo, next_is_request, hash_in>>
  BY DEF ConflictBypass, BufferFull, pipeVars
<1>2. /\ m.by \in Asking /\ m.by \notin Held
      /\ Fifos' /\ Asking' = Asking \ {m.by} /\ Sending' = Sending
  BY <1>1, SameInside, ServedRequest
<1> HIDE DEF m
<1>3. CacheInv' /\ Held' = Held  BY <1>1, SameCache DEF Inv
<1>4. \A p : (Flushing(p)' <=> Flushing(p)) /\ HeadOf(p)' = HeadOf(p)
  BY <1>1 DEF Flushing, HeadOf
<1> QED BY <1>1, <1>2, <1>3, <1>4, GoesAround

LEMMA AfterWaitKeeps ==
  ASSUME Inv, NEW r \in Rams, BypassAfterWait(r)
  PROVE  Inv'
<1> DEFINE t == worker[r].by
<1>1. /\ worker[r].at = "full" /\ GoAround(t) /\ worker' = [worker EXCEPT ![r] = IdleWorker]
      /\ UNCHANGED <<page, pipeVars, ram_fifo, line, entry, walking, rsp_write, agg, answers>>
      /\ UNCHANGED <<next_is_request, update_fifo>>
  BY DEF BypassAfterWait, pipeVars
<1>2. /\ CacheInv' /\ t \in Held /\ Held' = Held \ {t}
      /\ \A p : (Flushing(p)' <=> Flushing(p)) /\ HeadOf(p)' = HeadOf(p)
  BY <1>1, IdleWorkerType, IdleOrFull DEF Inv
<1>3. Fifos' /\ Asking' = Asking /\ Sending' = Sending  BY <1>1, SameFifos DEF Inv
<1>4. t \notin Asking  BY <1>2 DEF Inv, TaskInv, Places
<1> HIDE DEF t
<1> QED BY <1>1, <1>2, <1>3, <1>4, GoesAround

\* The PTW is full too: the worker waits, and its task with it.
LEMMA WaitKeeps ==
  ASSUME Inv, NEW r \in Rams, BufferFull(r), ~PtwHasRoom
  PROVE  Inv'
<1> DEFINE m == Head(ram_fifo[r])
           t == m.by
           w == [worker[r] EXCEPT !.at = "full", !.by = t]
<1>1. /\ Serves(r, "request") /\ worker' = [worker EXCEPT ![r] = w]
      /\ UNCHANGED <<page, line, entry, ptw_fifo, bypass, walking, rsp_write, agg, answers>>
      /\ UNCHANGED <<request_fifo, inside_fifo, update_fifo, next_is_request, hash_in>>
  BY DEF BufferFull, pipeVars
<1>2. /\ t \in Tasks /\ t \in Asking /\ t \in Arrived /\ answers[t] = << >>
      /\ t \notin bypass \union Ptw \union Entered \union Sent \union Held
      /\ Fifos' /\ Asking' = Asking \ {t} /\ Sending' = Sending /\ worker[r].at = "idle"
  BY <1>1, SameInside, ServedRequest
<1> HIDE DEF m, t
<1>3. w \in WorkerState /\ w.at = "full" /\ w.by = t
  BY <1>2 DEF Inv, CacheInv, WorkersTyped, WorkerState
<1> HIDE DEF w
<1>4. /\ CacheInv' /\ Held' = Held \union {t}
      /\ \A p : (Flushing(p)' <=> Flushing(p)) /\ HeadOf(p)' = HeadOf(p)
  BY <1>1, <1>2, <1>3, IdleOrFull DEF Inv
<1>5. TasksTyped'  BY <1>1 DEF Inv, TasksTyped
<1>6. /\ Groups' /\ Mains' = Mains /\ Awaited' = Awaited /\ Writes' = Writes
  BY <1>1, SameGroups DEF Inv, WalkInv
<1>7. WalkInv'  BY <1>1, <1>6 DEF Inv, WalkInv, WalksTyped, WalkedOnce, Limits
<1>8. Ptw' = Ptw /\ Entered' = Entered /\ Arrived' = Arrived /\ Sent' = Sent /\ ReqPages' = ReqPages
  BY <1>1, <1>2, <1>6, SentChanges DEF Ptw, Entered, Arrived, ReqPages
<1>9. Entries'  BY <1>1, <1>8 DEF Inv, ChainInv, Entries
<1>10. Chains'
  <2> SUFFICES ASSUME NEW q \in ReqPages PROVE (\E s : ListOf(q, s))'
    BY <1>8 DEF Chains
  <2>1. PICK s : ListOf(q, s)  BY DEF Inv, ChainInv, Chains
  <2>2. Waiting(q)' = Waiting(q)  BY <1>1 DEF Waiting
  <2>3. ListOf(q, s)'  BY <2>1, <2>2, <1>1, <1>4 DEF ListOf, IsChain
  <2> QED BY <2>3
<1>11. Pending' = Pending  BY <1>2, <1>4, <1>6, <1>8 DEF Pending
<1>12. Silent'  BY <1>1, <1>11 DEF Inv, TaskInv, Silent
<1>13. Places'  BY <1>1, <1>2, <1>4, <1>6, <1>8 DEF Inv, TaskInv, Places
<1>14. \A u : Owned(u)' <=> Owned(u)  BY <1>1, <1>4, <1>8 DEF Owned
<1>15. Faulted' = Faulted  BY <1>1, <1>8 DEF Faulted
<1>16. Owners'  BY <1>1, <1>8, <1>14, <1>15 DEF Inv, TaskInv, Owners
<1>17. LineOwners'  BY <1>1, <1>2, <1>4, <1>8 DEF Inv, TaskInv, LineOwners
<1> QED BY <1>2, <1>4, <1>5, <1>7, <1>9, <1>10, <1>12, <1>13, <1>16, <1>17 DEF Inv, ChainInv, TaskInv

-----------------------------------------------------------------------------
(* The RAM workers, on the lines and the buffer entries.                    *)

LEMMA WithoutType ==
  ASSUME NEW ls, NEW p
  PROVE  /\ DOMAIN Without(ls, p) = DOMAIN ls \ {p}
         /\ \A q \in DOMAIN ls \ {p} : Without(ls, p)[q] = ls[q]
BY DEF Without

LEMMA LinesFinite ==
  ASSUME LinesTyped
  PROVE  \A r : IsFiniteSet(LinesOf(r)) /\ Cardinality(LinesOf(r)) \in Nat
<1>1. IsFiniteSet(Pages)  BY SizeAssumption, FS_Interval DEF Pages
<1>2. \A r : LinesOf(r) \in SUBSET Pages  BY DEF LinesTyped, LinesOf
<1> QED BY <1>1, <1>2, FS_Subset, FS_CardinalityType

\* A line is inserted for a page that has none: no request line is lost.
LEMMA InsertLine ==
  ASSUME LinesTyped, LineLimit, NEW r \in Rams, NEW p \in Pages, RamOf(p) = r, p \notin DOMAIN line,
         NEW l \in Line, l.is_req <=> l.head \in Idx, HasWritableWay(r), Insert(r, p, l)
  PROVE  /\ LinesTyped' /\ LineLimit' /\ p \in DOMAIN line' /\ line'[p] = l
         /\ \A q \in DOMAIN line' \ {p} : q \in DOMAIN line /\ line'[q] = line[q]
         /\ \A q \in ReqPages : q \in DOMAIN line' /\ q # p
<1>1. CASE HasFreeWay(r)
  <2>1. line' = WithLine(line, p, l)  BY <1>1 DEF Insert
  <2>2. /\ DOMAIN line' = DOMAIN line \union {p} /\ line'[p] = l
        /\ \A q \in DOMAIN line : line'[q] = line[q]
    BY <2>1 DEF WithLine
  <2>3. line' = [q \in DOMAIN line' |-> line'[q]]  BY <2>1 DEF WithLine
  <2>4. LinesTyped'  BY <2>2, <2>3 DEF LinesTyped
  <2>5. LinesOf(r)' = LinesOf(r) \union {p} /\ p \notin LinesOf(r)
        /\ \A q \in Rams \ {r} : LinesOf(q)' = LinesOf(q)
    BY <2>2 DEF LinesOf
  <2>6. Cardinality(LinesOf(r)') = Cardinality(LinesOf(r)) + 1
    BY <2>5, LinesFinite, FS_AddElement
  <2>7. Cardinality(LinesOf(r)') <= WAYS
    BY <2>6, <1>1, LinesFinite, SizeAssumption DEF HasFreeWay
  <2>8. LineLimit'
    <3> SUFFICES ASSUME NEW q \in Rams PROVE Cardinality(LinesOf(q)') <= WAYS
      BY DEF LineLimit, LinesOf
    <3>1. CASE q = r  BY <3>1, <2>7
    <3>2. CASE q # r
      <4>1. Cardinality(LinesOf(q)') = Cardinality(LinesOf(q))  BY <3>2, <2>5
      <4> QED BY <4>1 DEF LineLimit
    <3> QED BY <3>1, <3>2
  <2> QED BY <2>2, <2>4, <2>8 DEF ReqPages
<1>2. CASE ~HasFreeWay(r)
  <2>1. PICK v \in Placeholders(r) : line' = WithLine(Without(line, v), p, l)
    BY <1>2 DEF Insert
  <2>2. v \in DOMAIN line /\ RamOf(v) = r /\ ~line[v].is_req  BY DEF Placeholders, LinesOf
  <2>3. /\ DOMAIN line' = (DOMAIN line \ {v}) \union {p} /\ line'[p] = l
        /\ \A q \in DOMAIN line \ {v} : line'[q] = line[q]
    <3> DEFINE ls == Without(line, v)
    <3>1. DOMAIN ls = DOMAIN line \ {v} /\ \A q \in DOMAIN line \ {v} : ls[q] = line[q]
      BY WithoutType
    <3> HIDE DEF ls
    <3>2. line' = WithLine(ls, p, l)  BY <2>1 DEF ls
    <3> QED BY <3>1, <3>2 DEF WithLine
  <2>4. line' = [q \in DOMAIN line' |-> line'[q]]  BY <2>1 DEF WithLine
  <2>5. LinesTyped'  BY <2>3, <2>4 DEF LinesTyped
  <2>6. LinesOf(r)' = (LinesOf(r) \ {v}) \union {p} /\ p \notin LinesOf(r) /\ v \in LinesOf(r)
        /\ \A q \in Rams \ {r} : LinesOf(q)' = LinesOf(q)
    BY <2>2, <2>3 DEF LinesOf
  <2>7. Cardinality(LinesOf(r)') <= WAYS
    <3> DEFINE A == LinesOf(r)
               B == A \ {v}
    <3>1. IsFiniteSet(A) /\ v \in A /\ p \notin A  BY <2>6, LinesFinite
    <3>0. Cardinality(A) <= WAYS /\ Cardinality(A) \in Nat  BY LinesFinite DEF LineLimit
    <3>2. LinesOf(r)' = B \union {p}  BY <2>6
    <3> HIDE DEF A
    <3>3. IsFiniteSet(B) /\ Cardinality(B) = Cardinality(A) - 1  BY <3>1, FS_RemoveElement
    <3>4. p \notin B  BY <3>1
    <3> HIDE DEF B
    <3>5. Cardinality(B \union {p}) = Cardinality(B) + 1  BY <3>3, <3>4, FS_AddElement
    <3>6. Cardinality(B \union {p}) = Cardinality(A)  BY <3>0, <3>3, <3>5
    <3> QED BY <3>0, <3>2, <3>6
  <2>8. LineLimit'
    <3> SUFFICES ASSUME NEW q \in Rams PROVE Cardinality(LinesOf(q)') <= WAYS
      BY DEF LineLimit, LinesOf
    <3>1. CASE q = r  BY <3>1, <2>7
    <3>2. CASE q # r
      <4>1. Cardinality(LinesOf(q)') = Cardinality(LinesOf(q))  BY <3>2, <2>6
      <4> QED BY <4>1 DEF LineLimit
    <3> QED BY <3>1, <3>2
  <2> QED BY <2>2, <2>3, <2>5, <2>8 DEF ReqPages
<1> QED BY <1>1, <1>2

\* A task gets a free entry.
LEMMA EntryAdded ==
  ASSUME NEW f \in Idx, NEW t \in Tasks, entry[f].task = NoTask, t \notin Entered,
         entry'[f].task = t, \A i \in Idx \ {f} : entry'[i].task = entry[i].task, page' = page
  PROVE  /\ Entered' = Entered \union {t} /\ Waiting(page[t])' = Waiting(page[t]) \union {f}
         /\ \A p : f \notin Waiting(p) /\ (p # page[t] => Waiting(p)' = Waiting(p))
         /\ Entries /\ ReqPages \subseteq ReqPages' /\ page[t] \in ReqPages' => Entries'
<1>1. t # NoTask  BY Numbers
<1>2. Entered' = Entered \union {t}
  <2>1. /\ \A u : u \in Entered' <=> u # NoTask /\ \E i \in Idx : entry'[i].task = u
        /\ \A u : u \in Entered <=> u # NoTask /\ \E i \in Idx : entry[i].task = u
    BY DEF Entered
  <2>2. \A u : u \in Entered' <=> u \in Entered \/ u = t  BY <2>1, <1>1
  <2> QED BY <2>2
<1>3. \A p : f \notin Waiting(p) /\ (p # page[t] => Waiting(p)' = Waiting(p))
  BY DEF Waiting
<1>4. Waiting(page[t])' = Waiting(page[t]) \union {f}
  <2>1. \A i \in Idx : entry'[i].task # NoTask /\ page'[entry'[i].task] = page[t]
                       <=> i = f \/ (entry[i].task # NoTask /\ page[entry[i].task] = page[t])
    BY <1>1
  <2> QED BY <2>1 DEF Waiting
<1>5. ASSUME Entries, ReqPages \subseteq ReqPages', page[t] \in ReqPages'
      PROVE  Entries'
  <2>1. \A i \in Idx : entry[i].task # NoTask => entry[i].task \in Entered  BY DEF Entered
  <2>2. ASSUME NEW i \in Idx, NEW j \in Idx, entry'[i].task = entry'[j].task, entry'[i].task # NoTask
        PROVE  i = j
    BY <2>1, <2>2, <1>5 DEF Entries
  <2>3. ASSUME NEW i \in Idx, entry'[i].task # NoTask PROVE page'[entry'[i].task] \in ReqPages'
    <3>1. CASE i = f  BY <3>1, <1>5
    <3>2. CASE i # f  BY <3>2, <2>3, <1>5 DEF Entries
    <3> QED BY <3>1, <3>2
  <2> QED BY <2>2, <2>3 DEF Entries
<1> QED BY <1>2, <1>3, <1>4, <1>5

\* A chain whose entries stay as they are.
LEMMA ListStays ==
  ASSUME NEW p, NEW s, ListOf(p, s), Waiting(p)' = Waiting(p), HeadOf(p)' = HeadOf(p),
         Flushing(p)' <=> Flushing(p), \A i \in Waiting(p) : entry'[i] = entry[i]
  PROVE  ListOf(p, s)'
<1>1. \A k \in DOMAIN s : s[k] \in Waiting(p)  BY DEF ListOf, ToSet
<1>2. 1 \in DOMAIN s
  <2>1. Len(s) \in Nat \ {0} /\ DOMAIN s = 1 .. Len(s)  BY NonEmpty DEF ListOf
  <2> QED BY <2>1
<1>3. IsChain(s, p)'  BY <1>1, <1>2 DEF ListOf, IsChain
<1> QED BY <1>3 DEF ListOf

\* A task that asked gets an entry, and perhaps a walk.
LEMMA EntersTask ==
  ASSUME Inv, NEW t \in Asking, t \in Tasks, t \in Arrived, answers[t] = << >>,
         t \notin bypass \union Ptw \union Entered \union Sent \union Held,
         UNCHANGED <<page, answers, bypass>>, Asking' = Asking \ {t}, Held' = Held,
         Entered' = Entered \union {t}, Ptw' \subseteq Ptw \union {t}, Sent' = Sent,
         Awaited' = Awaited, \A u \in (Ptw \ bypass) \union Faulted : Owned(u)',
         t \in Ptw' => Owned(t)', LineOwners'
  PROVE  TaskInv'
<1>1. Arrived' = Arrived /\ Asking \subseteq Arrived  BY DEF Arrived, Inv, Fifos
<1>2. Places'  BY <1>1 DEF Inv, TaskInv, Places
<1>3. Pending' \subseteq Pending  BY <1>1 DEF Pending
<1>4. Silent'  BY <1>3 DEF Inv, TaskInv, Silent
<1>5. Faulted' = Faulted  BY DEF Faulted
<1>6. Owners'  BY <1>5 DEF Inv, TaskInv, Owners
<1> QED BY <1>2, <1>4, <1>6 DEF TaskInv

\* A worker that serves a message is not flushing a page of its RAM.
LEMMA NotFlushing ==
  ASSUME Flushes, NEW r \in Rams, worker[r].at # "flush", NEW p, RamOf(p) = r
  PROVE  ~Flushing(p)
BY DEF Flushing, Flushes

\* The entry of a task is appended to a chain.
LEMMA AppendChain ==
  ASSUME NEW p, NEW s, ListOf(p, s), ~Flushing(p), ~Flushing(p)', entry \in [Idx -> Entry],
         NEW f \in Idx, f \notin Waiting(p), Waiting(p)' = Waiting(p) \union {f},
         line'[p].head = line[p].head,
         entry'[f].next = NoIdx,
         \A i \in Waiting(p) :
           /\ entry'[i].next = IF i = entry[line[p].head].tail THEN f ELSE entry[i].next
           /\ entry'[i].tail = IF i = line[p].head THEN f ELSE entry[i].tail
  PROVE  ListOf(p, Append(s, f))'
<1> DEFINE u == Append(s, f)
           n == Len(s)
<1>1. s \in Seq(Idx) /\ s # << >> /\ IsInjective(s) /\ ToSet(s) = Waiting(p)  BY DEF ListOf
<1>2. n \in Nat \ {0} /\ DOMAIN s = 1 .. n  BY <1>1, NonEmpty
<1>3. /\ u \in Seq(Idx) /\ ToSet(u) = Waiting(p) \union {f} /\ IsInjective(u)
      /\ Len(u) = n + 1 /\ DOMAIN u = 1 .. (n + 1) /\ u[n + 1] = f
      /\ \A i \in 1 .. n : u[i] = s[i]
  BY <1>1, <1>2, AppendSet
<1> HIDE DEF u, n
<1>4. /\ s[1] = line[p].head /\ entry[s[1]].tail = s[n]
      /\ \A k \in 1 .. n : entry[s[k]].next = IF k = n THEN NoIdx ELSE s[k + 1]
  <2>1. IsChain(s, p) /\ HeadOf(p) = line[p].head /\ n = Len(s)  BY DEF ListOf, HeadOf, n
  <2> QED BY <2>1, <1>2 DEF IsChain
<1>5. \A k \in 1 .. n : s[k] \in Waiting(p)  BY <1>1, <1>2 DEF ToSet
<1>6. 1 \in 1 .. n /\ n \in 1 .. n /\ u # << >>
  <2>1. 1 \in 1 .. n /\ n \in 1 .. n  BY <1>2
  <2>2. 1 \in DOMAIN u  BY <1>2, <1>3
  <2> QED BY <2>1, <2>2
<1>7. u[1] = line'[p].head  BY <1>3, <1>4, <1>6
<1>8. \A k \in 1 .. (n + 1) : entry'[u[k]].next = IF k = n + 1 THEN NoIdx ELSE u[k + 1]
  <2> TAKE k \in 1 .. (n + 1)
  <2>1. CASE k = n + 1  BY <2>1, <1>3
  <2>2. CASE k # n + 1
    <3>1. k \in 1 .. n /\ u[k] = s[k] /\ s[k] \in Waiting(p)  BY <2>2, <1>2, <1>3, <1>5
    <3>2. entry'[s[k]].next = IF s[k] = s[n] THEN f ELSE entry[s[k]].next
      BY <3>1, <1>4
    <3>3. s[k] = s[n] <=> k = n  BY <3>1, <1>1, <1>2, <1>6 DEF IsInjective
    <3>4. CASE k = n  BY <3>1, <3>2, <3>4, <1>3, <2>2
    <3>5. CASE k # n
      <4>1. k + 1 \in 1 .. n  BY <3>1, <3>5, <1>2
      <4>2. u[k + 1] = s[k + 1]  BY <4>1, <1>3
      <4>3. entry[s[k]].next = s[k + 1]  BY <3>1, <3>5, <1>4
      <4> QED BY <3>1, <3>2, <3>3, <3>5, <4>2, <4>3, <2>2
    <3> QED BY <3>4, <3>5
  <2> QED BY <2>1, <2>2
<1>9. entry'[u[1]].tail = u[n + 1]  BY <1>3, <1>4, <1>5, <1>6
<1>10. HeadOf(p)' = line'[p].head  BY DEF HeadOf
<1>11. IsChain(u, p)'
  <2>1. HeadOf(p)' = u[1]  BY <1>7, <1>10
  <2> QED BY <2>1, <1>3, <1>8, <1>9 DEF IsChain
<1> QED BY <1>3, <1>6, <1>11 DEF ListOf, u

\* A task waits at the end of a chain.
LEMMA SuspendKeeps ==
  ASSUME Inv, NEW r \in Rams, Suspend(r)
  PROVE  Inv'
<1>0. PICK m, t, p, f, head, last :
        /\ m = Head(ram_fifo[r]) /\ t = m.by /\ p = m.page /\ f = FirstFree
        /\ head = line[p].head /\ last = entry[head].tail
  OBVIOUS
<1>1. /\ Serves(r, "request") /\ p \in DOMAIN line /\ line[p].is_req /\ FreeIdx # {}
      /\ UNCHANGED <<page, line, worker, ptw_fifo, bypass, walking, rsp_write, agg, answers>>
      /\ UNCHANGED <<request_fifo, inside_fifo, update_fifo, next_is_request, hash_in>>
  BY <1>0 DEF Suspend, pipeVars, walkVars
<1>2. /\ t \in Tasks /\ p = page[t] /\ RamOf(p) = r /\ t \in Asking /\ t \in Arrived
      /\ answers[t] = << >> /\ t \notin bypass \union Ptw \union Entered \union Sent \union Held
      /\ Fifos' /\ Asking' = Asking \ {t} /\ Sending' = Sending /\ worker[r].at = "idle"
  BY <1>0, <1>1, SameInside, ServedRequest
<1>3. f \in Idx /\ entry[f].task = NoTask  BY <1>0, <1>1, FirstFreeType
<1>4. entry \in [Idx -> Entry] /\ p \in ReqPages  BY <1>1 DEF Inv, CacheInv, ReqPages
<1>5a. entry' = [i \in Idx |-> IF i = f THEN [task |-> t, next |-> NoIdx, tail |-> NoIdx]
                                ELSE [entry[i] EXCEPT !.next = IF i = last THEN f ELSE entry[i].next,
                                                      !.tail = IF i = head THEN f ELSE entry[i].tail]]
  BY <1>0 DEF Suspend
<1>5. /\ entry'[f] = [task |-> t, next |-> NoIdx, tail |-> NoIdx]
      /\ \A i \in Idx \ {f} : /\ entry'[i].task = entry[i].task
                              /\ entry'[i].next = IF i = last THEN f ELSE entry[i].next
                              /\ entry'[i].tail = IF i = head THEN f ELSE entry[i].tail
                              /\ entry'[i] \in Entry
                              /\ i # last /\ i # head => entry'[i] = entry[i]
  <2>1. entry'[f] = [task |-> t, next |-> NoIdx, tail |-> NoIdx]  BY <1>5a, <1>3
  <2>2. ASSUME NEW i \in Idx \ {f}
        PROVE  /\ entry'[i].task = entry[i].task
               /\ entry'[i].next = IF i = last THEN f ELSE entry[i].next
               /\ entry'[i].tail = IF i = head THEN f ELSE entry[i].tail
               /\ entry'[i] \in Entry
               /\ i # last /\ i # head => entry'[i] = entry[i]
    <3>1. entry[i] \in Entry  BY <1>4
    <3>2. entry'[i] = [entry[i] EXCEPT !.next = IF i = last THEN f ELSE entry[i].next,
                                       !.tail = IF i = head THEN f ELSE entry[i].tail]
      BY <1>5a
    <3> QED BY <3>1, <3>2, <1>3 DEF Entry
  <2> QED BY <2>1, <2>2
<1>6. entry' \in [Idx -> Entry]
  <2>1. entry'[f] \in Entry  BY <1>2, <1>5 DEF Entry
  <2>2. entry' = [i \in Idx |-> entry'[i]]  BY <1>5a
  <2> QED BY <2>1, <2>2, <1>5
<1>7. /\ Entered' = Entered \union {t} /\ Waiting(p)' = Waiting(p) \union {f}
      /\ \A q : f \notin Waiting(q) /\ (q # p => Waiting(q)' = Waiting(q))
      /\ ReqPages' = ReqPages /\ Entries'
  <2>1. ReqPages' = ReqPages  BY <1>1 DEF ReqPages
  <2>2. entry'[f].task = t  BY <1>5
  <2> QED BY <2>1, <2>2, <1>1, <1>2, <1>3, <1>4, <1>5, EntryAdded DEF Inv, ChainInv
<1>8. ~Flushing(p)  BY <1>2, NotFlushing DEF Inv, CacheInv
<1>9. \A q : (Flushing(q)' <=> Flushing(q)) /\ HeadOf(q)' = HeadOf(q)  BY <1>1 DEF Flushing, HeadOf
<1>10. PICK s : ListOf(p, s)  BY <1>4 DEF Inv, ChainInv, Chains
<1>11. head = line[p].head /\ last = entry[line[p].head].tail  BY <1>0
<1>12. head \in Waiting(p) /\ last \in Waiting(p)
  <2>1. s # << >> /\ s \in Seq(Idx) /\ ToSet(s) = Waiting(p) /\ s[1] = head /\ last = s[Len(s)]
    BY <1>8, <1>10, <1>11 DEF ListOf, IsChain, HeadOf
  <2>2. Len(s) \in Nat \ {0} /\ DOMAIN s = 1 .. Len(s)  BY <2>1, NonEmpty
  <2>3. 1 \in DOMAIN s /\ Len(s) \in DOMAIN s  BY <2>2
  <2> QED BY <2>1, <2>3 DEF ToSet
<1>13. ListOf(p, Append(s, f))'
  <2>1. \A i \in Waiting(p) : i \in Idx \ {f}  BY <1>7 DEF Waiting
  <2>2. /\ entry'[f].next = NoIdx
        /\ \A i \in Waiting(p) :
             /\ entry'[i].next = IF i = entry[line[p].head].tail THEN f ELSE entry[i].next
             /\ entry'[i].tail = IF i = line[p].head THEN f ELSE entry[i].tail
    BY <2>1, <1>5, <1>11
  <2>3. line'[p].head = line[p].head /\ ~Flushing(p)'  BY <1>1, <1>8, <1>9
  <2> QED BY <2>2, <2>3, <1>3, <1>4, <1>7, <1>8, <1>10, AppendChain
<1>14. Chains'
  <2> SUFFICES ASSUME NEW q \in ReqPages PROVE (\E z : ListOf(q, z))'
    BY <1>7 DEF Chains
  <2>1. CASE q = p  BY <2>1, <1>13
  <2>2. CASE q # p
    <3>1. PICK z : ListOf(q, z)  BY DEF Inv, ChainInv, Chains
    <3>2. \A i \in Waiting(q) : i \in Idx \ {f} /\ i # last /\ i # head
      BY <1>7, <1>12, <2>2 DEF Waiting
    <3>3. ListOf(q, z)'  BY <3>1, <3>2, <1>5, <1>7, <1>9, <2>2, ListStays
    <3> QED BY <3>3
  <2> QED BY <2>1, <2>2
<1>15. TasksTyped'  BY <1>1 DEF Inv, TasksTyped
<1>16. /\ Groups' /\ Mains' = Mains /\ Awaited' = Awaited /\ Writes' = Writes
  BY <1>1, SameGroups DEF Inv, WalkInv
<1>17. WalkInv'  BY <1>1, <1>16 DEF Inv, WalkInv, WalksTyped, WalkedOnce, Limits
<1>18. CacheInv' /\ Held' = Held
  <2>1. LineLimit'  BY <1>1 DEF Inv, CacheInv, LineLimit, LinesOf
  <2>2. LinesTyped' /\ WorkersTyped' /\ HeldOnce' /\ Flushes' /\ Held' = Held
    BY <1>1, <1>7 DEF Inv, CacheInv, LinesTyped, WorkersTyped, HeldOnce, Flushes, Held
  <2> QED BY <2>1, <2>2, <1>6 DEF CacheInv
<1>19. TaskInv'
  <2>1. LineOwners' /\ \A u : Owned(u)' <=> Owned(u)
    BY <1>1, <1>2, <1>18, SameLines DEF Inv, TaskInv
  <2>2. Ptw' = Ptw  BY <1>1 DEF Ptw
  <2>3. Sent' = Sent  BY <1>2, <1>16, SentChanges
  <2>4. \A u \in (Ptw \ bypass) \union Faulted : Owned(u)'  BY <2>1 DEF Inv, TaskInv, Owners
  <2> QED BY <2>1, <2>2, <2>3, <2>4, <1>1, <1>2, <1>7, <1>16, <1>18, EntersTask
<1> QED BY <1>2, <1>7, <1>14, <1>15, <1>17, <1>18, <1>19 DEF Inv, ChainInv

\* A line gets a task that heads a new chain.
LEMMA NewLine ==
  ASSUME Inv, NEW f \in Idx, entry[f].task = NoTask, NEW t \in Tasks, t \notin Entered,
         NEW p \in Pages, p = page[t], worker[RamOf(p)].at # "flush", p \notin ReqPages,
         NewHead(f, t), line'[p].is_req, line'[p].head = f,
         UNCHANGED <<page, worker>>, LinesTyped', LineLimit', p \in DOMAIN line',
         \A q \in DOMAIN line' \ {p} : q \in DOMAIN line /\ line'[q] = line[q],
         \A q \in ReqPages : q \in DOMAIN line' /\ q # p
  PROVE  /\ CacheInv' /\ ChainInv' /\ Held' = Held /\ Entered' = Entered \union {t}
         /\ ReqPages' = ReqPages \union {p} /\ ~Flushing(p)'
         /\ \A u : Owned(u) => Owned(u)'
         /\ \A q \in ReqPages : line'[q] = line[q]
<1>1. entry \in [Idx -> Entry] /\ entry' = [entry EXCEPT ![f] = [task |-> t, next |-> NoIdx, tail |-> f]]
  BY DEF Inv, CacheInv, NewHead
<1>2. /\ entry' \in [Idx -> Entry] /\ entry'[f] = [task |-> t, next |-> NoIdx, tail |-> f]
      /\ \A i \in Idx \ {f} : entry'[i] = entry[i]
  <2>1. [task |-> t, next |-> NoIdx, tail |-> f] \in Entry  BY DEF Entry
  <2> QED BY <2>1, <1>1
<1>3. line'[p].is_req /\ line'[p].head = f /\ RamOf(p) \in Rams  BY Numbers
<1>4. ReqPages' = ReqPages \union {p} /\ \A q \in ReqPages : line'[q] = line[q]
  <2>1. \A q \in ReqPages : q \in DOMAIN line' \ {p} /\ line'[q] = line[q]  OBVIOUS
  <2>2. \A q \in ReqPages' : q = p \/ q \in ReqPages  BY DEF ReqPages
  <2>3. \A q \in ReqPages : q \in ReqPages'  BY <2>1 DEF ReqPages
  <2>4. p \in ReqPages'  BY <1>3 DEF ReqPages
  <2> QED BY <2>1, <2>2, <2>3, <2>4
<1>5. /\ Entered' = Entered \union {t} /\ Waiting(p)' = Waiting(p) \union {f}
      /\ \A q : f \notin Waiting(q) /\ (q # p => Waiting(q)' = Waiting(q))
      /\ Entries'
  <2>1. entry'[f].task = t /\ \A i \in Idx \ {f} : entry'[i].task = entry[i].task  BY <1>2
  <2>2. ReqPages \subseteq ReqPages' /\ page[t] \in ReqPages'  BY <1>4
  <2> QED BY <2>1, <2>2, EntryAdded DEF Inv, ChainInv
<1>6. Waiting(p) = {}  BY DEF Waiting, Inv, ChainInv, Entries
<1>7. (\A q : Flushing(q)' <=> Flushing(q)) /\ ~Flushing(p)
  BY <1>3, NotFlushing DEF Flushing, Inv, CacheInv
<1>8. ListOf(p, <<f>>)'
  <2> DEFINE s == <<f>>
  <2>1. s \in Seq(Idx) /\ Len(s) = 1 /\ DOMAIN s = {1} /\ s[1] = f /\ s # << >>  OBVIOUS
  <2> HIDE DEF s
  <2>2. IsInjective(s) /\ ToSet(s) = {f}  BY <2>1 DEF IsInjective, ToSet
  <2>3. HeadOf(p)' = f  BY <1>3, <1>7 DEF HeadOf
  <2>4. IsChain(s, p)'  BY <2>1, <2>3, <1>2 DEF IsChain
  <2>5. ListOf(p, s)'  BY <2>1, <2>2, <2>4, <1>5, <1>6 DEF ListOf
  <2> QED BY <2>5 DEF s
<1>9. Chains'
  <2> SUFFICES ASSUME NEW q \in ReqPages \union {p} PROVE (\E z : ListOf(q, z))'
    BY <1>4 DEF Chains
  <2>1. CASE q = p  BY <2>1, <1>8
  <2>2. CASE q # p
    <3>1. q \in ReqPages  BY <2>2
    <3>2. PICK z : ListOf(q, z)  BY <3>1 DEF Inv, ChainInv, Chains
    <3>3. \A i \in Waiting(q) : i \in Idx \ {f}  BY <1>5 DEF Waiting
    <3>4. HeadOf(q)' = HeadOf(q)  BY <3>1, <1>4, <1>7 DEF HeadOf
    <3>5. ListOf(q, z)'  BY <3>2, <3>3, <3>4, <1>2, <1>5, <1>7, <2>2, ListStays
    <3> QED BY <3>5
  <2> QED BY <2>1, <2>2
<1>10. CacheInv' /\ Held' = Held
  <2>1. WorkersTyped' /\ HeldOnce' /\ Held' = Held  BY DEF Inv, CacheInv, WorkersTyped, HeldOnce, Held
  <2>2. Flushes'  BY <1>4 DEF Inv, CacheInv, Flushes
  <2> QED BY <2>1, <2>2, <1>2 DEF CacheInv
<1>11. \A u : Owned(u) => Owned(u)'
  BY <1>4, <1>7 DEF Owned
<1> QED BY <1>4, <1>5, <1>7, <1>9, <1>10, <1>11 DEF ChainInv

\* A placeholder becomes a request line.
LEMMA UpgradeKeeps ==
  ASSUME Inv, NEW r \in Rams, Upgrade(r)
  PROVE  Inv'
<1>0. PICK m, t, p, f : m = Head(ram_fifo[r]) /\ t = m.by /\ p = m.page /\ f = FirstFree
  OBVIOUS
<1>1. /\ Serves(r, "request") /\ p \in DOMAIN line /\ ~line[p].is_req /\ FreeIdx # {}
      /\ NewHead(f, t) /\ line' = [line EXCEPT ![p] = ReqLine(f, t, TRUE)]
      /\ UNCHANGED <<page, worker, ptw_fifo, bypass, walking, rsp_write, agg, answers>>
      /\ UNCHANGED <<request_fifo, inside_fifo, update_fifo, next_is_request, hash_in>>
  BY <1>0 DEF Upgrade, pipeVars, walkVars
<1>2. /\ t \in Tasks /\ p \in Pages /\ p = page[t] /\ RamOf(p) = r /\ t \in Asking /\ t \in Arrived
      /\ answers[t] = << >> /\ t \notin bypass \union Ptw \union Entered \union Sent \union Held
      /\ Fifos' /\ Asking' = Asking \ {t} /\ Sending' = Sending /\ worker[r].at = "idle"
  BY <1>0, <1>1, SameInside, ServedRequest
<1>3. f \in Idx /\ entry[f].task = NoTask  BY <1>0, <1>1, FirstFreeType
<1>4. LinesTyped  BY DEF Inv, CacheInv
<1>5. ReqLine(f, t, TRUE) \in Line /\ ReqLine(f, t, TRUE).is_req /\ ReqLine(f, t, TRUE).head = f
      /\ ReqLine(f, t, TRUE).suspended
  BY <1>2, <1>3 DEF ReqLine, Line
<1> DEFINE l == ReqLine(f, t, TRUE)
<1>6. l = ReqLine(f, t, TRUE)  OBVIOUS
<1> HIDE DEF l
<1>7. /\ DOMAIN line' = DOMAIN line /\ line'[p] = l /\ \A q \in DOMAIN line \ {p} : line'[q] = line[q]
      /\ line' \in [DOMAIN line -> Line]
  BY <1>1, <1>4, <1>5, <1>6 DEF LinesTyped
<1>8. LinesTyped'
  BY <1>3, <1>4, <1>5, <1>6, <1>7 DEF LinesTyped
<1>9. LineLimit'  BY <1>7 DEF Inv, CacheInv, LineLimit, LinesOf
<1>10. p \notin ReqPages /\ \A q \in ReqPages : q \in DOMAIN line' /\ q # p
  BY <1>1, <1>7 DEF ReqPages
<1>11. /\ CacheInv' /\ ChainInv' /\ Held' = Held /\ Entered' = Entered \union {t}
       /\ ReqPages' = ReqPages \union {p}
       /\ \A u : Owned(u) => Owned(u)'
       /\ \A q \in ReqPages : line'[q] = line[q]
  <2>1. /\ worker[RamOf(p)].at # "flush" /\ t \notin Entered
        /\ line'[p].is_req /\ line'[p].head = f /\ p \in DOMAIN line'
        /\ \A q \in DOMAIN line' \ {p} : q \in DOMAIN line /\ line'[q] = line[q]
        /\ UNCHANGED <<page, worker>> /\ NewHead(f, t)
    BY <1>1, <1>2, <1>5, <1>6, <1>7
  <2> QED BY <2>1, <1>2, <1>3, <1>8, <1>9, <1>10, NewLine
<1>12. TasksTyped'  BY <1>1 DEF Inv, TasksTyped
<1>13. /\ Groups' /\ Mains' = Mains /\ Awaited' = Awaited /\ Writes' = Writes
  BY <1>1, SameGroups DEF Inv, WalkInv
<1>14. WalkInv'  BY <1>1, <1>13 DEF Inv, WalkInv, WalksTyped, WalkedOnce, Limits
<1>15. Ptw' = Ptw /\ Sent' = Sent  BY <1>1, <1>2, <1>13, SentChanges DEF Ptw
<1>16. LineOwners'
  <2> SUFFICES ASSUME NEW q \in ReqPages \union {p}, ~line'[q].suspended
               PROVE  /\ line'[q].owner \in Tasks /\ page[line'[q].owner] = q
                      /\ line'[q].owner \notin bypass \union Asking' \union Held
    BY <1>1, <1>11 DEF LineOwners
  <2>1. q # p  BY <1>5, <1>6, <1>7
  <2>2. q \in ReqPages /\ line'[q] = line[q]  BY <2>1, <1>11
  <2> QED BY <2>2, <1>2 DEF Inv, TaskInv, LineOwners
<1>17. \A u \in (Ptw \ bypass) \union Faulted : Owned(u)'  BY <1>11 DEF Inv, TaskInv, Owners
<1>18. TaskInv'
  BY <1>1, <1>2, <1>11, <1>13, <1>15, <1>16, <1>17, EntersTask
<1> QED BY <1>2, <1>11, <1>12, <1>14, <1>18 DEF Inv

\* The first task of a page takes a line and goes to the PTW.
LEMMA OwnInside ==
  ASSUME Inv, NEW r \in Rams, Own(r), NEW m, m = Head(ram_fifo[r])
  PROVE  /\ inside_fifo' \in Seq(Message) /\ \A x \in ToSet(inside_fifo') : x.kind = "prefetch"
         /\ \A x \in ToSet(inside_fifo') \ ToSet(inside_fifo) :
              \E d \in 1 .. GroupDepth(m.page) : x = Prefetch(m.by, m.page + d)
<1> DEFINE ahead == [d \in 1 .. GroupDepth(m.page) |-> Prefetch(m.by, m.page + d)]
<1>1. m \in Message
  <2>1. ram_fifo[r] # << >> /\ ram_fifo[r] \in Seq(Message)
    BY DEF Own, Serves, Inv, Fifos, FifosTyped
  <2> QED BY <2>1, NonEmpty
<1>2. m.page \in Pages /\ m.by \in Tasks  BY <1>1, MessageFields
<1>3. GroupDepth(m.page) \in Nat /\ \A d \in 1 .. GroupDepth(m.page) : m.page + d \in Pages
  BY <1>2, DepthType
<1>4. \A d \in 1 .. GroupDepth(m.page) :
        Prefetch(m.by, m.page + d) \in Message /\ Prefetch(m.by, m.page + d).kind = "prefetch"
  BY <1>2, <1>3 DEF Prefetch, Message, Results
<1>5. /\ ahead \in Seq(Message)
      /\ \A x \in ToSet(ahead) : /\ x.kind = "prefetch"
                                 /\ \E d \in 1 .. GroupDepth(m.page) : x = Prefetch(m.by, m.page + d)
  <2>1. ahead \in [1 .. GroupDepth(m.page) -> Message]  BY <1>4
  <2>2. ahead \in Seq(Message) /\ DOMAIN ahead = 1 .. GroupDepth(m.page)
    BY <2>1, <1>3, FunctionIsSeq
  <2>3. \A d \in DOMAIN ahead : /\ ahead[d] = Prefetch(m.by, m.page + d) /\ ahead[d].kind = "prefetch"
                                /\ d \in 1 .. GroupDepth(m.page)
    BY <2>2, <1>4
  <2> QED BY <2>2, <2>3 DEF ToSet
<1>6. inside_fifo' = SubSeq(inside_fifo \o ahead, 1, Min({INSIDE_DEPTH, Len(inside_fifo) + Len(ahead)}))
  BY DEF Own
<1> HIDE DEF ahead
<1>7. inside_fifo \in Seq(Message) /\ \A x \in ToSet(inside_fifo) : x.kind = "prefetch"
  BY DEF Inv, Fifos, FifosTyped, Routing
<1>8. INSIDE_DEPTH \in Nat  BY SizeAssumption
<1>9. inside_fifo' \in Seq(Message) /\ ToSet(inside_fifo') \subseteq ToSet(inside_fifo) \union ToSet(ahead)
  BY <1>5, <1>6, <1>7, <1>8, PrefixType
<1> QED BY <1>5, <1>7, <1>9

LEMMA OwnKeeps ==
  ASSUME Inv, NEW r \in Rams, Own(r)
  PROVE  Inv'
<1>0. PICK m, t, p, f, l : /\ m = Head(ram_fifo[r]) /\ t = m.by /\ p = m.page
                           /\ f = FirstFree /\ l = ReqLine(f, t, FALSE)
  OBVIOUS
<1>1. /\ Serves(r, "request") /\ p \notin DOMAIN line /\ HasWritableWay(r) /\ FreeIdx # {}
      /\ NewHead(f, t) /\ Insert(r, p, l) /\ ptw_fifo' = Append(ptw_fifo, t)
      /\ UNCHANGED <<page, worker, bypass, walking, rsp_write, agg, answers>>
      /\ UNCHANGED <<request_fifo, update_fifo, next_is_request, hash_in>>
  BY <1>0 DEF Own
<1>2. /\ t \in Tasks /\ p \in Pages /\ p = page[t] /\ RamOf(p) = r /\ t \in Asking /\ t \in Arrived
      /\ answers[t] = << >> /\ t \notin bypass \union Ptw \union Entered \union Sent \union Held
      /\ Fifos' /\ Asking' = Asking \ {t} /\ Sending' = Sending /\ worker[r].at = "idle"
  BY <1>0, <1>1, OwnInside, ServedRequest
<1>3. f \in Idx /\ entry[f].task = NoTask  BY <1>0, <1>1, FirstFreeType
<1>4. LinesTyped /\ LineLimit  BY DEF Inv, CacheInv
<1>5. l \in Line /\ l.is_req /\ l.head = f /\ ~l.suspended /\ l.owner = t /\ l = ReqLine(f, t, FALSE)
  BY <1>0, <1>2, <1>3 DEF ReqLine, Line
<1>6. /\ LinesTyped' /\ LineLimit' /\ p \in DOMAIN line' /\ line'[p] = l
      /\ \A q \in DOMAIN line' \ {p} : q \in DOMAIN line /\ line'[q] = line[q]
      /\ \A q \in ReqPages : q \in DOMAIN line' /\ q # p
  BY <1>1, <1>2, <1>3, <1>4, <1>5, InsertLine, ZenonT(40)
<1>7. p \notin ReqPages  BY <1>1 DEF ReqPages
<1>8. /\ CacheInv' /\ ChainInv' /\ Held' = Held /\ Entered' = Entered \union {t}
      /\ ReqPages' = ReqPages \union {p} /\ ~Flushing(p)'
      /\ \A u : Owned(u) => Owned(u)'
      /\ \A q \in ReqPages : line'[q] = line[q]
  <2>1. /\ worker[RamOf(p)].at # "flush" /\ t \notin Entered
        /\ line'[p].is_req /\ line'[p].head = f /\ p \in DOMAIN line'
        /\ UNCHANGED <<page, worker>> /\ NewHead(f, t)
    BY <1>1, <1>2, <1>5, <1>6
  <2> QED BY <2>1, <1>2, <1>3, <1>6, <1>7, NewLine
<1>9. TasksTyped'  BY <1>1 DEF Inv, TasksTyped
<1>10. /\ Groups' /\ Mains' = Mains /\ Awaited' = Awaited /\ Writes' = Writes
  BY <1>1, SameGroups DEF Inv, WalkInv
<1>11. ptw_fifo \in Seq(Tasks) /\ IsInjective(ptw_fifo) /\ t \notin ToSet(ptw_fifo) /\ t \notin walking
       /\ ToSet(ptw_fifo) \intersect walking = {}
  BY <1>2 DEF Inv, WalkInv, WalksTyped, WalkedOnce, Ptw
<1>12. ptw_fifo' \in Seq(Tasks) /\ ToSet(ptw_fifo') = ToSet(ptw_fifo) \union {t} /\ IsInjective(ptw_fifo')
  BY <1>1, <1>2, <1>11, AppendSet
<1>13. WalkInv'
  <2>1. WalksTyped'  BY <1>1, <1>12 DEF Inv, WalkInv, WalksTyped
  <2>2. WalkedOnce'  BY <1>1, <1>11, <1>12 DEF WalkedOnce
  <2> QED BY <2>1, <2>2, <1>1, <1>10 DEF Inv, WalkInv, Limits
<1>14. Ptw' = Ptw \union {t} /\ Sent' = Sent  BY <1>1, <1>2, <1>10, <1>12, SentChanges DEF Ptw
<1>15. LineOwners'
  <2> SUFFICES ASSUME NEW q \in ReqPages \union {p}, ~line'[q].suspended
               PROVE  /\ line'[q].owner \in Tasks /\ page[line'[q].owner] = q
                      /\ line'[q].owner \notin bypass \union Asking' \union Held
    BY <1>1, <1>8 DEF LineOwners
  <2>1. CASE q = p  BY <2>1, <1>2, <1>5, <1>6
  <2>2. CASE q # p
    <3>1. q \in ReqPages /\ line'[q] = line[q]  BY <2>2, <1>8
    <3> QED BY <3>1, <1>2 DEF Inv, TaskInv, LineOwners
  <2> QED BY <2>1, <2>2
<1>16. Owned(t)'  BY <1>1, <1>2, <1>5, <1>6, <1>8, ZenonT(40) DEF Owned
<1>17. \A u \in (Ptw \ bypass) \union Faulted : Owned(u)'  BY <1>8 DEF Inv, TaskInv, Owners
<1>18. TaskInv'
  BY <1>1, <1>2, <1>8, <1>10, <1>14, <1>15, <1>16, <1>17, EntersTask
<1> QED BY <1>2, <1>8, <1>9, <1>13, <1>18 DEF Inv

\* The placeholders change, or nothing.
LEMMA LinesApart ==
  ASSUME Inv, UNCHANGED <<page, worker, entry>>, LinesTyped', LineLimit', ReqPages' = ReqPages,
         \A q \in ReqPages : line'[q] = line[q]
  PROVE  /\ CacheInv' /\ ChainInv' /\ Held' = Held /\ Entered' = Entered
         /\ \A u : Owned(u) => Owned(u)'
         /\ bypass' = bypass /\ Asking' = Asking => LineOwners'
<1>1. (\A q : Flushing(q)' <=> Flushing(q)) /\ \A q \in ReqPages : HeadOf(q)' = HeadOf(q)
  BY DEF Flushing, HeadOf
<1>2. CacheInv' /\ Held' = Held /\ Entered' = Entered
  <2>1. WorkersTyped' /\ HeldOnce' /\ Held' = Held /\ Entered' = Entered /\ entry' \in [Idx -> Entry]
    BY DEF Inv, CacheInv, WorkersTyped, HeldOnce, Held, Entered
  <2>2. Flushes'  BY DEF Inv, CacheInv, Flushes
  <2> QED BY <2>1, <2>2 DEF CacheInv
<1>3. Entries'  BY DEF Inv, ChainInv, Entries
<1>4. Chains'
  <2> SUFFICES ASSUME NEW q \in ReqPages PROVE (\E z : ListOf(q, z))'
    BY DEF Chains
  <2>1. PICK z : ListOf(q, z)  BY DEF Inv, ChainInv, Chains
  <2>2. Waiting(q)' = Waiting(q)  BY DEF Waiting
  <2>3. ListOf(q, z)'  BY <2>1, <2>2, <1>1, ListStays
  <2> QED BY <2>3
<1>5. \A u : Owned(u) => Owned(u)'  BY <1>1 DEF Owned
<1>6. ASSUME bypass' = bypass, Asking' = Asking PROVE LineOwners'
  BY <1>2, <1>6 DEF Inv, TaskInv, LineOwners
<1> QED BY <1>2, <1>3, <1>4, <1>5, <1>6 DEF ChainInv

\* A placeholder is inserted, or dropped.
LEMMA PlaceholdKeeps ==
  ASSUME Inv, NEW r \in Rams, Placehold(r)
  PROVE  Inv'
<1>0. PICK m, p, l : /\ m = Head(ram_fifo[r]) /\ p = m.page
                     /\ l = [is_req |-> FALSE, head |-> NoIdx, owner |-> NoTask, suspended |-> FALSE]
  OBVIOUS
<1>1. /\ Serves(r, "prefetch")
      /\ UNCHANGED <<page, worker, entry, ptw_fifo, bypass, walking, rsp_write, agg, answers>>
      /\ UNCHANGED <<request_fifo, inside_fifo, update_fifo, next_is_request, hash_in>>
      /\ \/ p \notin DOMAIN line /\ HasWritableWay(r) /\ Insert(r, p, l)
         \/ line' = line
  BY <1>0 DEF Placehold, pipeVars, walkVars
<1>2. /\ m \in Message /\ RamOf(p) = r /\ Fifos' /\ Asking' = Asking /\ Sending' = Sending
  BY <1>0, <1>1, SameInside, ServeFifos DEF Inv
<1>3. p \in Pages  BY <1>0, <1>2, MessageFields
<1>4. l \in Line /\ ~l.is_req /\ l.head \notin Idx  BY <1>0, Numbers DEF Line
<1>5. LinesTyped /\ LineLimit  BY DEF Inv, CacheInv
<1>6. LinesTyped' /\ LineLimit' /\ ReqPages' = ReqPages /\ \A q \in ReqPages : line'[q] = line[q]
  <2>1. CASE p \notin DOMAIN line /\ HasWritableWay(r) /\ Insert(r, p, l)
    <3>1. /\ LinesTyped' /\ LineLimit' /\ p \in DOMAIN line' /\ line'[p] = l
          /\ \A q \in DOMAIN line' \ {p} : q \in DOMAIN line /\ line'[q] = line[q]
          /\ \A q \in ReqPages : q \in DOMAIN line' /\ q # p
      BY <2>1, <1>2, <1>3, <1>4, <1>5, InsertLine
    <3>2. \A q \in ReqPages : q \in ReqPages' /\ line'[q] = line[q]  BY <3>1 DEF ReqPages
    <3>3. \A q \in ReqPages' : q \in ReqPages  BY <3>1, <1>4 DEF ReqPages
    <3> QED BY <3>1, <3>2, <3>3
  <2>2. CASE line' = line
    BY <2>2, <1>5 DEF LinesTyped, LineLimit, LinesOf, ReqPages
  <2> QED BY <2>1, <2>2, <1>1
<1>7. /\ CacheInv' /\ ChainInv' /\ Held' = Held /\ Entered' = Entered
      /\ (\A u : Owned(u) => Owned(u)') /\ LineOwners'
  BY <1>1, <1>2, <1>6, LinesApart
<1>8. TasksTyped'  BY <1>1 DEF Inv, TasksTyped
<1>9. /\ Groups' /\ Mains' = Mains /\ Awaited' = Awaited /\ Writes' = Writes
  BY <1>1, SameGroups DEF Inv, WalkInv
<1>10. WalkInv'  BY <1>1, <1>9 DEF Inv, WalkInv, WalksTyped, WalkedOnce, Limits
<1>11. Ptw' = Ptw /\ Sent' = Sent  BY <1>1, <1>2, <1>9, SentChanges DEF Ptw
<1>12. \A u \in (Ptw \ bypass) \union Faulted : Owned(u)'  BY <1>7 DEF Inv, TaskInv, Owners
<1>13. TaskInv'  BY <1>1, <1>2, <1>7, <1>9, <1>11, <1>12, TaskStays DEF Inv
<1> QED BY <1>2, <1>7, <1>8, <1>10, <1>13 DEF Inv

\* The flush of a line starts.
LEMMA FlushStarts ==
  ASSUME Inv, NEW r \in Rams, worker[r].at = "idle", NEW p \in ReqPages, RamOf(p) = r,
         NEW t \in Tasks, NEW res \in Results,
         worker' = [worker EXCEPT ![r] = [at |-> "flush", by |-> t, page |-> p, result |-> res,
                                          cur |-> line[p].head]],
         UNCHANGED <<page, line, entry>>
  PROVE  /\ CacheInv' /\ ChainInv' /\ Held' = Held /\ Entered' = Entered
         /\ \A u : Owned(u) /\ page[u] # p => Owned(u)'
         /\ bypass' = bypass /\ Asking' = Asking => LineOwners'
<1>1. p \in Pages /\ line[p].head \in Idx  BY DEF ReqPages, Inv, CacheInv, LinesTyped
<1>2. /\ worker' \in [Rams -> WorkerState] /\ worker'[r].at = "flush" /\ worker'[r].page = p
      /\ worker'[r].cur = line[p].head
      /\ \A q \in Rams \ {r} : worker'[q] = worker[q]
  <2> DEFINE w == [at |-> "flush", by |-> t, page |-> p, result |-> res, cur |-> line[p].head]
  <2>1. w \in WorkerState /\ w.at = "flush" /\ w.page = p /\ w.cur = line[p].head
    BY <1>1 DEF WorkerState
  <2>2. worker' = [worker EXCEPT ![r] = w]  OBVIOUS
  <2>3. worker \in [Rams -> WorkerState]  BY DEF Inv, CacheInv, WorkersTyped
  <2> HIDE DEF w
  <2> QED BY <2>1, <2>2, <2>3
<1>3. ReqPages' = ReqPages /\ Entered' = Entered  BY DEF ReqPages, Entered
<1>4. WorkersTyped' /\ Flushes'
  BY <1>1, <1>2, <1>3 DEF Inv, CacheInv, WorkersTyped, Flushes
<1>5. Held' = Held /\ HeldOnce'  BY <1>2 DEF Inv, CacheInv, Held, HeldOnce
<1>6. LinesTyped' /\ LineLimit' /\ entry' \in [Idx -> Entry]
  BY DEF Inv, CacheInv, LinesTyped, LineLimit, LinesOf
<1>7. /\ ~Flushing(p) /\ Flushing(p)'
      /\ \A q : q # p => (Flushing(q)' <=> Flushing(q))
  <2>1. ~Flushing(p)  BY NotFlushing DEF Inv, CacheInv
  <2> QED BY <2>1, <1>2 DEF Flushing
<1>8. \A q \in ReqPages : HeadOf(q)' = HeadOf(q)
  <2> TAKE q \in ReqPages
  <2>1. CASE q = p  BY <2>1, <1>2, <1>7 DEF HeadOf
  <2>2. CASE q # p /\ Flushing(q)
    <3>1. PICK z \in Rams : worker[z].at = "flush" /\ worker[z].page = q  BY <2>2 DEF Flushing
    <3>2. z = RamOf(q) /\ z # r  BY <3>1 DEF Inv, CacheInv, Flushes
    <3>3. worker'[RamOf(q)] = worker[RamOf(q)]  BY <3>2, <1>2
    <3> QED BY <3>3, <2>2, <1>7 DEF HeadOf
  <2>3. CASE q # p /\ ~Flushing(q)  BY <2>3, <1>7 DEF HeadOf
  <2> QED BY <2>1, <2>2, <2>3
<1>9. Entries'  BY <1>3 DEF Inv, ChainInv, Entries
<1>10. Chains'
  <2> SUFFICES ASSUME NEW q \in ReqPages PROVE (\E z : ListOf(q, z))'
    BY <1>3 DEF Chains
  <2>1. PICK z : ListOf(q, z)  BY DEF Inv, ChainInv, Chains
  <2>2. Waiting(q)' = Waiting(q)  BY DEF Waiting
  <2>3. Flushing(q) => Flushing(q)'  BY <1>7
  <2>4. IsChain(z, q)'
    <3>1. IsChain(z, q)  BY <2>1 DEF ListOf
    <3> QED BY <3>1, <2>3, <1>8 DEF IsChain
  <2>5. ListOf(q, z)'  BY <2>1, <2>2, <2>4 DEF ListOf
  <2> QED BY <2>5
<1>11. \A u : Owned(u) /\ page[u] # p => Owned(u)'  BY <1>3, <1>7 DEF Owned
<1>12. ASSUME bypass' = bypass, Asking' = Asking PROVE LineOwners'
  BY <1>3, <1>5, <1>12 DEF Inv, TaskInv, LineOwners
<1> QED BY <1>3, <1>4, <1>5, <1>6, <1>9, <1>10, <1>11, <1>12 DEF CacheInv, ChainInv

\* An update of a page removes its placeholder, flushes its chain, or is
\* turned away.
LEMMA RefreshKeeps ==
  ASSUME Inv, NEW r \in Rams, Refresh(r)
  PROVE  Inv'
<1>0. PICK m, p, t : m = Head(ram_fifo[r]) /\ p = m.page /\ t = m.by
  OBVIOUS
<1>1. /\ Serves(r, "update")
      /\ UNCHANGED <<page, entry, ptw_fifo, bypass, walking, rsp_write, agg, answers>>
      /\ UNCHANGED <<request_fifo, inside_fifo, update_fifo, next_is_request, hash_in>>
      /\ \/ p \in DOMAIN line /\ ~line[p].is_req /\ line' = Without(line, p) /\ worker' = worker
         \/ /\ p \in DOMAIN line /\ line[p].is_req /\ MayRefresh(line[p], t) /\ line' = line
            /\ worker' = [worker EXCEPT ![r] = [at |-> "flush", by |-> t, page |-> p,
                                                result |-> m.result, cur |-> line[p].head]]
         \/ line' = line /\ worker' = worker
  BY <1>0 DEF Refresh, pipeVars, walkVars
<1>2. /\ m \in Message /\ RamOf(p) = r /\ Fifos' /\ Asking' = Asking /\ worker[r].at = "idle"
      /\ m \in Sending /\ Sending = Sending' \union {m}
  BY <1>0, <1>1, SameInside, ServeFifos DEF Inv
<1>3. p \in Pages /\ t \in Tasks /\ m.result \in Results  BY <1>0, <1>2, MessageFields
<1>4. LinesTyped /\ LineLimit  BY DEF Inv, CacheInv
<1>5. t \in Sent  BY <1>0, <1>2 DEF Sent, Updates
<1>6. \A u \in (Ptw \ bypass) \union Faulted : Owned(u) /\ u # t
  BY <1>5 DEF Inv, TaskInv, Owners, Places
<1>7. /\ CacheInv' /\ ChainInv' /\ Held' = Held /\ Entered' = Entered /\ LineOwners'
      /\ \A u \in (Ptw \ bypass) \union Faulted : Owned(u)'
  <2>1. CASE p \in DOMAIN line /\ ~line[p].is_req /\ line' = Without(line, p) /\ worker' = worker
    <3>1. /\ DOMAIN line' = DOMAIN line \ {p} /\ \A q \in DOMAIN line \ {p} : line'[q] = line[q]
          /\ line' = [q \in DOMAIN line' |-> line'[q]]
      BY <2>1 DEF Without
    <3>2. LinesTyped'  BY <3>1, <1>4 DEF LinesTyped
    <3>3. LineLimit'
      <4> SUFFICES ASSUME NEW q \in Rams PROVE Cardinality(LinesOf(q)') <= WAYS
        BY DEF LineLimit, LinesOf
      <4>1. LinesOf(q)' \in SUBSET LinesOf(q)  BY <3>1 DEF LinesOf
      <4>2. IsFiniteSet(LinesOf(q)) /\ Cardinality(LinesOf(q)) \in Nat  BY <1>4, LinesFinite
      <4>3. /\ IsFiniteSet(LinesOf(q)') /\ Cardinality(LinesOf(q)') <= Cardinality(LinesOf(q))
            /\ Cardinality(LinesOf(q)') \in Nat
        BY <4>1, <4>2, FS_Subset, FS_CardinalityType
      <4>4. Cardinality(LinesOf(q)) <= WAYS  BY <1>4 DEF LineLimit
      <4> QED BY <4>2, <4>3, <4>4, SizeAssumption
    <3>4. ReqPages' = ReqPages /\ \A q \in ReqPages : line'[q] = line[q]
      BY <2>1, <3>1 DEF ReqPages
    <3> QED BY <3>2, <3>3, <3>4, <2>1, <1>1, <1>2, <1>6, LinesApart
  <2>2. CASE /\ p \in DOMAIN line /\ line[p].is_req /\ MayRefresh(line[p], t) /\ line' = line
             /\ worker' = [worker EXCEPT ![r] = [at |-> "flush", by |-> t, page |-> p,
                                                 result |-> m.result, cur |-> line[p].head]]
    <3>1. p \in ReqPages  BY <2>2 DEF ReqPages
    <3>2. /\ CacheInv' /\ ChainInv' /\ Held' = Held /\ Entered' = Entered /\ LineOwners'
          /\ \A u : Owned(u) /\ page[u] # p => Owned(u)'
      BY <3>1, <2>2, <1>1, <1>2, <1>3, FlushStarts
    <3>3. \A u : Owned(u) /\ page[u] = p => u = t  BY <2>2 DEF MayRefresh, Owned
    <3> QED BY <3>2, <3>3, <1>6
  <2>3. CASE line' = line /\ worker' = worker
    <3>1. LinesTyped' /\ LineLimit' /\ ReqPages' = ReqPages
      BY <2>3, <1>4 DEF LinesTyped, LineLimit, LinesOf, ReqPages
    <3> QED BY <3>1, <2>3, <1>1, <1>2, <1>6, LinesApart
  <2> QED BY <2>1, <2>2, <2>3, <1>1
<1>8. TasksTyped'  BY <1>1 DEF Inv, TasksTyped
<1>9. /\ Groups' /\ Mains' = Mains /\ Awaited' = Awaited /\ Writes' = Writes
  BY <1>1, SameGroups DEF Inv, WalkInv
<1>10. WalkInv'  BY <1>1, <1>9 DEF Inv, WalkInv, WalksTyped, WalkedOnce, Limits
<1>11. Ptw' = Ptw /\ Sent' \subseteq Sent  BY <1>1, <1>2, <1>9 DEF Ptw, Sent, Updates
<1>12. TaskInv'  BY <1>1, <1>2, <1>7, <1>9, <1>11, TaskStays DEF Inv
<1> QED BY <1>2, <1>7, <1>8, <1>10, <1>12 DEF Inv

\* The tail of a chain, when its first entry was flushed.
LEMMA FlushedChain ==
  ASSUME NEW p, NEW s, ListOf(p, s), Len(s) # 1, Flushing(p)', HeadOf(p)' = s[2],
         Waiting(p)' = Waiting(p) \ {s[1]}, \A i \in Waiting(p) \ {s[1]} : entry'[i] = entry[i]
  PROVE  ListOf(p, Tail(s))'
<1> DEFINE u == Tail(s)
           n == Len(s)
<1>1. s \in Seq(Idx) /\ s # << >> /\ IsInjective(s) /\ ToSet(s) = Waiting(p) /\ IsChain(s, p)
  BY DEF ListOf
<1>2. n \in Nat \ {0} /\ n # 1 /\ DOMAIN s = 1 .. n /\ Head(s) = s[1]  BY <1>1, NonEmpty
<1>3. /\ u \in Seq(Idx) /\ ToSet(s) = {s[1]} \union ToSet(u) /\ IsInjective(u) /\ s[1] \notin ToSet(u)
  BY <1>1, <1>2, TailSet
<1>4. /\ Len(u) = n - 1 /\ DOMAIN u = 1 .. (n - 1) /\ \A k \in 1 .. (n - 1) : u[k] = s[k + 1]
  BY <1>1, <1>2
<1>5. n = Len(s)  OBVIOUS
<1> HIDE DEF u, n
<1>6. ToSet(u) = Waiting(p)'  BY <1>1, <1>3
<1>7. 1 \in DOMAIN u /\ u[1] = s[2] /\ u # << >>
  <2>1. 1 \in DOMAIN u /\ u[1] = s[1 + 1]  BY <1>2, <1>4
  <2> QED BY <2>1
<1>8. ASSUME NEW k \in DOMAIN u
      PROVE  entry'[u[k]].next = IF k = Len(u) THEN NoIdx ELSE u[k + 1]
  <2>1. k \in 1 .. (n - 1) /\ k + 1 \in 1 .. n /\ u[k] = s[k + 1] /\ (k = n - 1 <=> k + 1 = n)
    BY <1>2, <1>4, <1>8
  <2>2. u[k] \in Waiting(p) \ {s[1]}
    <3>1. u[k] \in ToSet(u)  BY <1>8 DEF ToSet
    <3> QED BY <3>1, <1>1, <1>3
  <2>3. entry[s[k + 1]].next = IF k + 1 = n THEN NoIdx ELSE s[(k + 1) + 1]
    BY <2>1, <1>1, <1>2, <1>5 DEF IsChain
  <2>4. k # n - 1 => u[k + 1] = s[(k + 1) + 1]
    <3>1. k # n - 1 => k + 1 \in 1 .. (n - 1)  BY <2>1, <1>2
    <3> QED BY <3>1, <1>4
  <2> QED BY <2>1, <2>2, <2>3, <2>4, <1>4
<1>9. IsChain(u, p)'  BY <1>7, <1>8 DEF IsChain
<1> QED BY <1>3, <1>6, <1>7, <1>9 DEF ListOf, u

\* One entry of a chain is freed and its task is forwarded.
LEMMA FlushEntryKeeps ==
  ASSUME Inv, NEW r \in Rams, FlushEntry(r)
  PROVE  Inv'
<1>0. PICK i, t, p, res, nxt : /\ i = worker[r].cur /\ t = entry[i].task /\ p = worker[r].page
                               /\ res = worker[r].result /\ nxt = entry[i].next
  OBVIOUS
<1>1. /\ worker[r].at = "flush" /\ entry' = [entry EXCEPT ![i] = FreeEntry]
      /\ answers' = [answers EXCEPT ![t] = Append(answers[t], res)]
      /\ nxt = NoIdx => line' = Without(line, p) /\ worker' = [worker EXCEPT ![r] = IdleWorker]
      /\ nxt # NoIdx => worker' = [worker EXCEPT ![r].cur = nxt] /\ line' = line
      /\ UNCHANGED <<page, pipeVars, ram_fifo, ptw_fifo, bypass, walking, rsp_write, agg>>
      /\ UNCHANGED <<update_fifo, next_is_request>>
  BY <1>0 DEF FlushEntry, Forward, pipeVars, walkVars
<1>2. /\ p \in ReqPages /\ RamOf(p) = r /\ p \in Pages /\ Flushing(p) /\ HeadOf(p) = i
      /\ worker \in [Rams -> WorkerState] /\ entry \in [Idx -> Entry] /\ LinesTyped /\ LineLimit
      /\ \A q \in Rams : worker[q].at = "flush" => worker[q].cur \in Idx /\ worker[q].page \in Pages
      /\ res \in Results
  BY <1>0, <1>1 DEF Inv, CacheInv, Flushes, WorkersTyped, Flushing, HeadOf, WorkerState
<1>3. PICK s : ListOf(p, s)  BY <1>2 DEF Inv, ChainInv, Chains
<1>4. /\ Len(s) \in Nat \ {0} /\ DOMAIN s = 1 .. Len(s) /\ s[1] = i /\ ToSet(s) = Waiting(p)
      /\ s \in Seq(Idx) /\ i \in Waiting(p)
      /\ nxt = IF 1 = Len(s) THEN NoIdx ELSE s[2]
  <2>1. s \in Seq(Idx) /\ s # << >> /\ ToSet(s) = Waiting(p) /\ s[1] = HeadOf(p) /\ IsChain(s, p)
    BY <1>3 DEF ListOf, IsChain
  <2>2. Len(s) \in Nat \ {0} /\ DOMAIN s = 1 .. Len(s)  BY <2>1, NonEmpty
  <2>3. 1 \in DOMAIN s  BY <2>2
  <2>4. entry[s[1]].next = IF 1 = Len(s) THEN NoIdx ELSE s[1 + 1]  BY <2>1, <2>3 DEF IsChain
  <2>5. s[1] \in ToSet(s)  BY <2>3 DEF ToSet
  <2> QED BY <2>1, <2>2, <2>4, <2>5, <1>0, <1>2
<1>5. /\ i \in Idx /\ t \in Tasks /\ t # NoTask /\ page[t] = p /\ t \in Entered
      /\ \A j \in Idx \ {i} : entry[j].task # t
  <2>1. i \in Idx /\ t # NoTask /\ page[t] = p  BY <1>0, <1>4 DEF Waiting
  <2>2. t \in Entered  BY <2>1, <1>0 DEF Entered
  <2>3. t \in Tasks  BY <2>1, <1>0, <1>2 DEF Entry
  <2>4. \A j \in Idx \ {i} : entry[j].task # t  BY <2>1, <1>0 DEF Inv, ChainInv, Entries
  <2> QED BY <2>1, <2>2, <2>3, <2>4
<1>6. /\ ~Owned(t) /\ answers[t] = << >> /\ t \notin Pending
  <2>1. ~Owned(t)  BY <1>2, <1>5 DEF Owned
  <2>2. answers[t] = << >>  BY <2>1, <1>5 DEF Faulted, Inv, TaskInv, Owners
  <2>3. t \notin Ptw  BY <2>1, <1>5 DEF Inv, TaskInv, Owners, Places
  <2> QED BY <2>1, <2>2, <2>3, <1>5 DEF Pending, Inv, TaskInv, Places
<1>7. /\ entry' \in [Idx -> Entry] /\ entry'[i].task = NoTask /\ \A j \in Idx \ {i} : entry'[j] = entry[j]
  <2>1. FreeEntry \in Entry /\ FreeEntry.task = NoTask  BY DEF FreeEntry, Entry
  <2> QED BY <2>1, <1>1, <1>2, <1>5
<1>8. /\ answers' \in [Tasks -> Seq(Results)] /\ Len(answers'[t]) = 1
      /\ \A u \in Tasks \ {t} : answers'[u] = answers[u]
  <2>1. Append(answers[t], res) \in Seq(Results) /\ Len(Append(answers[t], res)) = 1
    BY <1>2, <1>6
  <2>2. answers \in [Tasks -> Seq(Results)]  BY DEF Inv, TasksTyped
  <2> QED BY <2>1, <2>2, <1>1, <1>5
<1>9. Entered' = Entered \ {t}
  <2>1. /\ \A u : u \in Entered' <=> u # NoTask /\ \E j \in Idx : entry'[j].task = u
        /\ \A u : u \in Entered <=> u # NoTask /\ \E j \in Idx : entry[j].task = u
    BY DEF Entered
  <2>2. \A u : u # NoTask /\ (\E j \in Idx : entry'[j].task = u)
               <=> u # NoTask /\ u # t /\ (\E j \in Idx : entry[j].task = u)
    BY <1>0, <1>5, <1>7
  <2> QED BY <2>1, <2>2
<1>10. /\ Waiting(p)' = Waiting(p) \ {i} /\ \A q : q # p => Waiting(q)' = Waiting(q)
       /\ \A q : q # p => i \notin Waiting(q)
  <2>1. \A q : Waiting(q)' = Waiting(q) \ {i}  BY <1>1, <1>7 DEF Waiting
  <2>2. \A q : q # p => i \notin Waiting(q)  BY <1>0, <1>5 DEF Waiting
  <2> QED BY <2>1, <2>2
<1>11. /\ worker' \in [Rams -> WorkerState] /\ \A q \in Rams \ {r} : worker'[q] = worker[q]
       /\ nxt = NoIdx => worker'[r].at = "idle"
       /\ nxt # NoIdx => /\ worker'[r].at = "flush" /\ worker'[r].page = p /\ worker'[r].cur = nxt
                         /\ nxt \in Idx
  <2>1. CASE nxt = NoIdx
    <3>1. worker' = [worker EXCEPT ![r] = IdleWorker]  BY <2>1, <1>1
    <3> QED BY <3>1, <2>1, <1>2, IdleWorkerType
  <2>2. CASE nxt # NoIdx
    <3>1. nxt \in Idx
      <4>1. nxt = s[2] /\ 2 \in DOMAIN s  BY <2>2, <1>4
      <4> QED BY <4>1, <1>4
    <3>2. worker' = [worker EXCEPT ![r].cur = nxt]  BY <2>2, <1>1
    <3>3. worker[r] \in WorkerState  BY <1>2
    <3>4. worker' = [worker EXCEPT ![r] = [worker[r] EXCEPT !.cur = nxt]]  BY <3>2
    <3> DEFINE w == [worker[r] EXCEPT !.cur = nxt]
    <3>5. w \in WorkerState /\ w.at = "flush" /\ w.page = p /\ w.cur = nxt
      BY <3>1, <3>3, <1>0, <1>1 DEF WorkerState
    <3>6. worker' = [worker EXCEPT ![r] = w]  BY <3>4
    <3> HIDE DEF w
    <3> QED BY <3>1, <3>5, <3>6, <2>2, <1>2
  <2> QED BY <2>1, <2>2
<1>12. /\ nxt = NoIdx => DOMAIN line' = DOMAIN line \ {p} /\ Waiting(p) = {i}
       /\ nxt # NoIdx => DOMAIN line' = DOMAIN line
       /\ \A q \in DOMAIN line' : line'[q] = line[q]
       /\ line' = [q \in DOMAIN line' |-> line'[q]]
  <2>1. CASE nxt = NoIdx
    <3>1. line' = Without(line, p)  BY <2>1, <1>1
    <3>2. 1 = Len(s)
      <4>1. 2 \in DOMAIN s => s[2] \in Idx  BY <1>4
      <4>2. 1 # Len(s) => 2 \in DOMAIN s  BY <1>4
      <4> QED BY <4>1, <4>2, <2>1, <1>4, Numbers
    <3>3. Waiting(p) = {i}
      <4>1. DOMAIN s = {1}  BY <3>2, <1>4
      <4> QED BY <4>1, <1>4 DEF ToSet
    <3> QED BY <3>1, <3>3, <2>1 DEF Without
  <2>2. CASE nxt # NoIdx
    <3>1. line' = line  BY <2>2, <1>1
    <3>2. line = [q \in DOMAIN line |-> line[q]]  BY <1>2 DEF LinesTyped
    <3> QED BY <3>1, <3>2, <2>2
  <2> QED BY <2>1, <2>2
<1>13. /\ nxt = NoIdx => ReqPages' = ReqPages \ {p}
       /\ nxt # NoIdx => ReqPages' = ReqPages
  BY <1>12 DEF ReqPages
<1>14. LinesTyped'  BY <1>2, <1>12 DEF LinesTyped
<1>15. LineLimit'
  <2> SUFFICES ASSUME NEW q \in Rams PROVE Cardinality(LinesOf(q)') <= WAYS
    BY DEF LineLimit, LinesOf
  <2>1. LinesOf(q)' \in SUBSET LinesOf(q)  BY <1>12 DEF LinesOf
  <2>2. IsFiniteSet(LinesOf(q)) /\ Cardinality(LinesOf(q)) \in Nat  BY <1>2, LinesFinite
  <2>3. /\ IsFiniteSet(LinesOf(q)') /\ Cardinality(LinesOf(q)') <= Cardinality(LinesOf(q))
        /\ Cardinality(LinesOf(q)') \in Nat
    BY <2>1, <2>2, FS_Subset, FS_CardinalityType
  <2>4. Cardinality(LinesOf(q)) <= WAYS  BY <1>2 DEF LineLimit
  <2> QED BY <2>2, <2>3, <2>4, SizeAssumption
<1>16. /\ \A q : q # p => (Flushing(q)' <=> Flushing(q))
       /\ nxt # NoIdx => Flushing(p)'
  <2>1. \A q : q # p => ~(worker[r].at = "flush" /\ worker[r].page = q)
                        /\ ~(worker'[r].at = "flush" /\ worker'[r].page = q)
    BY <1>0, <1>11
  <2>2. \A q : q # p => (Flushing(q)' <=> Flushing(q))  BY <2>1, <1>11 DEF Flushing
  <2> QED BY <2>2, <1>11 DEF Flushing
<1>17. \A q \in ReqPages' \ {p} : HeadOf(q)' = HeadOf(q)
  <2> SUFFICES ASSUME NEW q \in ReqPages' \ {p} PROVE HeadOf(q)' = HeadOf(q)
    OBVIOUS
  <2>1. line'[q] = line[q]  BY <1>12 DEF ReqPages
  <2>2. CASE Flushing(q)
    <3>1. PICK z \in Rams : worker[z].at = "flush" /\ worker[z].page = q  BY <2>2 DEF Flushing
    <3>2. z = RamOf(q) /\ z # r  BY <3>1, <1>0 DEF Inv, CacheInv, Flushes
    <3>3. worker'[RamOf(q)] = worker[RamOf(q)]  BY <3>1, <3>2, <1>11
    <3> QED BY <3>3, <2>2, <1>16 DEF HeadOf
  <2>3. CASE ~Flushing(q)  BY <2>1, <2>3, <1>16 DEF HeadOf
  <2> QED BY <2>2, <2>3
<1>18. /\ WorkersTyped' /\ Flushes' /\ HeldOnce' /\ Held' = Held
  <2>1. \A q \in Rams : worker'[q].at = "flush" => worker'[q].cur \in Idx /\ worker'[q].page \in Pages
    BY <1>2, <1>11
  <2>2. \A q \in Rams : (worker'[q].at = "full" <=> worker[q].at = "full")
                        /\ (worker[q].at = "full" => worker'[q] = worker[q])
    BY <1>1, <1>11
  <2>3. WorkersTyped'  BY <2>1, <2>2, <1>11 DEF Inv, CacheInv, WorkersTyped
  <2>4. HeldOnce' /\ Held' = Held  BY <2>2 DEF Inv, CacheInv, HeldOnce, Held
  <2>5. Flushes'
    <3> SUFFICES ASSUME NEW q \in Rams, worker'[q].at = "flush"
                 PROVE  worker'[q].page \in ReqPages' /\ RamOf(worker'[q].page) = q
      BY DEF Flushes
    <3>1. CASE q = r  BY <3>1, <1>2, <1>11, <1>13
    <3>2. CASE q # r
      <4>1. worker'[q] = worker[q]  BY <3>2, <1>11
      <4>2. worker[q].page \in ReqPages /\ RamOf(worker[q].page) = q
        BY <4>1 DEF Inv, CacheInv, Flushes
      <4> QED BY <4>1, <4>2, <3>2, <1>2, <1>13
    <3> QED BY <3>1, <3>2
  <2> QED BY <2>3, <2>4, <2>5
<1>19. CacheInv'  BY <1>7, <1>14, <1>15, <1>18 DEF CacheInv
<1>20. Entries'
  <2>1. ASSUME NEW j \in Idx, entry'[j].task # NoTask
        PROVE  j # i /\ entry'[j] = entry[j] /\ page'[entry'[j].task] \in ReqPages'
    <3>1. j # i /\ entry'[j] = entry[j]  BY <2>1, <1>7
    <3>2. page[entry[j].task] \in ReqPages  BY <3>1, <2>1 DEF Inv, ChainInv, Entries
    <3>3. nxt = NoIdx => page[entry[j].task] # p
      <4>1. page[entry[j].task] = p => j \in Waiting(p)  BY <3>1, <2>1 DEF Waiting
      <4> QED BY <4>1, <3>1, <1>12
    <3> QED BY <3>1, <3>2, <3>3, <1>1, <1>13
  <2>2. ASSUME NEW j \in Idx, NEW k \in Idx, entry'[j].task = entry'[k].task, entry'[j].task # NoTask
        PROVE  j = k
    <3>1. entry'[j] = entry[j] /\ entry'[k] = entry[k]  BY <2>1, <2>2
    <3> QED BY <3>1, <2>2 DEF Inv, ChainInv, Entries
  <2> QED BY <2>1, <2>2 DEF Entries
<1>21. Chains'
  <2> SUFFICES ASSUME NEW q \in ReqPages' PROVE (\E z : ListOf(q, z))'
    BY DEF Chains
  <2>1. CASE q = p
    <3>1. nxt # NoIdx  BY <2>1, <1>13
    <3>2. nxt = s[2] /\ Len(s) # 1  BY <3>1, <1>4
    <3>3. HeadOf(p)' = s[2]  BY <3>1, <3>2, <1>2, <1>11, <1>16 DEF HeadOf
    <3>4. \A j \in Waiting(p) \ {s[1]} : entry'[j] = entry[j]  BY <1>4, <1>7 DEF Waiting
    <3>5. Waiting(p)' = Waiting(p) \ {s[1]} /\ Flushing(p)'  BY <3>1, <1>4, <1>10, <1>16
    <3>6. ListOf(p, Tail(s))'  BY <3>2, <3>3, <3>4, <3>5, <1>3, FlushedChain
    <3> QED BY <3>6, <2>1
  <2>2. CASE q # p
    <3>1. q \in ReqPages  BY <2>2, <1>13
    <3>2. PICK z : ListOf(q, z)  BY <3>1 DEF Inv, ChainInv, Chains
    <3>3. \A j \in Waiting(q) : entry'[j] = entry[j]  BY <2>2, <1>7, <1>10 DEF Waiting
    <3>4. ListOf(q, z)'  BY <2>2, <3>2, <3>3, <1>10, <1>16, <1>17, ListStays
    <3> QED BY <3>4
  <2> QED BY <2>1, <2>2
<1>22. Fifos' /\ Asking' = Asking /\ Sending' = Sending  BY <1>1, SameFifos DEF Inv
<1>23. TasksTyped'  BY <1>1, <1>8 DEF Inv, TasksTyped
<1>24. /\ Groups' /\ Mains' = Mains /\ Awaited' = Awaited /\ Writes' = Writes
  BY <1>1, SameGroups DEF Inv, WalkInv
<1>25. WalkInv'  BY <1>1, <1>24 DEF Inv, WalkInv, WalksTyped, WalkedOnce, Limits
<1>26. Ptw' = Ptw /\ Sent' = Sent /\ Arrived' = Arrived
  BY <1>1, <1>22, <1>24, SentChanges DEF Ptw, Arrived
<1>27. Places'  BY <1>1, <1>9, <1>18, <1>22, <1>24, <1>26 DEF Inv, TaskInv, Places
<1>28. Silent'
  <2>1. Pending' = Pending  BY <1>18, <1>22, <1>24, <1>26 DEF Pending
  <2>2. Pending \subseteq Tasks
    BY DEF Pending, Inv, Fifos, TaskInv, Places, Arrived, Awaited, Sent, Mains
  <2>3. \A u \in Tasks : Len(answers'[u]) <= 1
    <3> TAKE u \in Tasks
    <3>1. CASE u = t  BY <3>1, <1>8
    <3>2. CASE u # t  BY <3>2, <1>8 DEF Inv, TaskInv, Silent
    <3> QED BY <3>1, <3>2
  <2>4. \A u \in Pending : answers'[u] = << >>
    BY <2>2, <1>6, <1>8 DEF Inv, TaskInv, Silent
  <2> QED BY <2>1, <2>3, <2>4 DEF Silent
<1>29. \A u : Owned(u) => Owned(u)'
  <2> SUFFICES ASSUME NEW u, Owned(u) PROVE Owned(u)'  OBVIOUS
  <2>1. page[u] # p  BY <1>2 DEF Owned
  <2>2. page[u] \in ReqPages' /\ (Flushing(page[u])' <=> Flushing(page[u])) /\ page'[u] = page[u]
    BY <2>1, <1>1, <1>13, <1>16 DEF Owned
  <2>3. line'[page[u]] = line[page[u]]  BY <2>2, <1>12 DEF ReqPages
  <2> QED BY <2>1, <2>2, <2>3, <1>16 DEF Owned
<1>30. Faulted' \subseteq Faulted
  <2>1. Entered \subseteq Tasks  BY DEF Inv, TaskInv, Places, Arrived
  <2> QED BY <2>1, <1>8, <1>9 DEF Faulted
<1>31. Owners'
  BY <1>1, <1>26, <1>29, <1>30 DEF Inv, TaskInv, Owners
<1>32. LineOwners'
  <2>1. \A q \in ReqPages' : q \in ReqPages /\ line'[q] = line[q]
    BY <1>12, <1>13 DEF ReqPages
  <2> QED BY <2>1, <1>1, <1>18, <1>22 DEF Inv, TaskInv, LineOwners
<1> QED BY <1>19, <1>20, <1>21, <1>22, <1>23, <1>25, <1>27, <1>28, <1>31, <1>32 DEF Inv, ChainInv, TaskInv

-----------------------------------------------------------------------------
(* The invariant holds throughout.                                          *)

LEMMA InitInv == Init => Inv
<1> SUFFICES ASSUME Init PROVE Inv
  OBVIOUS
<1>1. /\ page = [t \in Tasks |-> NoPage] /\ answers = [t \in Tasks |-> << >>]
      /\ request_fifo = << >> /\ inside_fifo = << >> /\ update_fifo = << >> /\ hash_in = << >>
      /\ rsp_write = << >> /\ agg = << >> /\ ptw_fifo = << >> /\ line = << >>
      /\ ram_fifo = [r \in Rams |-> << >>] /\ worker = [r \in Rams |-> IdleWorker]
      /\ entry = [i \in Idx |-> FreeEntry] /\ bypass = {} /\ walking = {} /\ next_is_request = TRUE
  BY DEF Init
<1>2. << >> \in Seq(Message) /\ << >> \in Seq(Results) /\ << >> \in Seq(Tasks) /\ << >> \in Seq(GroupRecord)
      /\ Len(<< >>) = 0 /\ DOMAIN << >> = {}
  OBVIOUS
<1>3. TasksTyped  BY <1>1, <1>2 DEF TasksTyped
<1>4. \A r \in Rams : ram_fifo[r] = << >>  BY <1>1
<1>5. InRam = {} /\ AskersInRam = {} /\ Sending = {} /\ Asking = {}
  BY <1>1, <1>4, AskersEmpty DEF InRam, AskersInRam, Sending, Asking
<1>6. Fifos
  <2>1. FifosTyped  BY <1>1, <1>2 DEF FifosTyped
  <2>2. Routing /\ OwnPages  BY <1>1, <1>4, <1>5, AskersEmpty DEF Routing, OwnPages
  <2>3. AskedOnce  BY <1>1, <1>4, <1>5, AskersEmpty DEF AskedOnce
  <2> QED BY <2>1, <2>2, <2>3, <1>5 DEF Fifos
<1>7. Mains = {} /\ Awaited = {} /\ Writes = {} /\ Sent = {} /\ Ptw = {} /\ ToSet(agg) = {}
  BY <1>1, <1>5, AskersEmpty DEF Mains, Awaited, Writes, Sent, Updates, Ptw
<1>8. WalkInv
  <2>1. WalksTyped  BY <1>1, <1>2 DEF WalksTyped
  <2>2. WalkedOnce  BY <1>1, <1>2 DEF WalkedOnce, IsInjective
  <2>3. Groups  BY <1>1, <1>2, <1>7 DEF Groups
  <2>4. Limits  BY <1>1, <1>2, FS_EmptySet, SizeAssumption DEF Limits
  <2> QED BY <2>1, <2>2, <2>3, <2>4 DEF WalkInv
<1>9. ReqPages = {} /\ Held = {} /\ Entered = {} /\ \A r : LinesOf(r) = {}
  BY <1>1, <1>2, IdleWorkerType DEF ReqPages, Held, Entered, LinesOf, FreeEntry
<1>10. CacheInv
  <2>1. LinesTyped  BY <1>1, <1>2 DEF LinesTyped
  <2>2. WorkersTyped /\ HeldOnce /\ Flushes
    BY <1>1, IdleWorkerType DEF WorkersTyped, HeldOnce, Flushes
  <2>3. LineLimit  BY <1>9, FS_EmptySet, SizeAssumption DEF LineLimit
  <2>4. FreeEntry \in Entry  BY DEF FreeEntry, Entry
  <2>5. entry \in [Idx -> Entry]  BY <2>4, <1>1
  <2> QED BY <2>1, <2>2, <2>3, <2>5 DEF CacheInv
<1>11. ChainInv  BY <1>1, <1>9 DEF ChainInv, Entries, Chains, FreeEntry
<1>12. TaskInv
  <2>1. Places  BY <1>1, <1>5, <1>7, <1>9 DEF Places
  <2>2. Silent
    <3>1. Pending \subseteq Tasks  BY <1>5, <1>7, <1>9 DEF Pending
    <3> QED BY <3>1, <1>1, <1>2 DEF Silent
  <2>3. Owners /\ LineOwners  BY <1>1, <1>7, <1>9 DEF Owners, LineOwners, Faulted
  <2> QED BY <2>1, <2>2, <2>3 DEF TaskInv
<1> QED BY <1>3, <1>6, <1>8, <1>10, <1>11, <1>12 DEF Inv

LEMMA StutterKeeps ==
  ASSUME Inv, UNCHANGED vars
  PROVE  Inv'
<1>1. /\ UNCHANGED <<page, pipeVars, ram_fifo, rsp_write, line, entry, worker, agg, bypass, answers>>
      /\ UNCHANGED <<next_is_request, ptw_fifo, walking, update_fifo>>
  BY DEF vars, pipeVars, cacheVars, walkVars
<1>2. Fifos' /\ Asking' = Asking /\ Sending' = Sending  BY <1>1, SameFifos DEF Inv
<1>3. TasksTyped'  BY <1>1 DEF Inv, TasksTyped
<1>4. /\ Groups' /\ Mains' = Mains /\ Awaited' = Awaited /\ Writes' = Writes
  BY <1>1, SameGroups DEF Inv, WalkInv
<1>5. WalkInv'  BY <1>1, <1>4 DEF Inv, WalkInv, WalksTyped, WalkedOnce, Limits
<1>6. CacheInv' /\ Held' = Held /\ Entered' = Entered /\ ChainInv'
  BY <1>1, SameCache DEF Inv, ChainInv
<1>7. Sent' = Sent  BY <1>2, <1>4, SentChanges
<1>8. Ptw' = Ptw  BY <1>1 DEF Ptw
<1>9. LineOwners' /\ \A u \in (Ptw \ bypass) \union Faulted : Owned(u)'
  BY <1>1, <1>2, <1>6, SameLines DEF Inv, TaskInv, Owners
<1>10. TaskInv'  BY <1>1, <1>2, <1>4, <1>6, <1>7, <1>8, <1>9, TaskStays DEF Inv
<1> QED BY <1>2, <1>3, <1>5, <1>6, <1>10 DEF Inv

LEMMA InvKept == Inv /\ [Next]_vars => Inv'
<1> SUFFICES ASSUME Inv, [Next]_vars PROVE Inv'
  OBVIOUS
<1>1. ASSUME NEW t \in Tasks, NEW p \in Pages, Arrive(t, p) PROVE Inv'  BY <1>1, ArriveKeeps
<1>2. CASE Schedule \/ Dispatch  BY <1>2, PassingKeeps
<1>3. ASSUME NEW r \in Rams, Worker(r) PROVE Inv'
  <2>1. CASE Suspend(r)  BY <2>1, SuspendKeeps
  <2>2. CASE Upgrade(r)  BY <2>2, UpgradeKeeps
  <2>3. CASE Own(r)  BY <2>3, OwnKeeps
  <2>4. CASE ConflictBypass(r)  BY <2>4, BypassKeeps
  <2>5. CASE BufferFull(r)  BY <2>5, BypassKeeps, WaitKeeps
  <2>6. CASE BypassAfterWait(r)  BY <2>6, AfterWaitKeeps
  <2>7. CASE Placehold(r)  BY <2>7, PlaceholdKeeps
  <2>8. CASE Refresh(r)  BY <2>8, RefreshKeeps
  <2>9. CASE FlushEntry(r)  BY <2>9, FlushEntryKeeps
  <2> QED BY <2>1, <2>2, <2>3, <2>4, <2>5, <2>6, <2>7, <2>8, <2>9, <1>3 DEF Worker
<1>4. CASE PtwStart  BY <1>4, PtwStartKeeps
<1>5. ASSUME NEW t \in Tasks, WalkEnds(t) PROVE Inv'
  BY <1>5, GroupKeeps, AloneKeeps DEF WalkEnds
<1>6. CASE RspWrite \/ AggWrite  BY <1>6, WritingKeeps
<1>7. CASE AggBypass  BY <1>7, AggBypassKeeps
<1>8. CASE UNCHANGED vars  BY <1>8, StutterKeeps
<1> QED BY <1>1, <1>2, <1>3, <1>4, <1>5, <1>6, <1>7, <1>8 DEF Next

LEMMA AlwaysInv == Spec => []Inv
BY InitInv, InvKept, PTL DEF Spec

\* Every reachable state is well typed: the FIFOs hold messages of real tasks and
\* pages, every request line has a head in the buffer, no RAM of the dedup cache
\* holds more lines than it has ways although a line is inserted over a placeholder,
\* and neither the FIFO of updates nor the PTW takes more than it has room for.
THEOREM TypeCorrect == Spec => []TypeOK
<1>1. Inv => TypeOK
  <2> SUFFICES ASSUME Inv PROVE TypeOK
    OBVIOUS
  <2>1. TasksTyped /\ FifosTyped /\ WalksTyped /\ Limits /\ LinesTyped /\ WorkersTyped /\ LineLimit
        /\ entry \in [Idx -> Entry]
    BY DEF Inv, Fifos, WalkInv, CacheInv
  <2>2. \A r \in Rams : worker[r].at \in {"idle", "full", "flush"}
    BY <2>1 DEF WorkersTyped, WorkerState
  <2> QED BY <2>1, <2>2 DEF TypeOK, TasksTyped, FifosTyped, WalksTyped, Limits, LinesTyped,
          WorkersTyped, LineLimit, Entry
<1> QED BY <1>1, AlwaysInv, PTL

\* The chain that hangs from a line runs through exactly the buffer entries of the
\* tasks that wait for its page, each once, and ends at the recorded tail, whatever
\* suspensions, upgrades, refreshes and interleaved flushes it went through
\* (cache_subsystem.cpp:2305-2371); no entry is lost, and none holds a task that was
\* forwarded unless its page faulted.
THEOREM ChainsIntact == Spec => []ChainsWellFormed
<1>1. Inv => ChainsWellFormed
  <2> SUFFICES ASSUME Inv PROVE ChainsWellFormed
    OBVIOUS
  <2>1. ASSUME NEW p \in ReqPages
        PROVE  \E s \in [1 .. Cardinality(Waiting(p)) -> Waiting(p)] :
                  ToSet(s) = Waiting(p) /\ s # << >> /\ IsChain(s, p)
    <3>1. PICK s : ListOf(p, s)  BY DEF Inv, ChainInv, Chains
    <3>2. /\ s \in Seq(Idx) /\ s # << >> /\ IsInjective(s) /\ ToSet(s) = Waiting(p) /\ IsChain(s, p)
      BY <3>1 DEF ListOf
    <3>3. Len(s) \in Nat \ {0} /\ DOMAIN s = 1 .. Len(s)  BY <3>2, NonEmpty
    <3>4. s \in [1 .. Len(s) -> Waiting(p)] /\ \A i \in Waiting(p) : \E k \in 1 .. Len(s) : s[k] = i
      BY <3>2, <3>3 DEF ToSet
    <3>5. ExistsBijection(1 .. Len(s), Waiting(p))
      BY <3>2, <3>4 DEF ExistsBijection, Bijection, Injection, Surjection
    <3>6. Cardinality(Waiting(p)) = Len(s)  BY <3>3, <3>5, FS_CountingElements
    <3> QED BY <3>2, <3>4, <3>6
  <2>2. ASSUME NEW i \in Idx \ FreeIdx
        PROVE  /\ page[entry[i].task] \in ReqPages
               /\ page[entry[i].task] \notin Unmapped => answers[entry[i].task] = << >>
    <3>1. entry[i].task # NoTask /\ entry[i].task \in Entered  BY DEF FreeIdx, Entered
    <3> QED BY <3>1 DEF Inv, ChainInv, Entries, TaskInv, Owners, Faulted
  <2> QED BY <2>1, <2>2 DEF ChainsWellFormed
<1> QED BY <1>1, AlwaysInv, PTL

\* No task is forwarded twice: not through its chain and directly after a bypass or a
\* fault, not through two chains and not by its walk and its group
\* (iommu_perf_ptw.cc:2612, 2286-2289).
THEOREM ForwardedOnce == Spec => []AnsweredOnce
<1>1. Inv => AnsweredOnce  BY DEF Inv, TaskInv, Silent, AnsweredOnce
<1> QED BY <1>1, AlwaysInv, PTL

\* A task is not forwarded, and so not deleted, while its walk uses it or the group
\* that will forward it waits for its flush (cache_subsystem.cpp:2612-2628).
THEOREM TaskOutlives == Spec => []TaskOutlivesItsWalk
<1>1. Inv => TaskOutlivesItsWalk
  BY DEF Inv, TaskInv, Silent, Pending, Ptw, Awaited, TaskOutlivesItsWalk
<1> QED BY <1>1, AlwaysInv, PTL

-----------------------------------------------------------------------------
(* A task that went around the cache is not forgotten, in the two-stage     *)
(* mode: one whose page is mapped is in the PTW, or its group forwards it.  *)

Turned == \A t \in bypass : answers[t] = << >> /\ page[t] \notin Unmapped => t \in Ptw \union Awaited

LEMMA AppendedSet ==
  ASSUME NEW S, NEW s \in Seq(S), NEW e
  PROVE  ToSet(Append(s, e)) = ToSet(s) \union {e}
<1>1. s \in Seq(S \union {e})  BY SeqMonotone
<1> QED BY <1>1, AppendSet

LEMMA TurnedStays ==
  ASSUME Turned, \A t \in bypass' : t \in bypass \/ t \in Ptw',
         \A t \in bypass : page'[t] = page[t] /\ (answers'[t] = << >> => answers[t] = << >>),
         \A t \in bypass : t \in Ptw \union Awaited =>
           t \in Ptw' \union Awaited' \/ answers'[t] # << >> \/ page[t] \in Unmapped
  PROVE  Turned'
BY DEF Turned

LEMMA BypassArrived == Inv => bypass \subseteq Arrived /\ Arrived \subseteq Tasks
BY DEF Inv, TaskInv, Places, Arrived

LEMMA TurnedKept == TwoStage /\ Inv /\ Turned /\ [Next]_vars => Turned'
<1> SUFFICES ASSUME TwoStage, Inv, Turned, [Next]_vars PROVE Turned'
  OBVIOUS
<1>0. bypass \subseteq Arrived /\ Arrived \subseteq Tasks /\ answers \in [Tasks -> Seq(Results)]
      /\ page \in [Tasks -> Pages \union {NoPage}]
  BY BypassArrived DEF Inv, TasksTyped
<1>1. ASSUME UNCHANGED <<page, ptw_fifo, bypass, walking, agg, answers>> PROVE Turned'
  <2>1. Ptw' = Ptw /\ Awaited' = Awaited  BY <1>1 DEF Ptw, Awaited
  <2> QED BY <2>1, <1>1, TurnedStays
<1>2. ASSUME NEW t \in Tasks, NEW p \in Pages, Arrive(t, p) PROVE Turned'
  <2>1. /\ page[t] = NoPage /\ page' = [page EXCEPT ![t] = p]
        /\ UNCHANGED <<ptw_fifo, bypass, walking, agg, answers>>
    BY <1>2 DEF Arrive, walkVars
  <2>2. Ptw' = Ptw /\ Awaited' = Awaited  BY <2>1 DEF Ptw, Awaited
  <2>3. \A u \in bypass : page'[u] = page[u]  BY <2>1, <1>0 DEF Arrived
  <2> QED BY <2>1, <2>2, <2>3, TurnedStays
<1>3. ASSUME NEW t, GoAround(t), UNCHANGED <<page, walking, agg, answers>> PROVE Turned'
  <2>1. bypass' = bypass \union {t} /\ ptw_fifo' = Append(ptw_fifo, t)  BY <1>3 DEF GoAround
  <2>2. Awaited' = Awaited  BY <1>3 DEF Awaited
  <2>3. ToSet(ptw_fifo') = ToSet(ptw_fifo) \union {t}
    BY <2>1, AppendedSet DEF Inv, WalkInv, WalksTyped
  <2>4. Ptw' = Ptw \union {t}  BY <2>3, <1>3 DEF Ptw
  <2> QED BY <2>1, <2>2, <2>4, <1>3, TurnedStays
<1>4. ASSUME NEW r \in Rams, Worker(r) PROVE Turned'
  <2>1. CASE Own(r)
    <3>1. /\ ptw_fifo' = Append(ptw_fifo, Head(ram_fifo[r]).by)
          /\ UNCHANGED <<page, bypass, walking, agg, answers>>
      BY <2>1 DEF Own
    <3>2. ToSet(ptw_fifo) \subseteq ToSet(ptw_fifo')
      BY <3>1, AppendedSet DEF Inv, WalkInv, WalksTyped
    <3>3. Ptw \subseteq Ptw' /\ Awaited' = Awaited  BY <3>1, <3>2 DEF Ptw, Awaited
    <3> QED BY <3>1, <3>3, TurnedStays
  <2>2. CASE ConflictBypass(r) \/ (BufferFull(r) /\ PtwHasRoom)
    BY <2>2, <1>3 DEF ConflictBypass, BufferFull
  <2>3. CASE BypassAfterWait(r)
    BY <2>3, <1>3 DEF BypassAfterWait
  <2>4. CASE \/ Suspend(r) \/ Upgrade(r) \/ Placehold(r) \/ Refresh(r)
             \/ (BufferFull(r) /\ ~PtwHasRoom)
    BY <2>4, <1>1 DEF Suspend, Upgrade, Placehold, Refresh, BufferFull, walkVars
  <2>5. CASE FlushEntry(r)
    <3>1. /\ UNCHANGED <<page, ptw_fifo, bypass, walking, agg>>
          /\ \E t, res : answers' = [answers EXCEPT ![t] = Append(answers[t], res)]
      BY <2>5 DEF FlushEntry, Forward, walkVars
    <3>2. \A u \in Tasks : answers'[u] = << >> => answers[u] = << >>
      <4>1. PICK t, res : answers' = [answers EXCEPT ![t] = Append(answers[t], res)]  BY <3>1
      <4>2. \A u \in Tasks : answers[u] \in Seq(Results)  BY <1>0
      <4> QED BY <4>1, <4>2, <1>0
    <3>3. Ptw' = Ptw /\ Awaited' = Awaited  BY <3>1 DEF Ptw, Awaited
    <3> QED BY <3>1, <3>2, <3>3, <1>0, TurnedStays
  <2> QED BY <2>1, <2>2, <2>3, <2>4, <2>5, <1>4 DEF Worker
<1>5. CASE PtwStart
  <2>1. /\ UNCHANGED <<page, bypass, agg, answers>> /\ ptw_fifo # << >>
        /\ ptw_fifo' = Tail(ptw_fifo) /\ walking' = walking \union {Head(ptw_fifo)}
    BY <1>5 DEF PtwStart
  <2>2. ToSet(ptw_fifo) = {Head(ptw_fifo)} \union ToSet(ptw_fifo')
    BY <2>1, TailSet DEF Inv, WalkInv, WalksTyped
  <2>3. Ptw' = Ptw /\ Awaited' = Awaited  BY <2>1, <2>2 DEF Ptw, Awaited
  <2> QED BY <2>1, <2>3, TurnedStays
<1>6. ASSUME NEW t \in Tasks, GroupEnds(t) \/ FaultInGroup(t) PROVE Turned'
  <2>1. /\ t \in walking /\ walking' = walking \ {t} /\ UNCHANGED <<page, ptw_fifo, bypass, answers>>
    BY <1>6 DEF GroupEnds, FaultInGroup, Released
  <2>2. \E res : agg' = Append(agg, Group(t, res))
    BY <1>6 DEF GroupEnds, FaultInGroup
  <2>3. PICK res : agg' = Append(agg, Group(t, res))  BY <2>2
  <2>4. Group(t, res).main = t /\ Group(t, res).bypass = (t \in bypass)
    BY DEF Group, MarkedBypass
  <2> DEFINE g == Group(t, res)
  <2>5. ToSet(agg') = ToSet(agg) \union {g}
    BY <2>3, AppendedSet DEF Inv, WalkInv, Groups
  <2>6. g.main = t /\ g.bypass = (t \in bypass)  BY <2>4
  <2> HIDE DEF g
  <2>7. Awaited \subseteq Awaited' /\ (t \in bypass => t \in Awaited')
    BY <2>5, <2>6 DEF Awaited
  <2>8. Ptw \subseteq Ptw' \union {t}  BY <2>1 DEF Ptw
  <2> QED BY <2>1, <2>7, <2>8, TurnedStays
<1>7. ASSUME NEW t \in Tasks, LastPageEnds(t) \/ FaultAlone(t) PROVE Turned'
  <2>1. /\ t \in walking /\ walking' = walking \ {t} /\ UNCHANGED <<page, ptw_fifo, bypass, agg>>
        /\ \/ t \notin bypass /\ answers' = answers
           \/ \E res : Forward(t, res)
    BY <1>7 DEF LastPageEnds, FaultAlone, Released
  <2>2. /\ t \in bypass => answers'[t] # << >>
        /\ \A u \in Tasks : answers'[u] = << >> => answers[u] = << >>
    <3>1. CASE t \notin bypass /\ answers' = answers  BY <3>1
    <3>2. CASE \E res : Forward(t, res)
      <4>1. PICK res : answers' = [answers EXCEPT ![t] = Append(answers[t], res)]
        BY <3>2 DEF Forward
      <4>2. \A u \in Tasks : answers[u] \in Seq(Results)  BY <1>0
      <4>3. Append(answers[t], res) # << >>  BY <4>2
      <4> QED BY <4>1, <4>3, <1>0
    <3> QED BY <3>1, <3>2, <2>1
  <2>3. Ptw \subseteq Ptw' \union {t} /\ Awaited' = Awaited  BY <2>1 DEF Ptw, Awaited
  <2> QED BY <2>1, <2>2, <2>3, <1>0, TurnedStays
<1>8. CASE AggWrite
  <2>1. /\ UNCHANGED <<page, ptw_fifo, bypass, walking, answers>>
        /\ agg # << >> /\ Head(agg).writes # << >> /\ agg' = AfterWrite
    BY <1>8 DEF AggWrite, AfterWrite
  <2>2. Awaited' = Awaited  BY <2>1, GroupWrites DEF Inv, WalkInv
  <2>3. Ptw' = Ptw  BY <2>1 DEF Ptw
  <2> QED BY <2>1, <2>2, <2>3, TurnedStays
<1>9. CASE AggBypass
  <2>0. PICK g : g = Head(agg)  OBVIOUS
  <2>1. /\ UNCHANGED <<page, ptw_fifo, bypass, walking>>
        /\ agg # << >> /\ Head(agg).writes = << >> /\ agg' = Tail(agg)
        /\ g.fault => answers' = answers
        /\ ~g.fault => Forward(g.main, "ok")
    BY <2>0, <1>9 DEF AggBypass
  <2>2. /\ g \in GroupRecord /\ (g.fault <=> page[g.main] \in Unmapped)
        /\ Awaited' = Awaited \ {g.main}
    BY <2>0, <2>1, GroupForwards DEF Inv, WalkInv
  <2>3. g.main \in Tasks  BY <2>2, GroupFields
  <2>4. /\ \A u \in Tasks : answers'[u] = << >> => answers[u] = << >>
        /\ answers'[g.main] = << >> => page[g.main] \in Unmapped
    <3>1. CASE g.fault  BY <3>1, <2>1, <2>2
    <3>2. CASE ~g.fault
      <4>1. answers' = [answers EXCEPT ![g.main] = Append(answers[g.main], "ok")]
        BY <3>2, <2>1 DEF Forward
      <4>2. \A u \in Tasks : answers[u] \in Seq(Results)  BY <1>0
      <4>3. Append(answers[g.main], "ok") # << >>  BY <4>2, <2>3
      <4> QED BY <4>1, <4>3, <2>3, <1>0
    <3> QED BY <3>1, <3>2
  <2>5. Ptw' = Ptw  BY <2>1 DEF Ptw
  <2> QED BY <2>1, <2>2, <2>4, <2>5, <1>0, TurnedStays
<1>10. CASE Schedule \/ Dispatch \/ RspWrite \/ UNCHANGED vars
  BY <1>1, <1>10 DEF Schedule, Dispatch, RspWrite, vars, walkVars
<1> QED BY <1>2, <1>4, <1>5, <1>6, <1>7, <1>8, <1>9, <1>10 DEF Next, WalkEnds

\* In the two-stage mode, a task that found no way writable or the buffer full walks
\* with neither line nor entry and is not forgotten: until it is forwarded it is in the
\* PTW or in a group that will forward it (cache_subsystem.cpp:2345-2347).  With a
\* first stage only, the group of a bypassed task is not marked, and a group that
\* faulted forwards nobody.
THEOREM BypassNotForgotten ==
  ASSUME TwoStage, Unmapped = {}
  PROVE  Spec => []BypassedAnswered
<1>1. Init => Turned  BY DEF Init, Turned
<1>2. Inv /\ Turned => BypassedAnswered
  BY DEF Turned, BypassedAnswered, InPtw, Ptw, Awaited
<1>3. Inv /\ Turned /\ [Next]_vars => Inv' /\ Turned'
  BY TurnedKept, InvKept
<1> QED BY <1>1, <1>2, <1>3, InitInv, PTL DEF Spec

-----------------------------------------------------------------------------
(* No line is abandoned, when no page faults, page 0 is not IOVA 0 and a    *)
(* walk outlasts the placeholders that were sent ahead for it.              *)

\* The placeholders on their way to the cache, and who will refresh a page: a
\* task that did not go around the cache and walks a group that covers it, or
\* whose group or result is on its way.
Queued == ToSet(inside_fifo) \union ToSet(hash_in) \union InRam
Ahead == {m \in Queued : m.kind = "prefetch"}
NextPages(t) == (page[t] + 1) .. (page[t] + GroupDepth(page[t]))
Coming(t, p) == \E m \in Updates : m.page = p /\ m.by = t
Brings(t, p) == t \notin bypass /\ ((t \in Ptw /\ Covers(t, p)) \/ Coming(t, p))

\* A placeholder comes before its group writes the page: the owner still walks
\* or its group still has the page to write.
WritesPage(g, m) == g.main = m.by /\ \E u \in ToSet(g.writes) : u.page = m.page
BehindAt(m) == /\ m.page \in NextPages(m.by) /\ m.by \notin bypass
               /\ m.by \in Ptw \/ \E g \in ToSet(agg) : WritesPage(g, m)
Behind == \A m \in Ahead : BehindAt(m)

\* An owner refreshes its line; the line of a waiting task and a placeholder
\* have somebody who does.
KeptAt(p) == ~Flushing(p) =>
  IF line[p].is_req /\ ~line[p].suspended THEN Brings(line[p].owner, p)
                                          ELSE \E t \in Tasks : Brings(t, p)
Kept == \A p \in DOMAIN line : KeptAt(p)

\* The pages of the tasks in the PTW stay, and who goes around was asking.
Settled == /\ \A t \in Arrived : page'[t] = page[t]
           /\ \A t \in bypass' : t \in bypass \/ t \in Asking \/ t \in Held

LEMMA Movers == Inv => /\ \A t \in Ptw \union Sent : /\ t \in Arrived /\ t \in Tasks /\ page[t] \in Pages
                                                     /\ t \notin Asking /\ t \notin Held
                       /\ \A g \in ToSet(agg) : g.main \in Sent
                       /\ \A t, p : Coming(t, p) => t \in Sent
<1> SUFFICES ASSUME Inv
             PROVE  /\ \A t \in Ptw \union Sent : /\ t \in Arrived /\ t \in Tasks /\ page[t] \in Pages
                                                  /\ t \notin Asking /\ t \notin Held
                    /\ \A g \in ToSet(agg) : g.main \in Sent
                    /\ \A t, p : Coming(t, p) => t \in Sent
  OBVIOUS
<1>1. \A t \in Ptw \union Sent : t \in Arrived /\ t \notin Asking /\ t \notin Held
  BY DEF Inv, TaskInv, Places
<1>2. \A t \in Arrived : t \in Tasks /\ page[t] \in Pages  BY DEF Inv, TasksTyped, Arrived
<1>3. \A g \in ToSet(agg) : g.main \in Sent  BY DEF Sent, Mains
<1>4. \A t, p : Coming(t, p) => t \in Sent  BY DEF Coming, Sent
<1> QED BY <1>1, <1>2, <1>3, <1>4

LEMMA BringsAt ==
  ASSUME Inv, Settled, NEW t, NEW p, Brings(t, p), t \in Ptw => t \in Ptw',
         Coming(t, p) => Coming(t, p)'
  PROVE  Brings(t, p)'
<1>1. t \in Ptw \union Sent  BY Movers DEF Brings
<1>2. t \in Arrived /\ t \notin Asking /\ t \notin Held  BY <1>1, Movers
<1>3. page'[t] = page[t] /\ t \notin bypass'  BY <1>2 DEF Settled, Brings
<1>4. Covers(t, p)' <=> Covers(t, p)  BY <1>3 DEF Covers, GroupDepth
<1> QED BY <1>3, <1>4 DEF Brings

LEMMA BringsStays ==
  ASSUME Inv, Settled, \A t \in Ptw : t \in Ptw', \A m \in Updates : m \in Updates'
  PROVE  \A t, p : Brings(t, p) => Brings(t, p)'
<1> SUFFICES ASSUME NEW t, NEW p, Brings(t, p) PROVE Brings(t, p)'
  OBVIOUS
<1>1. Coming(t, p) => Coming(t, p)'  BY DEF Coming
<1> QED BY <1>1, BringsAt

LEMMA BehindStays ==
  ASSUME Inv, Settled, NEW m, BehindAt(m), m.by \in Ptw => m.by \in Ptw',
         \A g \in ToSet(agg) : g.main = m.by => g \in ToSet(agg')
  PROVE  BehindAt(m)'
<1>1. m.by \in Ptw \union Sent  BY Movers DEF BehindAt, WritesPage
<1>2. m.by \in Arrived /\ m.by \notin Asking /\ m.by \notin Held  BY <1>1, Movers
<1>3. page'[m.by] = page[m.by] /\ m.by \notin bypass'  BY <1>2 DEF Settled, BehindAt
<1>4. NextPages(m.by)' = NextPages(m.by)  BY <1>3 DEF NextPages, GroupDepth
<1>5. m.by \in Ptw' \/ \E g \in ToSet(agg') : WritesPage(g, m)  BY DEF BehindAt, WritesPage
<1>6. \A g : WritesPage(g, m)' <=> WritesPage(g, m)  BY DEF WritesPage
<1> QED BY <1>3, <1>4, <1>5, <1>6 DEF BehindAt

LEMMA BehindBrings ==
  ASSUME Inv, NEW m, BehindAt(m)
  PROVE  m.by \in Tasks /\ Brings(m.by, m.page)
<1>1. m.by \in Ptw \union Sent  BY Movers DEF BehindAt, WritesPage
<1>2. m.by \in Tasks /\ page[m.by] \in Pages  BY <1>1, Movers
<1>3. page[m.by] \in Nat /\ GroupDepth(page[m.by]) \in Nat  BY <1>2, DepthType, Numbers
<1>4. m.page \in (page[m.by] + 1) .. (page[m.by] + GroupDepth(page[m.by]))
  BY DEF BehindAt, NextPages
<1>5. Covers(m.by, m.page)  BY <1>3, <1>4 DEF Covers
<1>6. CASE m.by \in Ptw  BY <1>2, <1>5, <1>6 DEF Brings, BehindAt
<1>7. ASSUME NEW g \in ToSet(agg), WritesPage(g, m) PROVE Coming(m.by, m.page)
  <2>1. PICK u \in ToSet(g.writes) : u.page = m.page  BY <1>7 DEF WritesPage
  <2>2. u \in Updates /\ u.by = m.by
    BY <2>1, <1>7 DEF Updates, Writes, WritesPage, Inv, WalkInv, Groups, GroupShape
  <2> QED BY <2>1, <2>2 DEF Coming
<1> QED BY <1>2, <1>6, <1>7 DEF Brings, BehindAt

LEMMA KeptStays ==
  ASSUME Kept, \A t, p : Brings(t, p) => Brings(t, p)',
         \A p \in DOMAIN line' :
           KeptAt(p)' \/ (p \in DOMAIN line /\ line'[p] = line[p] /\ (Flushing(p) => Flushing(p)'))
  PROVE  Kept'
<1> SUFFICES ASSUME NEW p \in DOMAIN line' PROVE KeptAt(p)'
  BY DEF Kept
<1>1. CASE p \in DOMAIN line /\ line'[p] = line[p] /\ (Flushing(p) => Flushing(p)')
  <2> SUFFICES ASSUME ~Flushing(p)' PROVE KeptAt(p)'
    BY DEF KeptAt
  <2>1. KeptAt(p) /\ ~Flushing(p)  BY <1>1 DEF Kept
  <2>2. PICK l : l = line[p]  OBVIOUS
  <2>3. IF l.is_req /\ ~l.suspended THEN Brings(l.owner, p) ELSE \E t \in Tasks : Brings(t, p)
    BY <2>1, <2>2 DEF KeptAt
  <2>4. IF l.is_req /\ ~l.suspended THEN Brings(l.owner, p)' ELSE \E t \in Tasks : Brings(t, p)'
    BY <2>3
  <2>5. line'[p] = l  BY <1>1, <2>2
  <2> QED BY <2>4, <2>5 DEF KeptAt
<1> QED BY <1>1

\* A step that leaves the lines alone and loses nothing that is on its way.
LEMMA QuietStep ==
  ASSUME Inv, Behind, Kept, Settled, \A t \in Ptw : t \in Ptw', \A m \in Updates : m \in Updates',
         \A m \in Ahead' : m \in Ahead, \A g \in ToSet(agg) : g \in ToSet(agg'),
         line' = line, \A p : Flushing(p) => Flushing(p)'
  PROVE  Behind' /\ Kept'
<1>1. Behind'
  <2> SUFFICES ASSUME NEW m \in Ahead' PROVE BehindAt(m)'
    BY DEF Behind
  <2> QED BY BehindStays DEF Behind
<1>2. Kept'
  <2>1. \A t, p : Brings(t, p) => Brings(t, p)'  BY BringsStays
  <2> QED BY <2>1, KeptStays
<1> QED BY <1>1, <1>2

\* The messages on their way, when one is passed on or served.
LEMMA AheadPasses ==
  ASSUME Inv, Schedule \/ Dispatch
  PROVE  \A m \in Ahead' : m \in Ahead
<1>1. /\ request_fifo \in Seq(Message) /\ inside_fifo \in Seq(Message) /\ hash_in \in Seq(Message)
      /\ update_fifo \in Seq(Message) /\ FifosTyped
      /\ \A m \in ToSet(request_fifo) : m.kind = "request"
      /\ \A m \in ToSet(update_fifo) : m.kind = "update"
  BY DEF Inv, Fifos, FifosTyped, Routing
<1>2. CASE Schedule
  <2>1. InRam' = InRam  BY <1>2 DEF Schedule, cacheVars, InRam
  <2>2. PICK s \in {inside_fifo, request_fifo, update_fifo} :
          /\ s # << >> /\ hash_in' = Append(hash_in, Head(s))
          /\ inside_fifo' = inside_fifo \/ (s = inside_fifo /\ inside_fifo' = Tail(inside_fifo))
    BY <1>2 DEF Schedule, ServesRequest, AnyRequest
  <2>3. s \in Seq(Message) /\ Head(s) \in ToSet(s)  BY <2>2, <1>1, TailSet
  <2>4. ToSet(hash_in') = ToSet(hash_in) \union {Head(s)}
    BY <2>2, <1>1, AppendedSet
  <2>5. ToSet(inside_fifo') \subseteq ToSet(inside_fifo)
    <3>1. CASE s = inside_fifo /\ inside_fifo' = Tail(inside_fifo)  BY <3>1, <2>2, <1>1, TailSet
    <3> QED BY <3>1, <2>2
  <2>6. Head(s).kind = "prefetch" => Head(s) \in ToSet(inside_fifo)  BY <2>2, <2>3, <1>1
  <2> QED BY <2>1, <2>4, <2>5, <2>6 DEF Ahead, Queued
<1>3. CASE Dispatch
  <2>1. PICK h, r : h = Head(hash_in) /\ r = RamOf(h.page)  OBVIOUS
  <2>2. /\ hash_in # << >> /\ hash_in' = Tail(hash_in) /\ inside_fifo' = inside_fifo
        /\ ram_fifo' = [ram_fifo EXCEPT ![r] = Append(ram_fifo[r], h)]
    BY <2>1, <1>3 DEF Dispatch
  <2>3. h \in Message /\ h \in ToSet(hash_in) /\ ToSet(hash_in') \subseteq ToSet(hash_in)
    BY <2>1, <2>2, <1>1, TailSet
  <2>4. r \in Rams  BY <2>1, <2>3, MessageFields, Numbers
  <2>5. ram_fifo[r] \in Seq(Message)  BY <2>4, <1>1 DEF FifosTyped
  <2>6. /\ Append(ram_fifo[r], h) \in Seq(Message)
        /\ ToSet(Append(ram_fifo[r], h)) = ToSet(ram_fifo[r]) \union {h}
    BY <2>3, <2>5, AppendSet
  <2>7. \A m \in InRam' : m = h \/ m \in InRam
    BY <2>2, <2>4, <2>6, <1>1, RamChanges DEF InRam
  <2> QED BY <2>2, <2>3, <2>7 DEF Ahead, Queued
<1> QED BY <1>2, <1>3

LEMMA RamServed ==
  ASSUME Inv, NEW r \in Rams, NEW k, Serves(r, k)
  PROVE  /\ Head(ram_fifo[r]) \in InRam /\ \A m \in InRam' : m \in InRam
         /\ worker[r].at = "idle" /\ Head(ram_fifo[r]).kind = k /\ Head(ram_fifo[r]) \in Message
<1>1. /\ ram_fifo[r] \in Seq(Message) /\ ram_fifo[r] # << >> /\ FifosTyped
      /\ ram_fifo' = [ram_fifo EXCEPT ![r] = Tail(ram_fifo[r])]
      /\ worker[r].at = "idle" /\ Head(ram_fifo[r]).kind = k
  BY DEF Serves, Inv, Fifos, FifosTyped
<1>2. /\ Tail(ram_fifo[r]) \in Seq(Message) /\ Head(ram_fifo[r]) \in Message
      /\ ToSet(ram_fifo[r]) = {Head(ram_fifo[r])} \union ToSet(Tail(ram_fifo[r]))
  BY <1>1, TailSet
<1>3. \A m \in InRam' : m \in InRam  BY <1>1, <1>2, RamChanges DEF InRam
<1>4. Head(ram_fifo[r]) \in InRam  BY <1>2 DEF InRam
<1> QED BY <1>1, <1>2, <1>3, <1>4

LEMMA AheadServed ==
  ASSUME Inv, NEW r \in Rams, NEW k, Serves(r, k), UNCHANGED <<inside_fifo, hash_in>>
  PROVE  \A m \in Ahead' : m \in Ahead
BY RamServed DEF Ahead, Queued

\* A FIFO that is left alone.
LEMMA AheadSame ==
  ASSUME UNCHANGED <<inside_fifo, hash_in, ram_fifo>>
  PROVE  \A m \in Ahead' : m \in Ahead
BY DEF Ahead, Queued, InRam

LEMMA Unmoved ==
  ASSUME UNCHANGED <<page, bypass>>
  PROVE  Settled
BY DEF Settled

-----------------------------------------------------------------------------
(* The steps of the pipeline and of the workers.                            *)

LEMMA PassingPromise ==
  ASSUME Inv, Behind, Kept, Schedule \/ Dispatch
  PROVE  Behind' /\ Kept'
<1>1. /\ UNCHANGED <<page, worker, line, ptw_fifo, bypass, walking, agg>>
  BY DEF Schedule, Dispatch, cacheVars, walkVars
<1>2. Sending' = Sending  BY ScheduleFifos, DispatchFifos DEF Inv
<1>3. Updates' = Updates /\ Ptw' = Ptw  BY <1>1, <1>2 DEF Updates, Writes, Ptw
<1>4. \A m \in Ahead' : m \in Ahead  BY AheadPasses
<1>5. \A p : Flushing(p) => Flushing(p)'  BY <1>1 DEF Flushing
<1> QED BY <1>1, <1>3, <1>4, <1>5, Unmoved, QuietStep

LEMMA ArrivePromise ==
  ASSUME Inv, Behind, Kept, NEW t \in Tasks, NEW p \in Pages, Arrive(t, p)
  PROVE  Behind' /\ Kept'
<1>1. /\ page[t] = NoPage /\ page' = [page EXCEPT ![t] = p]
      /\ UNCHANGED <<inside_fifo, update_fifo, hash_in, ram_fifo, worker, line, ptw_fifo, bypass,
                     walking, rsp_write, agg>>
  BY DEF Arrive, cacheVars, walkVars
<1>2. Updates' = Updates /\ Ptw' = Ptw
  BY <1>1 DEF Updates, Sending, InRam, Writes, Ptw
<1>3. \A m \in Ahead' : m \in Ahead  BY <1>1, AheadSame
<1>4. \A q : Flushing(q) => Flushing(q)'  BY <1>1 DEF Flushing
<1>5. Settled  BY <1>1 DEF Settled, Arrived, Inv, TasksTyped
<1> QED BY <1>1, <1>2, <1>3, <1>4, <1>5, QuietStep

\* The requests that wait in a chain or go around the cache.
LEMMA RequestPromise ==
  ASSUME Inv, Behind, Kept, NEW r \in Rams, Serves(r, "request"),
         UNCHANGED <<page, pipeVars, line, walking, rsp_write, agg>>,
         UNCHANGED <<ptw_fifo, bypass>> \/ GoAround(Head(ram_fifo[r]).by),
         \A q \in Rams : worker[q].at = "flush" => worker'[q] = worker[q]
  PROVE  Behind' /\ Kept'
<1>1. UNCHANGED <<request_fifo, inside_fifo, update_fifo, hash_in>>  BY DEF pipeVars
<1>2. PICK t : t = Head(ram_fifo[r]).by  OBVIOUS
<1>3. Sending' = Sending /\ t \in Asking  BY <1>1, <1>2, SameInside, ServedRequest
<1>4. Updates' = Updates  BY <1>3 DEF Updates, Writes
<1>5. Settled /\ \A u \in Ptw : u \in Ptw'
  <2>1. CASE UNCHANGED <<ptw_fifo, bypass>>  BY <2>1, Unmoved DEF Ptw
  <2>2. CASE GoAround(t)
    <3>1. ptw_fifo' = Append(ptw_fifo, t) /\ bypass' = bypass \union {t}  BY <2>2 DEF GoAround
    <3>2. ToSet(ptw_fifo') = ToSet(ptw_fifo) \union {t}
      BY <3>1, AppendedSet DEF Inv, WalkInv, WalksTyped
    <3> QED BY <3>1, <3>2, <1>3 DEF Settled, Ptw
  <2> QED BY <2>1, <2>2, <1>2
<1>6. \A m \in Ahead' : m \in Ahead  BY <1>1, AheadServed
<1>7. \A p : Flushing(p) => Flushing(p)'  BY DEF Flushing
<1> QED BY <1>4, <1>5, <1>6, <1>7, QuietStep

LEMMA AfterWaitPromise ==
  ASSUME Inv, Behind, Kept, NEW r \in Rams, BypassAfterWait(r)
  PROVE  Behind' /\ Kept'
<1>1. PICK t : t = worker[r].by  OBVIOUS
<1>2. /\ worker[r].at = "full" /\ worker' = [worker EXCEPT ![r] = IdleWorker]
      /\ ptw_fifo' = Append(ptw_fifo, t) /\ bypass' = bypass \union {t}
      /\ UNCHANGED <<page, pipeVars, ram_fifo, line, walking, rsp_write, agg>>
  BY <1>1 DEF BypassAfterWait, GoAround
<1>3. Sending' = Sending  BY <1>2, SameFifos DEF Inv
<1>4. Updates' = Updates  BY <1>2, <1>3 DEF Updates, Writes
<1>5. ToSet(ptw_fifo') = ToSet(ptw_fifo) \union {t}
  BY <1>2, AppendedSet DEF Inv, WalkInv, WalksTyped
<1>6. t \in Held  BY <1>1, <1>2 DEF Held
<1>7. Settled /\ \A u \in Ptw : u \in Ptw'  BY <1>2, <1>5, <1>6 DEF Settled, Ptw
<1>8. \A m \in Ahead' : m \in Ahead  BY <1>2, AheadSame DEF pipeVars
<1>9. \A q \in Rams : worker[q].at = "flush" => worker'[q] = worker[q]
  BY <1>2 DEF Inv, CacheInv, WorkersTyped
<1>10. \A p : Flushing(p) => Flushing(p)'  BY <1>9 DEF Flushing
<1> QED BY <1>2, <1>4, <1>7, <1>8, <1>10, QuietStep

\* A placeholder becomes the line of a waiting task: who refreshes it stays.
LEMMA UpgradePromise ==
  ASSUME Inv, Behind, Kept, NEW r \in Rams, Upgrade(r)
  PROVE  Behind' /\ Kept'
<1>1. PICK m, p, f : m = Head(ram_fifo[r]) /\ p = m.page /\ f = FirstFree
  OBVIOUS
<1>2. /\ Serves(r, "request") /\ p \in DOMAIN line /\ ~line[p].is_req
      /\ line' = [line EXCEPT ![p] = ReqLine(f, m.by, TRUE)]
      /\ UNCHANGED <<page, worker, ptw_fifo, bypass, walking, rsp_write, agg>>
      /\ UNCHANGED <<request_fifo, inside_fifo, update_fifo, hash_in>>
  BY <1>1 DEF Upgrade, pipeVars, walkVars
<1>3. Sending' = Sending  BY <1>2, SameInside, ServedRequest
<1>4. Updates' = Updates /\ Ptw' = Ptw  BY <1>2, <1>3 DEF Updates, Writes, Ptw
<1>5. Settled  BY <1>2, Unmoved
<1>6. \A t, q : Brings(t, q) => Brings(t, q)'  BY <1>4, <1>5, BringsStays
<1>7. \A x \in Ahead' : x \in Ahead  BY <1>2, AheadServed
<1>8. Behind'
  <2> SUFFICES ASSUME NEW x \in Ahead' PROVE BehindAt(x)'  BY DEF Behind
  <2> QED BY <1>2, <1>4, <1>5, <1>7, BehindStays DEF Behind
<1>9. \A q : Flushing(q)' <=> Flushing(q)  BY <1>2 DEF Flushing
<1>10. /\ DOMAIN line' = DOMAIN line /\ \A q \in DOMAIN line \ {p} : line'[q] = line[q]
       /\ line'[p].is_req /\ line'[p].suspended
  BY <1>2 DEF ReqLine, Inv, CacheInv, LinesTyped
<1>11. KeptAt(p)'
  <2>1. ~Flushing(p)  BY <1>2 DEF Flushing, Inv, CacheInv, Flushes, ReqPages
  <2>2. PICK t \in Tasks : Brings(t, p)  BY <2>1, <1>2 DEF Kept, KeptAt
  <2> QED BY <2>2, <1>6, <1>10 DEF KeptAt
<1>12. Kept'  BY <1>6, <1>9, <1>10, <1>11, KeptStays
<1> QED BY <1>8, <1>12

\* The owner of a new line walks; the placeholders it sends ahead are for the
\* pages of its group.
LEMMA OwnPromise ==
  ASSUME Inv, Behind, Kept, NEW r \in Rams, Own(r)
  PROVE  Behind' /\ Kept'
<1>0. PICK m, t, p, f, l : /\ m = Head(ram_fifo[r]) /\ t = m.by /\ p = m.page
                           /\ f = FirstFree /\ l = ReqLine(f, t, FALSE)
  OBVIOUS
<1>1. /\ Serves(r, "request") /\ p \notin DOMAIN line /\ HasWritableWay(r) /\ FreeIdx # {}
      /\ Insert(r, p, l) /\ ptw_fifo' = Append(ptw_fifo, t)
      /\ UNCHANGED <<page, worker, bypass, walking, rsp_write, agg>>
      /\ UNCHANGED <<request_fifo, update_fifo, hash_in>>
  BY <1>0 DEF Own
<1>2. /\ inside_fifo' \in Seq(Message) /\ \A x \in ToSet(inside_fifo') : x.kind = "prefetch"
      /\ \A x \in ToSet(inside_fifo') \ ToSet(inside_fifo) :
           \E d \in 1 .. GroupDepth(p) : x = Prefetch(t, p + d)
  BY <1>0, OwnInside
<1>3. /\ t \in Tasks /\ p \in Pages /\ p = page[t] /\ RamOf(p) = r /\ t \in Asking /\ t \notin bypass
      /\ Sending' = Sending
  BY <1>0, <1>1, <1>2, ServedRequest
<1>4. f \in Idx  BY <1>0, <1>1, FirstFreeType
<1>5. l \in Line /\ l.is_req /\ l.head = f /\ ~l.suspended /\ l.owner = t
  BY <1>0, <1>3, <1>4 DEF ReqLine, Line
<1>6. /\ p \in DOMAIN line' /\ line'[p] = l
      /\ \A q \in DOMAIN line' \ {p} : q \in DOMAIN line /\ line'[q] = line[q]
  BY <1>1, <1>3, <1>4, <1>5, InsertLine DEF Inv, CacheInv
<1>7. ToSet(ptw_fifo') = ToSet(ptw_fifo) \union {t}
  BY <1>1, AppendedSet DEF Inv, WalkInv, WalksTyped
<1>8. Updates' = Updates /\ Ptw' = Ptw \union {t}  BY <1>1, <1>3, <1>7 DEF Updates, Writes, Ptw
<1>9. Settled  BY <1>1, Unmoved
<1>10. \A u, q : Brings(u, q) => Brings(u, q)'  BY <1>8, <1>9, BringsStays
<1>11. p \in Nat /\ GroupDepth(p) \in Nat  BY <1>3, DepthType, Numbers
<1>12. Behind'
  <2> SUFFICES ASSUME NEW x \in Ahead' PROVE BehindAt(x)'  BY DEF Behind
  <2>1. CASE x \in Ahead  BY <2>1, <1>1, <1>8, <1>9, BehindStays DEF Behind
  <2>2. CASE x \notin Ahead
    <3>1. x \in ToSet(inside_fifo') \ ToSet(inside_fifo)
      BY <2>2, <1>1, RamServed DEF Ahead, Queued
    <3>2. PICK d \in 1 .. GroupDepth(p) : x = Prefetch(t, p + d)  BY <3>1, <1>2
    <3>3. x.by = t /\ x.page = p + d  BY <3>2 DEF Prefetch
    <3>4. page' = page /\ bypass' = bypass  BY <1>1
    <3>5. x.page \in (p + 1) .. (p + GroupDepth(p))  BY <3>2, <3>3, <1>11
    <3>6. x.page \in NextPages(x.by)'  BY <3>3, <3>4, <3>5, <1>3 DEF NextPages, GroupDepth
    <3> QED BY <3>3, <3>4, <3>6, <1>3, <1>8 DEF BehindAt
  <2> QED BY <2>1, <2>2
<1>13. KeptAt(p)'
  <2>1. p \in p .. (p + GroupDepth(p))  BY <1>11
  <2>2. Covers(t, p)'  BY <2>1, <1>1, <1>3 DEF Covers, GroupDepth
  <2>3. Brings(t, p)'  BY <2>2, <1>1, <1>3, <1>8 DEF Brings
  <2> QED BY <2>3, <1>5, <1>6 DEF KeptAt
<1>14. \A q : Flushing(q) => Flushing(q)'  BY <1>1 DEF Flushing
<1>15. Kept'  BY <1>6, <1>10, <1>13, <1>14, KeptStays
<1> QED BY <1>12, <1>15

\* A placeholder is inserted: the group that sent it ahead has yet to come.
LEMMA PlaceholdPromise ==
  ASSUME Inv, Behind, Kept, NEW r \in Rams, Placehold(r)
  PROVE  Behind' /\ Kept'
<1>0. PICK m, p, l : /\ m = Head(ram_fifo[r]) /\ p = m.page
                     /\ l = [is_req |-> FALSE, head |-> NoIdx, owner |-> NoTask, suspended |-> FALSE]
  OBVIOUS
<1>1. /\ Serves(r, "prefetch")
      /\ UNCHANGED <<page, worker, ptw_fifo, bypass, walking, rsp_write, agg>>
      /\ UNCHANGED <<request_fifo, inside_fifo, update_fifo, hash_in>>
      /\ \/ p \notin DOMAIN line /\ HasWritableWay(r) /\ Insert(r, p, l)
         \/ line' = line
  BY <1>0 DEF Placehold, pipeVars, walkVars
<1>2. /\ m \in Message /\ RamOf(p) = r /\ Sending' = Sending /\ m \in InRam /\ m.kind = "prefetch"
  BY <1>0, <1>1, SameInside, ServeFifos DEF Inv
<1>3. p \in Pages  BY <1>0, <1>2, MessageFields
<1>4. l \in Line /\ ~l.is_req /\ l.head \notin Idx  BY <1>0, Numbers DEF Line
<1>5. Updates' = Updates /\ Ptw' = Ptw  BY <1>1, <1>2 DEF Updates, Writes, Ptw
<1>6. Settled  BY <1>1, Unmoved
<1>7. \A t, q : Brings(t, q) => Brings(t, q)'  BY <1>5, <1>6, BringsStays
<1>8. \A x \in Ahead' : x \in Ahead  BY <1>1, AheadServed
<1>9. Behind'
  <2> SUFFICES ASSUME NEW x \in Ahead' PROVE BehindAt(x)'  BY DEF Behind
  <2> QED BY <1>1, <1>5, <1>6, <1>8, BehindStays DEF Behind
<1>10. \A q : Flushing(q) => Flushing(q)'  BY <1>1 DEF Flushing
<1>11. CASE p \notin DOMAIN line /\ HasWritableWay(r) /\ Insert(r, p, l)
  <2>1. /\ p \in DOMAIN line' /\ line'[p] = l
        /\ \A q \in DOMAIN line' \ {p} : q \in DOMAIN line /\ line'[q] = line[q]
    BY <1>2, <1>3, <1>4, <1>11, InsertLine DEF Inv, CacheInv
  <2>2. BehindAt(m)  BY <1>2 DEF Behind, Ahead, Queued
  <2>3. m.by \in Tasks /\ Brings(m.by, p)  BY <2>2, <1>0, BehindBrings
  <2>4. KeptAt(p)'  BY <2>1, <2>3, <1>4, <1>7 DEF KeptAt
  <2>5. Kept'  BY <2>1, <2>4, <1>7, <1>10, KeptStays
  <2> QED BY <2>5, <1>9
<1>12. CASE line' = line
  <2>1. Kept'  BY <1>7, <1>10, <1>12, KeptStays
  <2> QED BY <2>1, <1>9
<1> QED BY <1>1, <1>11, <1>12

\* An update that is served removes a placeholder, flushes a chain, or is turned
\* away by the line of an owner that is not its own.
LEMMA RefreshPromise ==
  ASSUME Inv, Behind, Kept, NEW r \in Rams, Refresh(r)
  PROVE  Behind' /\ Kept'
<1>0. PICK m, p, t, l : m = Head(ram_fifo[r]) /\ p = m.page /\ t = m.by /\ l = line[p]
  OBVIOUS
<1>1. /\ Serves(r, "update")
      /\ UNCHANGED <<page, ptw_fifo, bypass, walking, rsp_write, agg>>
      /\ UNCHANGED <<request_fifo, inside_fifo, update_fifo, hash_in>>
      /\ \/ p \in DOMAIN line /\ ~l.is_req /\ line' = Without(line, p) /\ worker' = worker
         \/ /\ p \in DOMAIN line /\ l.is_req /\ MayRefresh(l, t) /\ line' = line
            /\ worker' = [worker EXCEPT ![r] = [at |-> "flush", by |-> t, page |-> p,
                                                result |-> m.result, cur |-> l.head]]
         \/ /\ p \in DOMAIN line => l.is_req /\ ~MayRefresh(l, t)
            /\ line' = line /\ worker' = worker
  BY <1>0 DEF Refresh, pipeVars, walkVars
<1>2. /\ worker[r].at = "idle" /\ Sending = Sending' \union {m}
  BY <1>0, <1>1, SameInside, ServeFifos DEF Inv
<1>3. Ptw' = Ptw /\ Updates = Updates' \union {m}  BY <1>1, <1>2 DEF Updates, Writes, Ptw
<1>4. Settled  BY <1>1, Unmoved
<1>5. \A u, q : Brings(u, q) /\ ~(u = t /\ q = p) => Brings(u, q)'
  <2> SUFFICES ASSUME NEW u, NEW q, Brings(u, q), ~(u = t /\ q = p) PROVE Brings(u, q)'
    OBVIOUS
  <2>1. Coming(u, q) => Coming(u, q)'  BY <1>0, <1>3 DEF Coming
  <2> QED BY <2>1, <1>3, <1>4, BringsAt
<1>6. \A x \in Ahead' : x \in Ahead  BY <1>1, AheadServed
<1>7. Behind'
  <2> SUFFICES ASSUME NEW x \in Ahead' PROVE BehindAt(x)'  BY DEF Behind
  <2> QED BY <1>1, <1>3, <1>4, <1>6, BehindStays DEF Behind
<1>8. /\ \A q : Flushing(q) => Flushing(q)'
      /\ worker' = worker \/ Flushing(p)'
  <2>1. worker \in [Rams -> WorkerState]  BY DEF Inv, CacheInv, WorkersTyped
  <2>2. CASE worker' = worker  BY <2>2 DEF Flushing
  <2>3. CASE worker' = [worker EXCEPT ![r] = [at |-> "flush", by |-> t, page |-> p,
                                              result |-> m.result, cur |-> l.head]]
    <3>1. worker'[r].at = "flush" /\ worker'[r].page = p /\ \A q \in Rams \ {r} : worker'[q] = worker[q]
      BY <2>1, <2>3
    <3> QED BY <3>1, <1>2 DEF Flushing
  <2> QED BY <2>2, <2>3, <1>1
<1>9. /\ \A q \in DOMAIN line' : q \in DOMAIN line /\ line'[q] = line[q]
      /\ p \in DOMAIN line' => \/ Flushing(p)'
                               \/ l.is_req /\ ~l.suspended /\ l.owner # t /\ ~Flushing(p)'
  <2>1. CASE p \in DOMAIN line /\ ~l.is_req /\ line' = Without(line, p)
    BY <2>1, WithoutType
  <2>2. CASE line' = line /\ p \in DOMAIN line /\ l.is_req /\ ~MayRefresh(l, t)
    BY <2>2, <1>8 DEF MayRefresh
  <2>3. CASE /\ p \in DOMAIN line /\ l.is_req /\ MayRefresh(l, t) /\ line' = line
             /\ worker' = [worker EXCEPT ![r] = [at |-> "flush", by |-> t, page |-> p,
                                                 result |-> m.result, cur |-> l.head]]
    <3>1. worker[r] # worker'[r]
      <4>1. worker'[r].at = "flush"  BY <2>3 DEF Inv, CacheInv, WorkersTyped
      <4> QED BY <4>1, <1>2
    <3> QED BY <3>1, <2>3, <1>8
  <2> QED BY <2>1, <2>2, <2>3, <1>1
<1>10. Kept'
  <2> SUFFICES ASSUME NEW q \in DOMAIN line', ~Flushing(q)' PROVE KeptAt(q)'
    BY DEF Kept, KeptAt
  <2>0. PICK k : k = line[q]  OBVIOUS
  <2>1. q \in DOMAIN line /\ line'[q] = k /\ ~Flushing(q) /\ KeptAt(q)  BY <2>0, <1>8, <1>9 DEF Kept
  <2>2. IF k.is_req /\ ~k.suspended THEN Brings(k.owner, q) ELSE \E u \in Tasks : Brings(u, q)
    BY <2>0, <2>1 DEF KeptAt
  <2>3. q = p => k.is_req /\ ~k.suspended /\ k.owner # t  BY <2>0, <1>0, <1>9
  <2>4. IF k.is_req /\ ~k.suspended THEN Brings(k.owner, q)' ELSE \E u \in Tasks : Brings(u, q)'
    BY <2>2, <2>3, <1>5
  <2> QED BY <2>1, <2>4 DEF KeptAt
<1> QED BY <1>7, <1>10

\* A chain is flushed: its line goes when it is done.
LEMMA FlushPromise ==
  ASSUME Inv, Behind, Kept, NEW r \in Rams, FlushEntry(r)
  PROVE  Behind' /\ Kept'
<1>0. PICK p, nxt : p = worker[r].page /\ nxt = entry[worker[r].cur].next
  OBVIOUS
<1>1. /\ worker[r].at = "flush"
      /\ nxt = NoIdx => line' = Without(line, p) /\ worker' = [worker EXCEPT ![r] = IdleWorker]
      /\ nxt # NoIdx => worker' = [worker EXCEPT ![r].cur = nxt] /\ line' = line
      /\ UNCHANGED <<page, pipeVars, ram_fifo, ptw_fifo, bypass, walking, rsp_write, agg>>
  BY <1>0 DEF FlushEntry, walkVars
<1>2. Sending' = Sending  BY <1>1, SameFifos DEF Inv
<1>3. Updates' = Updates /\ Ptw' = Ptw  BY <1>1, <1>2 DEF Updates, Writes, Ptw
<1>4. Settled  BY <1>1, Unmoved
<1>5. \A t, q : Brings(t, q) => Brings(t, q)'  BY <1>3, <1>4, BringsStays
<1>6. \A x \in Ahead' : x \in Ahead  BY <1>1, AheadSame DEF pipeVars
<1>7. Behind'
  <2> SUFFICES ASSUME NEW x \in Ahead' PROVE BehindAt(x)'  BY DEF Behind
  <2> QED BY <1>1, <1>3, <1>4, <1>6, BehindStays DEF Behind
<1>8. worker \in [Rams -> WorkerState]  BY DEF Inv, CacheInv, WorkersTyped
<1>9. CASE nxt = NoIdx
  <2>0. line' = Without(line, p)  BY <1>1, <1>9
  <2>1. DOMAIN line' = DOMAIN line \ {p} /\ \A q \in DOMAIN line \ {p} : line'[q] = line[q]
    BY <2>0, WithoutType
  <2>2. \A q \in Rams \ {r} : worker'[q] = worker[q]  BY <1>1, <1>8, <1>9
  <2>3. \A q : q # p /\ Flushing(q) => Flushing(q)'  BY <2>2, <1>0 DEF Flushing
  <2>4. Kept'  BY <2>1, <2>3, <1>5, KeptStays
  <2> QED BY <2>4, <1>7
<1>10. CASE nxt # NoIdx
  <2>1. worker' = [worker EXCEPT ![r] = [worker[r] EXCEPT !.cur = nxt]]  BY <1>1, <1>10
  <2>2. worker'[r].at = "flush" /\ worker'[r].page = p
    <3> DEFINE w == [worker[r] EXCEPT !.cur = nxt]
    <3>1. w.at = "flush" /\ w.page = p  BY <1>0, <1>1, <1>8 DEF WorkerState
    <3>2. worker' = [worker EXCEPT ![r] = w]  BY <2>1
    <3> HIDE DEF w
    <3> QED BY <3>1, <3>2, <1>8
  <2>3. \A q \in Rams \ {r} : worker'[q] = worker[q]  BY <2>1, <1>8
  <2>4. \A q : Flushing(q) => Flushing(q)'  BY <2>2, <2>3, <1>0 DEF Flushing
  <2>5. Kept'  BY <2>4, <1>1, <1>5, <1>10, KeptStays
  <2> QED BY <2>5, <1>7
<1> QED BY <1>9, <1>10

-----------------------------------------------------------------------------
(* The steps of the PTW and of the groups.                                  *)

LEMMA PtwStartPromise ==
  ASSUME Inv, Behind, Kept, PtwStart
  PROVE  Behind' /\ Kept'
<1>1. /\ ptw_fifo # << >> /\ ptw_fifo' = Tail(ptw_fifo) /\ walking' = walking \union {Head(ptw_fifo)}
      /\ UNCHANGED <<page, pipeVars, ram_fifo, worker, line, bypass, rsp_write, agg>>
  BY DEF PtwStart, cacheVars
<1>2. ToSet(ptw_fifo) = {Head(ptw_fifo)} \union ToSet(ptw_fifo')
  BY <1>1, TailSet DEF Inv, WalkInv, WalksTyped
<1>3. Ptw' = Ptw  BY <1>1, <1>2 DEF Ptw
<1>4. Sending' = Sending  BY <1>1, SameFifos DEF Inv
<1>5. Updates' = Updates  BY <1>1, <1>4 DEF Updates, Writes
<1>6. \A m \in Ahead' : m \in Ahead  BY <1>1, AheadSame DEF pipeVars
<1>7. \A p : Flushing(p) => Flushing(p)'  BY <1>1 DEF Flushing
<1> QED BY <1>1, <1>3, <1>5, <1>6, <1>7, Unmoved, QuietStep

\* A walk ends and its task leaves the PTW.  If it did not go around the cache,
\* an update of every page that it covered is on its way.
LEMMA WalkLeaves ==
  ASSUME Inv, Behind, Kept, NEW t \in walking, walking' = walking \ {t},
         UNCHANGED <<page, inside_fifo, hash_in, ram_fifo, worker, line, ptw_fifo, bypass>>,
         \A m \in Updates : m \in Updates', \A g \in ToSet(agg) : g \in ToSet(agg'),
         t \notin bypass => \A p : Covers(t, p) => Coming(t, p)',
         \A m \in Ahead : m.by = t => \E g \in ToSet(agg') : WritesPage(g, m)
  PROVE  Behind' /\ Kept'
<1>1. Settled  BY Unmoved
<1>2. \A u \in Ptw : u # t => u \in Ptw'  BY DEF Ptw
<1>3. \A p, u : Coming(u, p) => Coming(u, p)'  BY DEF Coming
<1>4. \A u, p : Brings(u, p) => Brings(u, p)'
  <2> SUFFICES ASSUME NEW u, NEW p, Brings(u, p) PROVE Brings(u, p)'
    OBVIOUS
  <2>1. CASE u # t  BY <2>1, <1>1, <1>2, <1>3, BringsAt
  <2>2. CASE u = t
    <3>1. t \notin bypass' /\ Coming(t, p)'  BY <2>2, <1>3 DEF Brings
    <3> QED BY <3>1, <2>2 DEF Brings
  <2> QED BY <2>1, <2>2
<1>5. \A m \in Ahead' : m \in Ahead  BY AheadSame
<1>6. Behind'
  <2> SUFFICES ASSUME NEW m \in Ahead' PROVE BehindAt(m)'  BY DEF Behind
  <2>1. BehindAt(m)  BY <1>5 DEF Behind
  <2>2. CASE m.by # t  BY <2>1, <2>2, <1>1, <1>2, BehindStays
  <2>3. CASE m.by = t
    <3>1. \E g \in ToSet(agg') : WritesPage(g, m)  BY <2>3, <1>5
    <3>2. m.page \in NextPages(m.by)' /\ m.by \notin bypass'
      BY <2>1 DEF BehindAt, NextPages, GroupDepth
    <3>3. \A g : WritesPage(g, m)' <=> WritesPage(g, m)  BY DEF WritesPage
    <3> QED BY <3>1, <3>2, <3>3 DEF BehindAt
  <2> QED BY <2>2, <2>3
<1>7. \A p : Flushing(p) => Flushing(p)'  BY DEF Flushing
<1>8. Kept'  BY <1>4, <1>7, KeptStays
<1> QED BY <1>6, <1>8

LEMMA GroupPromise ==
  ASSUME ~FirstTable, Inv, Behind, Kept, NEW t \in Tasks, GroupEnds(t)
  PROVE  Behind' /\ Kept'
<1>1. /\ t \in walking /\ walking' = walking \ {t} /\ GroupDepth(page[t]) > 0
      /\ UNCHANGED <<page, pipeVars, ram_fifo, line, worker, ptw_fifo, bypass, rsp_write>>
      /\ UNCHANGED <<inside_fifo, hash_in>>
  BY DEF GroupEnds, Released, cacheVars, pipeVars
<1>2. page[t] \in Pages /\ t \notin Sent
  BY <1>1, Movers DEF Ptw, Inv, TaskInv, Places
<1>3. GroupDepth(page[t]) \in Nat /\ page[t] \in Nat  BY <1>2, DepthType, Numbers
<1>4. PICK res \in [1 .. GroupDepth(page[t]) + 1 -> Results] : agg' = Append(agg, Group(t, res))
  <2> DEFINE res == [d \in 1 .. GroupDepth(page[t]) + 1 |-> ResultOf(page[t] + d - 1)]
  <2>1. res \in [1 .. GroupDepth(page[t]) + 1 -> Results]  BY DEF ResultOf, Results
  <2>2. agg' = Append(agg, Group(t, res))  BY DEF GroupEnds
  <2> QED BY <2>1, <2>2
<1>5. PICK g : g = Group(t, res)  OBVIOUS
<1>6. /\ g \in GroupRecord /\ g.main = t /\ g.bypass = MarkedBypass(t)
      /\ g.fault <=> page[t] \in Unmapped
      /\ GroupShape(g)
      /\ ~g.bypass /\ ~FirstTable =>
           \A d \in 0 .. GroupDepth(page[t]) : \E m \in ToSet(g.writes) : m.page = page[t] + d
  BY <1>1, <1>2, <1>5, GroupMade
<1>7. t \notin Mains  BY <1>2 DEF Sent
<1>8. /\ ToSet(agg') = ToSet(agg) \union {g} /\ Writes' = Writes \union ToSet(g.writes)
  BY <1>1, <1>4, <1>5, <1>6, <1>7, GroupAppended DEF Inv, WalkInv
<1>9. Sending' = Sending  BY <1>1, SameFifos DEF Inv
<1>10. \A m \in Updates : m \in Updates'  BY <1>8, <1>9 DEF Updates
<1>11. ASSUME t \notin bypass, NEW p, Covers(t, p)
       PROVE  \E u \in ToSet(g.writes) : u.page = p /\ u.by = t
  <2>1. p - page[t] \in 0 .. GroupDepth(page[t]) /\ page[t] + (p - page[t]) = p
    BY <1>3, <1>11 DEF Covers
  <2>2. ~g.bypass  BY <1>6, <1>11 DEF MarkedBypass
  <2>3. \E u \in ToSet(g.writes) : u.page = p  BY <2>1, <2>2, <1>6
  <2> QED BY <2>3, <1>6 DEF GroupShape
<1>12. t \notin bypass => \A p : Covers(t, p) => Coming(t, p)'
  <2> SUFFICES ASSUME t \notin bypass, NEW p, Covers(t, p) PROVE Coming(t, p)'
    OBVIOUS
  <2>1. PICK u \in ToSet(g.writes) : u.page = p /\ u.by = t  BY <1>11
  <2>2. u \in Updates'  BY <2>1, <1>8 DEF Updates
  <2> QED BY <2>1, <2>2 DEF Coming
<1>13. \A m \in Ahead : m.by = t => \E h \in ToSet(agg') : WritesPage(h, m)
  <2> SUFFICES ASSUME NEW m \in Ahead, m.by = t PROVE WritesPage(g, m)
    BY <1>8
  <2>1. t \notin bypass /\ m.page \in (page[t] + 1) .. (page[t] + GroupDepth(page[t]))
    BY DEF Behind, BehindAt, NextPages
  <2>2. Covers(t, m.page)  BY <2>1, <1>3 DEF Covers
  <2> QED BY <2>1, <2>2, <1>6, <1>11 DEF WritesPage
<1> QED BY <1>1, <1>8, <1>10, <1>12, <1>13, WalkLeaves

\* The last page of a page table: its group is the page alone.
LEMMA LastPagePromise ==
  ASSUME Inv, Behind, Kept, NEW t \in Tasks, LastPageEnds(t)
  PROVE  Behind' /\ Kept'
<1>1. /\ t \in walking /\ walking' = walking \ {t} /\ rsp_write = << >> /\ GroupDepth(page[t]) = 0
      /\ UNCHANGED <<page, pipeVars, ram_fifo, line, worker, ptw_fifo, bypass, agg>>
      /\ UNCHANGED <<inside_fifo, hash_in>>
      /\ t \in bypass => rsp_write' = rsp_write
      /\ t \notin bypass => rsp_write' = <<Update(t, page[t], "ok")>>
  BY DEF LastPageEnds, Released, cacheVars, pipeVars
<1>2. page[t] \in Pages  BY <1>1, Movers DEF Ptw
<1>3. page[t] \in Nat  BY <1>2, Numbers
<1>4. PICK m : m = Update(t, page[t], "ok")  OBVIOUS
<1>5. m \in Message /\ m.kind = "update" /\ m.page = page[t] /\ m.by = t
  <2>1. "ok" \in Results  BY DEF Results
  <2>2. /\ Update(t, page[t], "ok") \in Message /\ Update(t, page[t], "ok").kind = "update"
        /\ Update(t, page[t], "ok").page = page[t] /\ Update(t, page[t], "ok").by = t
    BY <2>1, <1>2 DEF Update, Message
  <2> QED BY <2>2, <1>4
<1>6. Writes' = Writes  BY <1>1 DEF Writes
<1>7. /\ t \in bypass => Sending' = Sending
      /\ t \notin bypass => Sending' = Sending \union {m}
  <2>1. CASE t \in bypass  BY <2>1, <1>1, SameFifos DEF Inv
  <2>2. CASE t \notin bypass
    <3>1. rsp_write' = <<m>>  BY <2>2, <1>1, <1>4
    <3> QED BY <3>1, <2>2, <1>1, <1>5, AnswerFifos DEF Inv
  <2> QED BY <2>1, <2>2
<1>8. \A x \in Updates : x \in Updates'  BY <1>6, <1>7 DEF Updates
<1>9. t \notin bypass => \A p : Covers(t, p) => Coming(t, p)'
  <2> SUFFICES ASSUME t \notin bypass, NEW p, Covers(t, p) PROVE Coming(t, p)'
    OBVIOUS
  <2>1. p = page[t]  BY <1>1, <1>3 DEF Covers
  <2>2. m \in Updates'  BY <1>7 DEF Updates
  <2> QED BY <2>1, <2>2, <1>5 DEF Coming
<1>10. \A x \in Ahead : x.by # t
  <2> SUFFICES ASSUME NEW x \in Ahead, x.by = t PROVE FALSE  OBVIOUS
  <2>1. x.page \in (page[t] + 1) .. (page[t] + 0)  BY <1>1 DEF Behind, BehindAt, NextPages
  <2> QED BY <2>1, <1>3
<1>11. \A g \in ToSet(agg) : g \in ToSet(agg')  BY <1>1
<1> QED BY <1>1, <1>8, <1>9, <1>10, <1>11, WalkLeaves

\* The updates on their way into update_fifo.
LEMMA RspWritePromise ==
  ASSUME Inv, Behind, Kept, RspWrite
  PROVE  Behind' /\ Kept'
<1>1. UNCHANGED <<page, inside_fifo, hash_in, ram_fifo, worker, line, ptw_fifo, bypass, walking, agg>>
  BY DEF RspWrite, cacheVars
<1>2. Sending' = Sending  BY RspWriteFifos DEF Inv, WalkInv, Limits
<1>3. Updates' = Updates /\ Ptw' = Ptw  BY <1>1, <1>2 DEF Updates, Writes, Ptw
<1>4. \A m \in Ahead' : m \in Ahead  BY <1>1, AheadSame
<1>5. \A p : Flushing(p) => Flushing(p)'  BY <1>1 DEF Flushing
<1> QED BY <1>1, <1>3, <1>4, <1>5, Unmoved, QuietStep

LEMMA AggPromise ==
  ASSUME Prompt, Inv, Behind, Kept, AggWrite \/ AggBypass
  PROVE  Behind' /\ Kept'
<1>0. PICK g : g = Head(agg)  OBVIOUS
<1>1. /\ UNCHANGED <<page, inside_fifo, hash_in, ram_fifo, worker, line, ptw_fifo, bypass, walking>>
      /\ agg # << >>
  BY DEF AggWrite, AggBypass, cacheVars, pipeVars
<1>2. Ptw' = Ptw /\ Settled  BY <1>1, Unmoved DEF Ptw
<1>3. /\ Updates' = Updates /\ g.main \in Tasks
      /\ \A m \in Ahead : m.by # g.main
      /\ \A h \in ToSet(agg) : h.main # g.main => h \in ToSet(agg')
  <2>1. CASE AggWrite
    <3> PICK u : u = Head(g.writes)  OBVIOUS
    <3>1. /\ Head(agg).writes # << >> /\ agg' = AfterWrite /\ page' = page /\ ~OnItsWay(g.main)
          /\ Len(update_fifo) < UPDATE_DEPTH /\ update_fifo' = Append(update_fifo, u)
          /\ UNCHANGED <<request_fifo, rsp_write>>
      BY <2>1, <1>0 DEF AggWrite, AfterWrite
    <3>2. /\ u \in Message /\ u.kind = "update" /\ Writes = Writes' \union {u} /\ g \in GroupRecord
          /\ \A h \in ToSet(agg) : h.main # g.main => h \in ToSet(agg')
      BY <3>1, <1>0, <1>1, GroupWrites DEF Inv, WalkInv
    <3>3. Sending' = Sending \union {u}  BY <3>1, <3>2, <1>1, WriteFifos DEF Inv
    <3>4. Updates' = Updates  BY <3>2, <3>3 DEF Updates
    <3>5. \A m \in Ahead : m.by # g.main  BY <3>1 DEF OnItsWay, Ahead, Queued, InRam
    <3>6. g.main \in Tasks  BY <3>2, GroupFields
    <3> QED BY <3>2, <3>4, <3>5, <3>6
  <2>2. CASE AggBypass
    <3>1. /\ Head(agg).writes = << >> /\ agg' = Tail(agg)
          /\ UNCHANGED <<page, pipeVars, ram_fifo, rsp_write>>
      BY <2>2 DEF AggBypass, cacheVars
    <3>2. g \in GroupRecord /\ g.main \in Awaited /\ Writes' = Writes
      BY <3>1, <1>0, <1>1, GroupForwards DEF Inv, WalkInv
    <3>3. Sending' = Sending  BY <3>1, SameFifos DEF Inv
    <3>4. g.main \in bypass  BY <3>2 DEF Inv, TaskInv, Places
    <3>5. \A m \in Ahead : m.by # g.main  BY <3>4 DEF Behind, BehindAt
    <3>6. ToSet(agg) = {g} \union ToSet(agg')  BY <3>1, <1>0, <1>1, TailSet DEF Inv, WalkInv, Groups
    <3>7. g.main \in Tasks  BY <3>2, GroupFields
    <3> QED BY <3>2, <3>3, <3>5, <3>6, <3>7 DEF Updates
  <2> QED BY <2>1, <2>2
<1>4. \A t, p : Brings(t, p) => Brings(t, p)'  BY <1>2, <1>3, BringsStays
<1>5. \A m \in Ahead' : m \in Ahead  BY <1>1, AheadSame
<1>6. Behind'
  <2> SUFFICES ASSUME NEW m \in Ahead' PROVE BehindAt(m)'  BY DEF Behind
  <2>1. m \in Ahead /\ BehindAt(m) /\ m.by # g.main  BY <1>3, <1>5 DEF Behind
  <2> QED BY <2>1, <1>2, <1>3, BehindStays
<1>7. \A p : Flushing(p) => Flushing(p)'  BY <1>1 DEF Flushing
<1>8. Kept'  BY <1>1, <1>4, <1>7, KeptStays
<1> QED BY <1>6, <1>8

LEMMA PromiseKept ==
  ASSUME Prompt, Unmapped = {}, ~FirstTable, Inv, Behind, Kept, [Next]_vars
  PROVE  Behind' /\ Kept'
<1>1. ASSUME NEW t \in Tasks, NEW p \in Pages, Arrive(t, p) PROVE Behind' /\ Kept'
  BY <1>1, ArrivePromise
<1>2. CASE Schedule \/ Dispatch  BY <1>2, PassingPromise
<1>3. ASSUME NEW r \in Rams, Worker(r) PROVE Behind' /\ Kept'
  <2>1. CASE Suspend(r) \/ ConflictBypass(r) \/ BufferFull(r)
    <3>1. /\ Serves(r, "request") /\ UNCHANGED <<page, pipeVars, line, walking, rsp_write, agg>>
          /\ UNCHANGED <<ptw_fifo, bypass>> \/ GoAround(Head(ram_fifo[r]).by)
      BY <2>1 DEF Suspend, ConflictBypass, BufferFull, walkVars
    <3>2. \A q \in Rams : worker[q].at = "flush" => worker'[q] = worker[q]
      <4>1. worker[r].at = "idle"  BY <3>1, RamServed
      <4>2. worker' = worker \/ \E w : worker' = [worker EXCEPT ![r] = w]
        BY <2>1 DEF Suspend, ConflictBypass, BufferFull
      <4> QED BY <4>1, <4>2 DEF Inv, CacheInv, WorkersTyped
    <3> QED BY <3>1, <3>2, RequestPromise
  <2>2. CASE Upgrade(r)  BY <2>2, UpgradePromise
  <2>3. CASE Own(r)  BY <2>3, OwnPromise
  <2>4. CASE BypassAfterWait(r)  BY <2>4, AfterWaitPromise
  <2>5. CASE Placehold(r)  BY <2>5, PlaceholdPromise
  <2>6. CASE Refresh(r)  BY <2>6, RefreshPromise
  <2>7. CASE FlushEntry(r)  BY <2>7, FlushPromise
  <2> QED BY <2>1, <2>2, <2>3, <2>4, <2>5, <2>6, <2>7, <1>3 DEF Worker
<1>4. CASE PtwStart  BY <1>4, PtwStartPromise
<1>5. ASSUME NEW t \in Tasks, WalkEnds(t) PROVE Behind' /\ Kept'
  <2>1. ~FaultAlone(t) /\ ~FaultInGroup(t)  BY DEF FaultAlone, FaultInGroup
  <2> QED BY <2>1, <1>5, GroupPromise, LastPagePromise DEF WalkEnds
<1>6. CASE RspWrite  BY <1>6, RspWritePromise
<1>7. CASE AggWrite \/ AggBypass  BY <1>7, AggPromise
<1>8. CASE UNCHANGED vars
  <2>1. UNCHANGED <<page, bypass, ptw_fifo, walking, agg, line, worker, inside_fifo, hash_in,
                    update_fifo, rsp_write, ram_fifo>>
    BY <1>8 DEF vars, pipeVars, cacheVars, walkVars
  <2>2. Updates' = Updates /\ Ptw' = Ptw  BY <2>1 DEF Updates, Sending, InRam, Writes, Ptw
  <2>3. \A m \in Ahead' : m \in Ahead  BY <2>1, AheadSame
  <2>4. \A p : Flushing(p) => Flushing(p)'  BY <2>1 DEF Flushing
  <2> QED BY <2>1, <2>2, <2>3, <2>4, Unmoved, QuietStep
<1> QED BY <1>1, <1>2, <1>3, <1>4, <1>5, <1>6, <1>7, <1>8 DEF Next

LEMMA KeptRefreshes ==
  ASSUME Inv, Kept
  PROVE  NoAbandonedLine
<1>1. ASSUME NEW t, NEW p, Brings(t, p) PROVE t \in Refreshers(p)
  <2>1. t \in Tasks  BY <1>1, Movers DEF Brings
  <2>2. CASE t \in Ptw /\ Covers(t, p)
    BY <2>1, <2>2, <1>1 DEF Refreshers, InPtw, Ptw, MarkedBypass, Brings
  <2>3. CASE Coming(t, p)
    <3>1. PICK m \in Updates : m.page = p /\ m.by = t  BY <2>3 DEF Coming
    <3>2. m.kind = "update"
      <4>1. CASE m \in Sending  BY <4>1 DEF Sending
      <4>2. ASSUME NEW g \in ToSet(agg), m \in ToSet(g.writes) PROVE m.kind = "update"
        BY <4>2 DEF Inv, WalkInv, Groups, GroupShape
      <4> QED BY <3>1, <4>1, <4>2 DEF Updates, Writes
    <3>3. m \in UpdatesComing
      <4>1. CASE m \in Sending  BY <4>1 DEF Sending, InRam, UpdatesComing
      <4>2. CASE m \in Writes  BY <4>2 DEF Writes, UpdatesComing
      <4> QED BY <3>1, <4>1, <4>2 DEF Updates
    <3> QED BY <3>1, <3>2, <3>3, <2>1 DEF Refreshers
  <2> QED BY <2>2, <2>3, <1>1 DEF Brings
<1> SUFFICES ASSUME NEW p \in DOMAIN line, ~Flushing(p)
             PROVE  IF line[p].is_req /\ ~line[p].suspended THEN line[p].owner \in Refreshers(p)
                                                            ELSE Refreshers(p) # {}
  BY DEF NoAbandonedLine
<1>2. KeptAt(p)  BY DEF Kept
<1> QED BY <1>1, <1>2 DEF KeptAt

\* Every line that is not being flushed has a refresh to come that its owner rule will
\* not turn away: the owner's own group, or, for the line of a waiting task and for a
\* placeholder, some group that covers the page (cache_subsystem.cpp:2612-2621); so no
\* chain waits for a walk that nobody makes.  With a page that faults, with page 0 at
\* IOVA 0, or with a group flushed before its placeholders went through the pipeline,
\* the code gives no such promise.
THEOREM NothingAbandoned ==
  ASSUME Prompt, Unmapped = {}, ~FirstTable
  PROVE  Spec => []NoAbandonedLine
<1>1. Init => Behind /\ Kept
  BY DEF Init, Behind, Kept, Ahead, Queued, InRam, ToSet
<1>2. Inv /\ Behind /\ Kept => NoAbandonedLine  BY KeptRefreshes
<1>3. Inv /\ Behind /\ Kept /\ [Next]_vars => Inv' /\ Behind' /\ Kept'
  BY PromiseKept, InvKept
<1> QED BY <1>1, <1>2, <1>3, InitInv, PTL DEF Spec
=============================================================================
