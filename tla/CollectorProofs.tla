--------------------------- MODULE CollectorProofs ---------------------------
(***************************************************************************)
(* Theorems about Collector, for any directories, requests, limits and     *)
(* depths of the FIFOs.                                                    *)
(***************************************************************************)
EXTENDS Collector, SequencesExt, FiniteSetTheorems, WellFoundedInduction, TLAPS

-----------------------------------------------------------------------------
(* Lemmas about lists and numbers.                                          *)

\* Appending adds one element at the end.
LEMMA AppendSet ==
  ASSUME NEW S, NEW s \in Seq(S), NEW e \in S
  PROVE  /\ Append(s, e) \in Seq(S)
         /\ ToSet(Append(s, e)) = ToSet(s) \union {e}
<1> DEFINE t == Append(s, e)
<1>1. /\ t \in Seq(S)
      /\ Len(t) = Len(s) + 1 /\ Len(s) \in Nat
      /\ DOMAIN s = 1 .. Len(s) /\ DOMAIN t = 1 .. (Len(s) + 1)
      /\ \A i \in 1 .. Len(s) : t[i] = s[i]
      /\ t[Len(s) + 1] = e
  OBVIOUS
<1> HIDE DEF t
<1>2. ToSet(t) = ToSet(s) \union {e}
  <2>1. ASSUME NEW i \in DOMAIN t PROVE t[i] \in ToSet(s) \union {e}
    <3>1. i \in 1 .. Len(s) \/ i = Len(s) + 1  BY <1>1
    <3> QED BY <3>1, <1>1 DEF ToSet
  <2>2. ASSUME NEW i \in DOMAIN s PROVE s[i] \in ToSet(t)
    <3>1. i \in DOMAIN t /\ t[i] = s[i]  BY <1>1
    <3> QED BY <3>1 DEF ToSet
  <2>3. e \in ToSet(t)
    <3>1. Len(s) + 1 \in DOMAIN t  BY <1>1
    <3> QED BY <3>1, <1>1 DEF ToSet
  <2> QED BY <2>1, <2>2, <2>3 DEF ToSet
<1> QED BY <1>1, <1>2 DEF t

\* Taking the head off leaves the other elements.
LEMMA TailSet ==
  ASSUME NEW S, NEW s \in Seq(S), s # << >>
  PROVE  /\ Tail(s) \in Seq(S) /\ Head(s) \in S
         /\ ToSet(s) = {Head(s)} \union ToSet(Tail(s))
<1> DEFINE t == Tail(s)
<1>1. /\ t \in Seq(S) /\ Head(s) \in S
      /\ Len(s) \in Nat \ {0} /\ Len(t) = Len(s) - 1
      /\ DOMAIN s = 1 .. Len(s) /\ DOMAIN t = 1 .. (Len(s) - 1)
      /\ \A i \in 1 .. (Len(s) - 1) : t[i] = s[i + 1]
      /\ Head(s) = s[1]
  OBVIOUS
<1> HIDE DEF t
<1>2. ToSet(s) = {Head(s)} \union ToSet(t)
  <2>1. ASSUME NEW i \in DOMAIN s PROVE s[i] \in {Head(s)} \union ToSet(t)
    <3>1. CASE i = 1  BY <3>1, <1>1
    <3>2. CASE i # 1
      <4>1. i - 1 \in DOMAIN t /\ t[i - 1] = s[i]  BY <3>2, <1>1
      <4> QED BY <4>1 DEF ToSet
    <3> QED BY <3>1, <3>2
  <2>2. ASSUME NEW i \in DOMAIN t PROVE t[i] \in ToSet(s)
    <3>1. i + 1 \in DOMAIN s /\ t[i] = s[i + 1]  BY <1>1
    <3> QED BY <3>1 DEF ToSet
  <2>3. Head(s) \in ToSet(s)
    <3>1. 1 \in DOMAIN s  BY <1>1
    <3> QED BY <3>1, <1>1 DEF ToSet
  <2> QED BY <2>1, <2>2, <2>3 DEF ToSet
<1> QED BY <1>1, <1>2 DEF t

\* A sequence over a set is one over a larger set.
LEMMA SeqMonotone ==
  ASSUME NEW S, NEW T, S \subseteq T
  PROVE  Seq(S) \subseteq Seq(T)
OBVIOUS

LEMMA IntervalFinite == \A n \in Nat : IsFiniteSet(1 .. n)
BY FS_Interval

\* A set of natural numbers has a least element: < is well founded on Nat.
LEMMA NaturalsHaveMin ==
  ASSUME NEW S \in SUBSET Nat, S # {}
  PROVE  \E m \in S : \A n \in S : m <= n
<1> DEFINE R == OpToRel(<, Nat)
<1>1. IsWellFoundedOn(R, Nat)  BY NatLessThanWellFounded
<1>2. PICK m \in S : \A n \in S : <<n, m>> \notin R
  <2> HIDE DEF R
  <2> QED BY <1>1, WFMin
<1>3. ASSUME NEW n \in S PROVE m <= n
  <2>1. ~(n < m)  BY <1>2 DEF OpToRel
  <2> QED BY <2>1
<1> QED BY <1>3

\* How many elements of a list are in X.
CountIn(s, X) == Cardinality({i \in DOMAIN s : s[i] \in X})

LEMMA CountType ==
  ASSUME NEW S, NEW s \in Seq(S), NEW X
  PROVE  /\ IsFiniteSet({i \in DOMAIN s : s[i] \in X})
         /\ CountIn(s, X) \in Nat /\ CountIn(s, X) <= Len(s)
<1>1. Len(s) \in Nat /\ DOMAIN s = 1 .. Len(s)  OBVIOUS
<1>2. IsFiniteSet(1 .. Len(s)) /\ Cardinality(1 .. Len(s)) = Len(s)  BY <1>1, FS_Interval, SMTT(30)
<1>3. {i \in DOMAIN s : s[i] \in X} \in SUBSET (1 .. Len(s))  BY <1>1
<1> QED BY <1>2, <1>3, FS_Subset, FS_CardinalityType DEF CountIn

LEMMA CountEmpty == \A X : CountIn(<< >>, X) = 0
BY FS_EmptySet DEF CountIn

LEMMA CountAppend ==
  ASSUME NEW S, NEW s \in Seq(S), NEW X, NEW e
  PROVE  CountIn(Append(s, e), X) = CountIn(s, X) + (IF e \in X THEN 1 ELSE 0)
<1> DEFINE t == Append(s, e)
           A == {i \in DOMAIN s : s[i] \in X}
           B == {i \in DOMAIN t : t[i] \in X}
<1>1. /\ DOMAIN s = 1 .. Len(s) /\ DOMAIN t = 1 .. (Len(s) + 1) /\ Len(s) \in Nat
      /\ \A i \in 1 .. Len(s) : t[i] = s[i]
      /\ t[Len(s) + 1] = e
  OBVIOUS
<1>2. IsFiniteSet(A) /\ Cardinality(A) \in Nat /\ CountIn(s, X) = Cardinality(A)
  BY CountType DEF CountIn
<1>3. CountIn(t, X) = Cardinality(B)  BY DEF CountIn
<1> HIDE DEF t
<1>4. CASE e \in X
  <2>1. B = A \union {Len(s) + 1} /\ Len(s) + 1 \notin A  BY <1>1, <1>4
  <2> QED BY <1>2, <1>3, <1>4, <2>1, FS_AddElement, ZenonT(40) DEF t
<1>5. CASE e \notin X
  <2>1. ASSUME NEW i \in B PROVE i \in A
    <3>1. i \in 1 .. (Len(s) + 1) /\ t[i] \in X  BY <1>1
    <3>2. i # Len(s) + 1  BY <3>1, <1>1, <1>5
    <3>3. i \in 1 .. Len(s)  BY <3>1, <3>2, <1>1
    <3> QED BY <3>1, <3>3, <1>1
  <2>2. ASSUME NEW i \in A PROVE i \in B
    <3>1. i \in 1 .. Len(s) /\ s[i] \in X  BY <1>1
    <3> QED BY <3>1, <1>1
  <2>3. B = A  BY <2>1, <2>2
  <2>4. Cardinality(B) = Cardinality(A)  BY <2>3, Zenon
  <2>5. CountIn(t, X) = CountIn(s, X)
    <3> HIDE DEF A, B
    <3> QED BY <1>2, <1>3, <2>4
  <2> QED BY <1>2, <1>5, <2>5 DEF t
<1> QED BY <1>4, <1>5

LEMMA CountTail ==
  ASSUME NEW S, NEW s \in Seq(S), s # << >>, NEW X
  PROVE  CountIn(Tail(s), X) = CountIn(s, X) - (IF Head(s) \in X THEN 1 ELSE 0)
<1> DEFINE t == Tail(s)
           A == {i \in DOMAIN s : s[i] \in X}
           B == {i \in DOMAIN t : t[i] \in X}
           f == [i \in B |-> i + 1]
<1>1. /\ DOMAIN s = 1 .. Len(s) /\ DOMAIN t = 1 .. (Len(s) - 1) /\ Len(s) \in Nat \ {0}
      /\ \A i \in 1 .. (Len(s) - 1) : t[i] = s[i + 1]
      /\ Head(s) = s[1]
  OBVIOUS
<1>2. IsFiniteSet(A) /\ Cardinality(A) \in Nat /\ CountIn(s, X) = Cardinality(A)
  BY CountType DEF CountIn
<1>3. CountIn(t, X) = Cardinality(B) /\ IsFiniteSet(B)
  <2>1. t \in Seq(S)  OBVIOUS
  <2> QED BY <2>1, CountType DEF CountIn
<1> HIDE DEF t
<1>4. f \in Bijection(B, A \ {1})
  <2>1. \A i \in B : i + 1 \in A \ {1}  BY <1>1
  <2>2. \A j \in A \ {1} : j - 1 \in B /\ f[j - 1] = j  BY <1>1
  <2>3. \A i, j \in B : f[i] = f[j] => i = j  BY <1>1
  <2>4. f \in [B -> A \ {1}]  BY <2>1
  <2>5. f \in Surjection(B, A \ {1})  BY <2>2, <2>4 DEF Surjection
  <2>6. f \in Injection(B, A \ {1})  BY <2>3, <2>4 DEF Injection, IsInjective
  <2> QED BY <2>5, <2>6 DEF Bijection
<1>5. Cardinality(B) = Cardinality(A \ {1})
  BY <1>3, <1>4, FS_Bijection DEF ExistsBijection
<1>6. 1 \in A <=> Head(s) \in X  BY <1>1
<1>7. Cardinality(A \ {1}) = Cardinality(A) - (IF 1 \in A THEN 1 ELSE 0)
  <2> HIDE DEF A
  <2>1. CASE 1 \in A
    <3>1. Cardinality(A \ {1}) = Cardinality(A) - 1  BY <1>2, <2>1, FS_RemoveElement
    <3> QED BY <3>1, <2>1
  <2>2. CASE 1 \notin A
    <3>1. A \ {1} = A  BY <2>2
    <3>2. Cardinality(A \ {1}) = Cardinality(A)  BY <3>1, Zenon
    <3> QED BY <3>2, <2>2, <1>2
  <2> QED BY <2>1, <2>2
<1>8. CountIn(t, X) = CountIn(s, X) - (IF Head(s) \in X THEN 1 ELSE 0)
  <2> HIDE DEF A, B
  <2> QED BY <1>2, <1>3, <1>5, <1>6, <1>7
<1> QED BY <1>8 DEF t

-----------------------------------------------------------------------------
(* Types.                                                                  *)

Arrived == 1 .. Len(asked)
Request == [dev : DOMAIN DDT, at : AddrTypes, pid_valid : BOOLEAN, pid : Nat, priv_req : BOOLEAN]
Keys == {<<d>> : d \in DOMAIN DDT} \cup {<<d, p>> : d \in DOMAIN DDT, p \in Nat}
Spots == {"free", "limit", "asleep", "write", "update"}
Reply == [task : Arrived, hit : BOOLEAN]
Result == [task : Arrived, walk : Walk]

AskedTyped == /\ asked \in Seq(Requests) /\ req \in Seq(Request)
              /\ Len(req) = Len(asked) /\ Len(asked) <= MaxTasks
CachesTyped == /\ request \in [Walk -> Seq(Arrived)] /\ response \in [Walk -> Seq(Reply)]
               /\ server \in [Walk -> [task : Arrived \cup {NoTask}, hit : BOOLEAN]]
               /\ cached \in [Walk -> SUBSET Keys] /\ update \in [Walk -> Seq(Keys)]
EntriesTyped == /\ incoming \in Seq(Arrived) /\ pending \subseteq Arrived /\ batch \subseteq Arrived
                /\ pending \cap batch = {} /\ hits \in [Walk -> SUBSET Arrived]
ThreadsTyped ==
  /\ thread \in [Threads -> [at : Spots, task : Arrived \cup {NoTask}, walk : Walk]]
  /\ \A th \in Threads : /\ thread[th].task = NoTask <=> thread[th].at = "free"
                         /\ thread[th].at = "update" => th = "response"
WalksTyped ==
  /\ walks \in [Walk -> Int] /\ to_xdtw \in [Walk -> Seq(Arrived)]
  /\ xdtw \in [Walk -> SUBSET Arrived]
  /\ finished \in [task : Arrived \cup {NoTask}, walk : Walk] /\ back \in Seq(Result)
ExitsTyped == /\ exit = [t \in Tasks |-> exit[t]]
              /\ \A t \in Tasks : exit[t].way \in Exits \ {"need_pc"}
Types == /\ AskedTyped /\ CachesTyped /\ EntriesTyped /\ ThreadsTyped /\ WalksTyped /\ ExitsTyped

Depths ==
  /\ Len(incoming) <= PARSER_DEPTH /\ Len(back) <= BACK_DEPTH
  /\ \A w \in Walk : /\ Len(request[w]) <= REQUEST_DEPTH /\ Len(response[w]) <= RESPONSE_DEPTH
                     /\ Len(update[w]) <= UPDATE_DEPTH /\ Len(to_xdtw[w]) <= XDTW_DEPTH
                     /\ walks[w] <= COLLECTOR_MAX_WALK[w] /\ Cardinality(xdtw[w]) <= XDTW_MAX[w]

LEMMA Numbers ==
  /\ \A w \in Walk : COLLECTOR_MAX_WALK[w] \in Nat \ {0} /\ XDTW_MAX[w] \in Nat \ {0}
  /\ PARSER_DEPTH \in Nat /\ REQUEST_DEPTH \in Nat /\ RESPONSE_DEPTH \in Nat
  /\ UPDATE_DEPTH \in Nat /\ XDTW_DEPTH \in Nat /\ BACK_DEPTH \in Nat /\ MaxTasks \in Nat
  /\ Requests \subseteq Request
  BY LimitAssumption, RequestAssumption DEF Request

LEMMA ArrivedTasks ==
  ASSUME AskedTyped
  PROVE  /\ Len(asked) \in Nat /\ Arrived \subseteq Tasks /\ NoTask \notin Arrived
         /\ \A t \in Arrived : asked[t] \in Request /\ req[t] \in Request /\ t \in Tasks /\ t # NoTask
<1>1. Len(asked) \in Nat /\ MaxTasks \in Nat
  BY Numbers DEF AskedTyped
<1>2. Arrived \subseteq Tasks /\ NoTask \notin Arrived
  BY <1>1 DEF AskedTyped, Arrived, Tasks, NoTask
<1>3. \A t \in Arrived : asked[t] \in Requests /\ req[t] \in Request
  BY <1>1 DEF AskedTyped, Arrived
<1> QED BY <1>1, <1>2, <1>3, Numbers

-----------------------------------------------------------------------------
(* What the pieces of the threads do.                                      *)

LEMMA DefaultedTyped ==
  ASSUME NEW r \in Request, NEW dc
  PROVE  /\ Defaulted(r, dc) \in Request /\ Defaulted(r, dc).dev = r.dev
         /\ Defaulted(r, dc).pid_valid => r.pid_valid \/ Defaulted(r, dc).pid = 0
         /\ r.pid_valid => Defaulted(r, dc) = r
  BY DEF Defaulted, Request

LEMMA AfterDCWay ==
  ASSUME NEW r \in Request, NEW dc
  PROVE  AfterDC(r, dc).way \in {"fault", "forward", "route", "need_pc"}
<1>1. CASE Disallowed(r, dc)
  BY <1>1 DEF AfterDC, Fault, Exit
<1>2. CASE ~Disallowed(r, dc) /\ r.at = "translated"
  BY <1>2 DEF AfterDC, Exit
<1>3. CASE ~Disallowed(r, dc) /\ r.at # "translated" /\ ~dc.pdtv
  BY <1>3 DEF AfterDC, Exit
<1>4. CASE ~Disallowed(r, dc) /\ r.at # "translated" /\ dc.pdtv
  BY <1>4 DEF AfterDC, Exit
<1> QED BY <1>1, <1>2, <1>3, <1>4

LEMMA AfterDCNeedsPC ==
  ASSUME NEW r \in Request, NEW dc, AfterDC(r, dc).way = "need_pc"
  PROVE  /\ dc.pdtv /\ Defaulted(r, dc).pid_valid
         /\ ~Disallowed(r, dc) /\ r.at # "translated" /\ dc.mode # "bare"
<1>1. CASE Disallowed(r, dc)
  BY <1>1 DEF AfterDC, Fault, Exit
<1>2. CASE ~Disallowed(r, dc) /\ r.at = "translated"
  BY <1>2 DEF AfterDC, Exit
<1>3. CASE ~Disallowed(r, dc) /\ r.at # "translated" /\ ~dc.pdtv
  BY <1>3 DEF AfterDC, Exit
<1>4. CASE ~Disallowed(r, dc) /\ r.at # "translated" /\ dc.pdtv
  BY <1>4 DEF AfterDC, Exit
<1> QED BY <1>1, <1>2, <1>3, <1>4

LEMMA AfterPCWay ==
  ASSUME NEW r, NEW key
  PROVE  AfterPC(r, key).way \in {"fault", "route"}
  BY DEF AfterPC, Fault, Exit

\* The three ways a thread goes on with a task whose device context is known.
Context(t) == DeviceContext(req[t])
LeavesNow(th, t) ==
  /\ AfterDC(req[t], Context(t)).way # "need_pc"
  /\ Leave(t, AfterDC(req[t], Context(t))) /\ UNCHANGED req
  /\ thread' = [thread EXCEPT ![th] = Idle]
LeavesWithPC(th, t) ==
  /\ AfterDC(req[t], Context(t)).way = "need_pc"
  /\ req' = [req EXCEPT ![t] = Defaulted(req[t], Context(t))]
  /\ Leave(t, AfterPC(req'[t], Key("pdt", asked[t]))) /\ thread' = [thread EXCEPT ![th] = Idle]
AsksForPC(th, t) ==
  /\ AfterDC(req[t], Context(t)).way = "need_pc"
  /\ req' = [req EXCEPT ![t] = Defaulted(req[t], Context(t))]
  /\ Asks(th, t, "pdt") /\ UNCHANGED exit

\* All that a thread can do with a task it has taken.
Continues(th, t) ==
  \/ \E known : WithDC(th, t, known)
  \/ \E w \in Walk : Asks(th, t, w) /\ UNCHANGED <<req, exit>>
  \/ \E key : /\ Leave(t, AfterPC(req[t], key)) /\ UNCHANGED req
              /\ thread' = [thread EXCEPT ![th] = Idle]

LEMMA WithDCCases ==
  ASSUME NEW th, NEW t, NEW known, WithDC(th, t, known)
  PROVE  \/ LeavesNow(th, t)
         \/ known /\ LeavesWithPC(th, t)
         \/ ~known /\ AsksForPC(th, t)
  BY DEF WithDC, LeavesNow, LeavesWithPC, AsksForPC, Context

\* Min takes an element of a set of tasks.
LEMMA MinTask ==
  ASSUME NEW S \in SUBSET Arrived, S # {}, AskedTyped
  PROVE  Min(S) \in S
<1>1. S \subseteq Nat
  BY ArrivedTasks DEF Arrived
<1>2. \E m \in S : \A n \in S : m <= n
  BY <1>1, NaturalsHaveMin
<1> QED BY <1>2 DEF Min

-----------------------------------------------------------------------------
(* Every step keeps the types.                                             *)

LEMMA ParseTypes ==
  ASSUME Types, NEW r \in Requests, Parse(r)
  PROVE  Types'
<1> DEFINE n == Len(asked) + 1
<1>1. /\ Len(asked) < MaxTasks /\ asked' = Append(asked, r) /\ req' = Append(req, r)
      /\ incoming' = Append(incoming, n) /\ request' = [w \in Walk |-> Append(request[w], n)]
      /\ UNCHANGED <<response, cached, server, update, pending, answered, hits, batch, thread,
                     walks, to_xdtw, xdtw, finished, back, exit>>
  BY DEF Parse, entryVars, xdtwVars
<1>2. AskedTyped /\ Len(asked) \in Nat /\ MaxTasks \in Nat /\ r \in Request
  BY Numbers DEF Types, AskedTyped
<1>3. AskedTyped' /\ Len(asked') = n
  BY <1>1, <1>2 DEF AskedTyped
<1>4. Arrived \subseteq Arrived' /\ n \in Arrived'
  BY <1>2, <1>3 DEF Arrived
<1>5. /\ Seq(Arrived) \subseteq Seq(Arrived') /\ Reply \subseteq Reply' /\ Result \subseteq Result'
      /\ Seq(Reply) \subseteq Seq(Reply') /\ Seq(Result) \subseteq Seq(Result')
  <2>1. Reply \subseteq Reply' /\ Result \subseteq Result'
    BY <1>4 DEF Reply, Result
  <2> QED BY <1>4, <2>1, SeqMonotone
<1>6. CachesTyped'
  <2>1. \A w \in Walk : request'[w] \in Seq(Arrived')
    BY <1>1, <1>4, <1>5 DEF Types, CachesTyped
  <2>2. /\ request' \in [Walk -> Seq(Arrived')] /\ response' \in [Walk -> Seq(Reply')]
    BY <1>1, <1>5, <2>1 DEF Types, CachesTyped
  <2>3. server' \in [Walk -> [task : Arrived' \cup {NoTask}, hit : BOOLEAN]]
    BY <1>1, <1>4 DEF Types, CachesTyped
  <2> QED BY <1>1, <2>2, <2>3 DEF Types, CachesTyped
<1>7. EntriesTyped'
  BY <1>1, <1>4, <1>5 DEF Types, EntriesTyped
<1>8. ThreadsTyped'
  BY <1>1, <1>4 DEF Types, ThreadsTyped
<1>9. WalksTyped'
  BY <1>1, <1>4, <1>5 DEF Types, WalksTyped
<1> QED BY <1>1, <1>3, <1>6, <1>7, <1>8, <1>9 DEF Types, ExitsTyped

LEMMA CacheThreadTypes ==
  ASSUME Types, NEW w \in Walk, CacheThread(w)
  PROVE  Types'
<1>1. UNCHANGED <<asked, req, incoming, pending, batch, hits, thread, walks, to_xdtw,
                  xdtw, finished, back, exit>>
  BY DEF CacheThread, Lookup, PushResponse, Fill, entryVars, xdtwVars
<1>2. CachesTyped'
  <2>1. CASE Lookup(w)
    <3>1. PICK h \in MayHit(w, Head(request[w])) :
            server' = [server EXCEPT ![w] = [task |-> Head(request[w]), hit |-> h]]
      BY <2>1 DEF Lookup
    <3>2. h \in BOOLEAN /\ request[w] \in Seq(Arrived) /\ request[w] # <<>>
      BY <2>1 DEF MayHit, Lookup, Types, CachesTyped
    <3>3. Head(request[w]) \in Arrived /\ Tail(request[w]) \in Seq(Arrived)
      BY <3>2
    <3> QED BY <1>1, <2>1, <3>1, <3>2, <3>3 DEF Lookup, Types, CachesTyped, Arrived, Reply
  <2>2. CASE PushResponse(w)
    <3>1. server[w] \in Reply /\ response[w] \in Seq(Reply)
      BY <2>2 DEF PushResponse, Types, CachesTyped, Reply
    <3>2. Append(response[w], server[w]) \in Seq(Reply)
      BY <3>1
    <3>3. response' \in [Walk -> Seq(Reply)]
      BY <2>2, <3>2 DEF PushResponse, Types, CachesTyped
    <3>4. server' \in [Walk -> [task : Arrived \cup {NoTask}, hit : BOOLEAN]]
      BY <2>2 DEF PushResponse, Types, CachesTyped
    <3> QED BY <1>1, <2>2, <3>3, <3>4 DEF PushResponse, Types, CachesTyped, Arrived, Reply
  <2>3. CASE Fill(w)
    <3>1. update[w] \in Seq(Keys) /\ update[w] # <<>>
      BY <2>3 DEF Fill, Types, CachesTyped
    <3>2. Head(update[w]) \in Keys /\ Tail(update[w]) \in Seq(Keys)
      BY <3>1
    <3> QED BY <1>1, <2>3, <3>2 DEF Fill, Types, CachesTyped, Arrived, Reply
  <2> QED BY <2>1, <2>2, <2>3 DEF CacheThread
<1> QED BY <1>1, <1>2 DEF Types, AskedTyped, EntriesTyped, ThreadsTyped, WalksTyped, ExitsTyped,
           Arrived, Result

LEMMA GatherTypes ==
  ASSUME Types, Gather
  PROVE  Types'
<1>1. /\ incoming' = <<>> /\ response' = [w \in Walk |-> <<>>] /\ batch = {}
      /\ UNCHANGED <<asked, req, request, cached, server, update, thread, walks, to_xdtw,
                     xdtw, finished, back, exit>>
  BY DEF Gather, xdtwVars
<1>2. Entries \subseteq Arrived
  BY DEF Entries, Types, EntriesTyped, Range
<1>3. /\ pending' \cup batch' = Entries /\ pending' \cap batch' = {}
      /\ hits' = [w \in Walk |-> hits[w] \cup
                    Recorded(w, {m \in Range(response[w]) : m.hit})]
  BY DEF Gather, Entries
<1>4. \A w, ms : Recorded(w, ms) \subseteq Arrived
  BY <1>2 DEF Recorded
<1>5. EntriesTyped'
  <2>1. Arrived' = Arrived
    BY <1>1 DEF Arrived
  <2>2. \A w \in Walk : hits'[w] \in SUBSET Arrived
    BY <1>3, <1>4 DEF Types, EntriesTyped
  <2>3. hits' \in [Walk -> SUBSET Arrived]
    BY <1>3, <2>2
  <2>4. incoming' \in Seq(Arrived) /\ pending' \subseteq Arrived /\ batch' \subseteq Arrived
    BY <1>1, <1>2, <1>3
  <2> QED BY <1>3, <2>1, <2>3, <2>4 DEF EntriesTyped
<1>6. CachesTyped'
  BY <1>1 DEF Types, CachesTyped, Arrived, Reply
<1> QED BY <1>1, <1>5, <1>6 DEF Types, AskedTyped, ThreadsTyped, WalksTyped, ExitsTyped, Arrived, Result

\* A thread goes on with a task whose context it knows, or asks for a walk.
LEMMA GoesOnTypes ==
  ASSUME Types, NEW th \in Threads, NEW t \in Arrived, asked' = asked, Len(req) = Len(asked),
         Continues(th, t)
  PROVE  AskedTyped' /\ ThreadsTyped' /\ ExitsTyped'
<1>1. /\ req[t] \in Request /\ t \in Tasks /\ t # NoTask /\ t \in DOMAIN req
  BY ArrivedTasks DEF Types, AskedTyped, Arrived
<1>2. \A e : e.way \in Exits \ {"need_pc"} /\ Leave(t, e) => ExitsTyped'
  BY <1>1 DEF Leave, Types, ExitsTyped
<1>3. thread' = [thread EXCEPT ![th] = Idle] => ThreadsTyped'
  BY DEF Types, ThreadsTyped, Idle, Arrived, Spots, NoTask, Walk
<1>4. \A w \in Walk : Asks(th, t, w) => ThreadsTyped'
  BY <1>1 DEF Asks, At, Types, ThreadsTyped, Arrived, Spots
<1>5. \A r \in Request : req' = [req EXCEPT ![t] = r] => AskedTyped'
  BY <1>1 DEF Types, AskedTyped
<1>6. UNCHANGED req => AskedTyped'
  BY DEF Types, AskedTyped
<1>7. UNCHANGED exit => ExitsTyped'
  BY DEF Types, ExitsTyped
<1>8. Defaulted(req[t], Context(t)) \in Request
  BY <1>1, DefaultedTyped
<1>9. CASE LeavesNow(th, t)
  <2>1. AfterDC(req[t], Context(t)).way \in Exits \ {"need_pc"}
    BY <1>1, <1>9, AfterDCWay DEF LeavesNow, Exits
  <2> QED BY <1>2, <1>3, <1>6, <1>9, <2>1 DEF LeavesNow
<1>10. CASE LeavesWithPC(th, t)
  <2>1. AfterPC(req'[t], Key("pdt", asked[t])).way \in Exits \ {"need_pc"}
    BY AfterPCWay DEF Exits
  <2> QED BY <1>2, <1>3, <1>5, <1>8, <1>10, <2>1 DEF LeavesWithPC
<1>11. CASE AsksForPC(th, t)
  BY <1>4, <1>5, <1>7, <1>8, <1>11 DEF AsksForPC, Walk
<1>12. CASE \E w \in Walk : Asks(th, t, w) /\ UNCHANGED <<req, exit>>
  BY <1>4, <1>6, <1>7, <1>12
<1>13. CASE \E key : /\ Leave(t, AfterPC(req[t], key)) /\ UNCHANGED req
                     /\ thread' = [thread EXCEPT ![th] = Idle]
  <2>1. \A key : AfterPC(req[t], key).way \in Exits \ {"need_pc"}
    BY AfterPCWay DEF Exits
  <2> QED BY <1>2, <1>3, <1>6, <1>13, <2>1
<1> QED BY <1>9, <1>10, <1>11, <1>12, <1>13, WithDCCases DEF Continues

TakeOf(t) ==
  /\ thread["lookup"].at = "free" /\ batch' = batch \ {t}
  /\ hits' = [w \in Walk |-> hits[w] \ {t}]
  /\ \/ t \in hits["ddt"] /\ WithDC("lookup", t, t \in hits["pdt"])
     \/ t \notin hits["ddt"] /\ Asks("lookup", t, "ddt") /\ UNCHANGED <<req, exit>>
  /\ UNCHANGED <<asked, incoming, request, response, cached, server, update, pending,
                 answered, walks, to_xdtw, xdtw, finished, back>>

LEMMA TakeCases ==
  ASSUME Types, Take
  PROVE  \E t \in batch : TakeOf(t)
<1>1. Min(batch) \in batch
  BY MinTask DEF Take, Types, EntriesTyped
<1> QED BY <1>1 DEF Take, TakeOf, cacheVars, xdtwVars

LEMMA TakeTypes ==
  ASSUME Types, Take
  PROVE  Types'
<1>1. PICK t \in batch : TakeOf(t)
  BY TakeCases
<1> USE DEF TakeOf
<1>2. t \in Arrived /\ "lookup" \in Threads /\ "ddt" \in Walk /\ Len(req) = Len(asked)
  BY DEF Types, EntriesTyped, AskedTyped, Threads, Walk
<1>3. AskedTyped' /\ ThreadsTyped' /\ ExitsTyped'
  BY <1>1, <1>2, GoesOnTypes DEF Continues
<1>4. EntriesTyped'
  BY <1>1 DEF Types, EntriesTyped, Arrived
<1> QED BY <1>1, <1>3, <1>4 DEF Types, CachesTyped, WalksTyped, Arrived, Reply, Result

LEMMA ResumeTypes ==
  ASSUME Types, Resume
  PROVE  Types'
<1> DEFINE t == thread["response"].task
           w == thread["response"].walk
<1>1. /\ t \in Arrived /\ "response" \in Threads /\ w \in Walk /\ Len(req) = Len(asked)
      /\ req[t] \in Request
  BY ArrivedTasks DEF Resume, Types, ThreadsTyped, AskedTyped, Threads
<1>2. /\ update' = [update EXCEPT ![w] = Append(@, Key(w, req[t]))]
      /\ UNCHANGED <<asked, incoming, request, response, cached, server, pending, answered, hits,
                     batch, walks, to_xdtw, xdtw, finished, back>>
  BY DEF Resume, cacheVars, entryVars, xdtwVars
<1>3. AskedTyped' /\ ThreadsTyped' /\ ExitsTyped'
  <2>1. \/ \E known : WithDC("response", t, known)
        \/ \E key : /\ Leave(t, AfterPC(req[t], key)) /\ UNCHANGED req
                    /\ thread' = [thread EXCEPT !["response"] = Idle]
    BY DEF Resume
  <2> QED BY <1>1, <1>2, <2>1, GoesOnTypes DEF Continues
<1>4. Key(w, req[t]) \in Keys /\ update[w] \in Seq(Keys)
  BY <1>1 DEF Key, Keys, Request, Types, CachesTyped
<1>5. Append(update[w], Key(w, req[t])) \in Seq(Keys)
  BY <1>4
<1>6. CachesTyped'
  BY <1>1, <1>2, <1>5 DEF Types, CachesTyped, Arrived, Reply
<1> QED BY <1>2, <1>3, <1>6 DEF Types, EntriesTyped, WalksTyped, Arrived, Result

LEMMA LimitTypes ==
  ASSUME Types, NEW th \in Threads, CheckLimit(th) \/ WriteWalk(th)
  PROVE  Types'
<1>1. UNCHANGED <<asked, req, incoming, request, response, cached, server, update, pending, hits,
                  batch, xdtw, finished, back, exit>>
  BY DEF CheckLimit, WriteWalk, cacheVars, entryVars, xdtwVars
<1>2. CASE CheckLimit(th)
  <2>1. thread[th].at = "limit" /\ thread[th].walk \in Walk /\ thread[th].task # NoTask
    BY <1>2 DEF CheckLimit, Types, ThreadsTyped
  <2>2. PICK s \in {"asleep", "write"} : thread' = [thread EXCEPT ![th].at = s]
    BY <1>2 DEF CheckLimit
  <2>3. ThreadsTyped'
    BY <1>1, <2>1, <2>2 DEF Types, ThreadsTyped, Arrived, Spots
  <2>4. walks' \in [Walk -> Int] /\ to_xdtw' = to_xdtw
    BY <1>2, <2>1 DEF CheckLimit, Types, WalksTyped
  <2> QED BY <1>1, <2>3, <2>4 DEF Types, AskedTyped, CachesTyped, EntriesTyped, WalksTyped,
             ExitsTyped, Arrived, Reply, Result
<1>3. CASE WriteWalk(th)
  <2> DEFINE t == thread[th].task
             w == thread[th].walk
  <2>1. t \in Arrived /\ w \in Walk /\ to_xdtw[w] \in Seq(Arrived)
    BY <1>3 DEF WriteWalk, Types, ThreadsTyped, WalksTyped
  <2>2. /\ thread' = [thread EXCEPT ![th] = Idle] /\ walks' = walks
        /\ to_xdtw' = [to_xdtw EXCEPT ![w] = Append(to_xdtw[w], t)]
    BY <1>3 DEF WriteWalk
  <2>3. ThreadsTyped'
    BY <1>1, <2>2 DEF Types, ThreadsTyped, Idle, Arrived, Spots, NoTask, Walk
  <2>4. Append(to_xdtw[w], t) \in Seq(Arrived)
    BY <2>1
  <2>5. to_xdtw' \in [Walk -> Seq(Arrived)]
    BY <2>2, <2>4 DEF Types, WalksTyped
  <2> QED BY <1>1, <2>2, <2>3, <2>5 DEF Types, AskedTyped, CachesTyped, EntriesTyped, WalksTyped,
             ExitsTyped, Arrived, Reply, Result
<1> QED BY <1>2, <1>3

LEMMA XdtwTypes ==
  ASSUME Types, XdtwRequest \/ XdtwResponse
  PROVE  Types'
<1>1. UNCHANGED <<asked, req, incoming, request, response, cached, server, update, pending, hits,
                  batch, thread, walks, exit>>
  BY DEF XdtwRequest, XdtwResponse, StartWalk, EndWalk, ReturnWalk, cacheVars, entryVars
<1>2. WalksTyped'
  <2>1. ASSUME NEW w \in Walk, StartWalk(w) PROVE WalksTyped'
    <3>1. to_xdtw[w] \in Seq(Arrived) /\ to_xdtw[w] # <<>>
      BY <2>1 DEF StartWalk, CanStart, Types, WalksTyped
    <3>2. Head(to_xdtw[w]) \in Arrived /\ Tail(to_xdtw[w]) \in Seq(Arrived)
      BY <3>1
    <3> QED BY <1>1, <2>1, <3>2 DEF StartWalk, Types, WalksTyped, Arrived, Result
  <2>2. ASSUME NEW w \in Walk, NEW t \in xdtw[w], EndWalk(w, t) PROVE WalksTyped'
    BY <1>1, <2>2 DEF EndWalk, Types, WalksTyped, Arrived, Result
  <2>3. CASE ReturnWalk
    <3>1. finished \in Result
      BY <2>3 DEF ReturnWalk, Types, WalksTyped, Result
    <3>2. Append(back, finished) \in Seq(Result)
      BY <3>1 DEF Types, WalksTyped
    <3> QED BY <1>1, <2>3, <3>2 DEF ReturnWalk, Types, WalksTyped, Arrived, Result, NoTask, Walk
  <2> QED BY <2>1, <2>2, <2>3 DEF XdtwRequest, XdtwResponse
<1> QED BY <1>1, <1>2 DEF Types, AskedTyped, CachesTyped, EntriesTyped, ThreadsTyped, ExitsTyped,
           Arrived, Reply

\* The answer to a walk: its counter goes down and who waits for it is woken.
AnswerOf(t, w) ==
  /\ thread["response"].at = "free" /\ back # <<>>
  /\ t = Head(back).task /\ w = Head(back).walk /\ back' = Tail(back)
  /\ walks' = [walks EXCEPT ![w] = walks[w] - 1]
  /\ UNCHANGED <<asked, req, incoming, request, response, cached, server, update, pending, hits,
                 batch, to_xdtw, xdtw, finished>>
  /\ \A th \in Threads : th # "response" =>
       \/ thread'[th] = thread[th]
       \/ thread[th].at = "asleep" /\ thread'[th] = [thread[th] EXCEPT !.at = "limit"]
  /\ \/ /\ Present(w, req[t]) /\ thread'["response"] = At("update", t, w) /\ exit' = exit
     \/ /\ ~Present(w, req[t]) /\ thread'["response"] = thread["response"] /\ Leave(t, Fault)
  /\ thread' = [th \in Threads |-> thread'[th]]

LEMMA AnswerCases ==
  ASSUME Types, Answer
  PROVE  \E t \in Arrived, w \in Walk : AnswerOf(t, w)
<1> DEFINE t == Head(back).task
           w == Head(back).walk
<1>1. back \in Seq(Result) /\ back # <<>> /\ thread["response"].at = "free"
  BY DEF Answer, Types, WalksTyped
<1>2. Head(back) \in Result
  BY <1>1
<1>3. t \in Arrived /\ w \in Walk
  BY <1>2 DEF Result
<1>4. walks' = [walks EXCEPT ![w] = walks[w] - 1]
  BY <1>3 DEF Answer, Released, Types, WalksTyped
<1>5. thread' = AfterAnswer(w, t) /\ back' = Tail(back)
  BY DEF Answer
<1>6. /\ UNCHANGED <<asked, req, incoming, request, response, cached, server, update, pending, hits,
                     batch, to_xdtw, xdtw, finished>>
      /\ IF Present(w, req[t]) THEN UNCHANGED exit ELSE Leave(t, Fault)
  BY DEF Answer, cacheVars, entryVars
<1>7. \A th \in Threads : th # "response" => thread'[th] = Woken(w)[th]
  BY <1>5 DEF AfterAnswer, Woken
<1>8. thread'["response"] = IF Present(w, req[t]) THEN At("update", t, w) ELSE thread["response"]
  BY <1>1, <1>5 DEF AfterAnswer, Woken, Threads
<1>9. thread' = [th \in Threads |-> thread'[th]]
  BY <1>5 DEF AfterAnswer, Woken
<1>10. AnswerOf(t, w)
  BY <1>1, <1>4, <1>5, <1>6, <1>7, <1>8, <1>9 DEF AnswerOf, Woken
<1> QED BY <1>3, <1>10

LEMMA AnswerTypes ==
  ASSUME Types, Answer
  PROVE  Types'
<1>1. PICK t \in Arrived, w \in Walk : AnswerOf(t, w)
  BY AnswerCases
<1>2. /\ t \in Tasks /\ t # NoTask /\ Arrived' = Arrived
      /\ UNCHANGED <<asked, req, incoming, request, response, cached, server, update, pending, hits,
                     batch, to_xdtw, xdtw, finished>>
  BY <1>1, ArrivedTasks DEF AnswerOf, Types, Arrived
<1>3. ThreadsTyped'
  <2>1. \A th \in Threads :
          /\ thread'[th] \in [at : Spots, task : Arrived \cup {NoTask}, walk : Walk]
          /\ thread'[th].task = NoTask <=> thread'[th].at = "free"
          /\ thread'[th].at = "update" => th = "response"
    BY <1>1, <1>2, SMTT(30) DEF AnswerOf, Types, ThreadsTyped, At, Spots
  <2>2. thread' = [th \in Threads |-> thread'[th]]
    BY <1>1 DEF AnswerOf
  <2>3. thread' \in [Threads -> [at : Spots, task : Arrived \cup {NoTask}, walk : Walk]]
    BY <2>1, <2>2
  <2> QED BY <1>2, <2>1, <2>3 DEF ThreadsTyped
<1>4. WalksTyped'
  <2>1. back \in Seq(Result) /\ back # <<>> /\ walks \in [Walk -> Int]
    BY <1>1 DEF AnswerOf, Types, WalksTyped
  <2>2. back' \in Seq(Result) /\ walks' \in [Walk -> Int]
    BY <1>1, <2>1 DEF AnswerOf
  <2> QED BY <1>2, <2>2 DEF Types, WalksTyped, Result
<1>5. ExitsTyped'
  <2>1. Fault.way \in Exits \ {"need_pc"}
    BY DEF Fault, Exit, Exits
  <2> QED BY <1>1, <1>2, <2>1 DEF AnswerOf, Leave, Types, ExitsTyped
<1> QED BY <1>2, <1>3, <1>4, <1>5 DEF Types, AskedTyped, CachesTyped, EntriesTyped, Reply

LEMMA TypesStep == Types /\ [Next]_vars => Types'
<1> SUFFICES ASSUME Types, [Next]_vars PROVE Types'
  OBVIOUS
<1>1. CASE UNCHANGED vars
  BY <1>1 DEF vars, cacheVars, entryVars, xdtwVars, Types, AskedTyped, CachesTyped, EntriesTyped,
     ThreadsTyped, WalksTyped, ExitsTyped, Arrived, Reply, Result
<1>2. CASE LookupThread
  BY <1>2, GatherTypes, TakeTypes, LimitTypes DEF LookupThread, Threads
<1>3. CASE ResponseThread
  BY <1>3, AnswerTypes, ResumeTypes, LimitTypes DEF ResponseThread, Threads
<1> QED BY <1>1, <1>2, <1>3, ParseTypes, CacheThreadTypes, XdtwTypes DEF Next

LEMMA InitTypes == Init => Types
<1> SUFFICES ASSUME Init PROVE Types
  OBVIOUS
<1>1. AskedTyped /\ Len(asked) = 0
  BY Numbers DEF Init, AskedTyped
<1>2. CachesTyped /\ EntriesTyped /\ WalksTyped
  BY DEF Init, CachesTyped, EntriesTyped, WalksTyped, Walk
<1>3. ThreadsTyped
  BY DEF Init, ThreadsTyped, Idle, Spots, Walk, Threads
<1>4. ExitsTyped
  BY DEF Init, ExitsTyped, Exit, Exits
<1> QED BY <1>1, <1>2, <1>3, <1>4 DEF Types

-----------------------------------------------------------------------------
(* No FIFO and no counter passes its limit.                                *)

LEMMA DepthsStep == Types /\ Depths /\ [Next]_vars => Depths'
<1> SUFFICES ASSUME Types, Depths, [Next]_vars PROVE Depths'
  OBVIOUS
<1>1. ASSUME NEW r \in Requests, Parse(r) PROVE Depths'
  <2>1. /\ incoming' = Append(incoming, Len(asked) + 1) /\ Len(incoming) < PARSER_DEPTH
        /\ \A w \in Walk : /\ request'[w] = Append(request[w], Len(asked) + 1)
                           /\ Len(request[w]) < REQUEST_DEPTH
        /\ UNCHANGED <<back, response, update, to_xdtw, walks, xdtw>>
    BY <1>1 DEF Parse, xdtwVars
  <2>2. /\ incoming \in Seq(Arrived) /\ \A w \in Walk : request[w] \in Seq(Arrived)
    BY DEF Types, EntriesTyped, CachesTyped
  <2>3. Len(incoming') = Len(incoming) + 1 /\ \A w \in Walk : Len(request'[w]) = Len(request[w]) + 1
    BY <2>1, <2>2
  <2>4. Len(incoming) \in Nat /\ \A w \in Walk : Len(request[w]) \in Nat
    BY <2>2
  <2>5. Len(incoming') <= PARSER_DEPTH /\ \A w \in Walk : Len(request'[w]) <= REQUEST_DEPTH
    BY <2>1, <2>3, <2>4, Numbers
  <2> QED BY <2>1, <2>5 DEF Depths
<1>2. ASSUME NEW w \in Walk, CacheThread(w) PROVE Depths'
  <2>1. UNCHANGED <<incoming, back, to_xdtw, walks, xdtw>>
    BY <1>2 DEF CacheThread, Lookup, PushResponse, Fill, xdtwVars
  <2>2. /\ request \in [Walk -> Seq(Arrived)] /\ response \in [Walk -> Seq(Reply)]
        /\ update \in [Walk -> Seq(Keys)]
    BY DEF Types, CachesTyped
  <2>3. CASE Lookup(w)
    <3>1. \A v \in Walk : Len(request'[v]) <= Len(request[v])
      <4>1. request[w] \in Seq(Arrived) /\ request[w] # <<>>
        BY <2>2, <2>3 DEF Lookup
      <4>2. Len(Tail(request[w])) = Len(request[w]) - 1 /\ Len(request[w]) \in Nat
        BY <4>1
      <4> QED BY <2>2, <2>3, <4>2 DEF Lookup
    <3>2. \A v \in Walk : Len(request'[v]) \in Int /\ Len(request[v]) \in Int
      <4>1. request'[w] \in Seq(Arrived)
        BY <2>2, <2>3 DEF Lookup
      <4> QED BY <2>2, <2>3, <4>1 DEF Lookup
    <3> QED BY <2>1, <2>3, <3>1, <3>2, Numbers DEF Lookup, Depths
  <2>4. CASE PushResponse(w)
    <3>1. Len(Append(response[w], server[w])) = Len(response[w]) + 1 /\ Len(response[w]) \in Nat
      BY <2>2
    <3> QED BY <2>1, <2>2, <2>4, <3>1, Numbers DEF PushResponse, Depths
  <2>5. CASE Fill(w)
    <3>1. update[w] \in Seq(Keys) /\ update[w] # <<>>
      BY <2>2, <2>5 DEF Fill
    <3>2. Len(Tail(update[w])) = Len(update[w]) - 1 /\ Len(update[w]) \in Nat
      BY <3>1
    <3> QED BY <2>1, <2>2, <2>5, <3>2, Numbers DEF Fill, Depths
  <2> QED BY <1>2, <2>3, <2>4, <2>5 DEF CacheThread
<1>3. CASE Gather
  <2>1. Len(<<>>) = 0
    OBVIOUS
  <2> QED BY <1>3, <2>1, Numbers DEF Gather, xdtwVars, Depths
<1>4. CASE Take
  BY <1>4 DEF Take, cacheVars, xdtwVars, Depths
<1>5. ASSUME NEW th \in Threads, CheckLimit(th) PROVE Depths'
  <2>1. thread[th].walk \in Walk /\ walks \in [Walk -> Int]
    BY DEF Types, ThreadsTyped, WalksTyped
  <2> DEFINE w == thread[th].walk
  <2>2. UNCHANGED <<incoming, back, request, response, update, to_xdtw, xdtw>>
    BY <1>5 DEF CheckLimit, cacheVars, xdtwVars
  <2>3. \/ walks' = walks
        \/ ~AtLimit(w) /\ walks' = [walks EXCEPT ![w] = walks[w] + 1]
    BY <1>5 DEF CheckLimit
  <2>4. \A v \in Walk : walks'[v] <= COLLECTOR_MAX_WALK[v]
    BY <2>1, <2>3, Numbers, SMTT(30) DEF AtLimit, Depths
  <2> QED BY <2>2, <2>4 DEF Depths
<1>6. ASSUME NEW th \in Threads, WriteWalk(th) PROVE Depths'
  <2>1. thread[th].walk \in Walk /\ to_xdtw \in [Walk -> Seq(Arrived)]
    BY DEF Types, ThreadsTyped, WalksTyped
  <2>2. /\ Len(Append(to_xdtw[thread[th].walk], thread[th].task)) = Len(to_xdtw[thread[th].walk]) + 1
        /\ Len(to_xdtw[thread[th].walk]) \in Nat
    BY <2>1
  <2> QED BY <1>6, <2>1, <2>2, Numbers DEF WriteWalk, cacheVars, xdtwVars, Depths
<1>7. ASSUME NEW w \in Walk, StartWalk(w) PROVE Depths'
  <2>1. /\ to_xdtw[w] \in Seq(Arrived) /\ to_xdtw[w] # <<>>
        /\ to_xdtw \in [Walk -> Seq(Arrived)] /\ xdtw \in [Walk -> SUBSET Arrived]
    BY <1>7 DEF StartWalk, CanStart, Types, WalksTyped
  <2>2. Len(Tail(to_xdtw[w])) = Len(to_xdtw[w]) - 1 /\ Len(to_xdtw[w]) \in Nat
    BY <2>1
  <2>3. Cardinality(xdtw[w] \cup {Head(to_xdtw[w])}) <= XDTW_MAX[w]
    <3>1. IsFiniteSet(xdtw[w])
      BY <2>1, IntervalFinite, ArrivedTasks, FS_Subset DEF Types, Arrived
    <3>2. Cardinality(xdtw[w]) \in Nat /\ Cardinality(xdtw[w]) < XDTW_MAX[w]
      BY <1>7, <3>1, FS_CardinalityType DEF StartWalk, CanStart
    <3>3. Cardinality(xdtw[w] \cup {Head(to_xdtw[w])}) \in {Cardinality(xdtw[w]), Cardinality(xdtw[w]) + 1}
      BY <3>1, FS_AddElement
    <3> QED BY <3>2, <3>3, Numbers
  <2> QED BY <1>7, <2>1, <2>2, <2>3, Numbers DEF StartWalk, cacheVars, Depths
<1>8. ASSUME NEW w \in Walk, NEW t \in xdtw[w], EndWalk(w, t) PROVE Depths'
  <2>1. xdtw \in [Walk -> SUBSET Arrived]
    BY DEF Types, WalksTyped
  <2>2. IsFiniteSet(xdtw[w])
    BY <2>1, IntervalFinite, ArrivedTasks, FS_Subset DEF Types, Arrived
  <2>3. Cardinality(xdtw[w] \ {t}) <= XDTW_MAX[w]
    <3>1. Cardinality(xdtw[w]) \in Nat /\ Cardinality(xdtw[w] \ {t}) = Cardinality(xdtw[w]) - 1
      BY <1>8, <2>2, FS_RemoveElement, FS_CardinalityType
    <3> QED BY <3>1, Numbers DEF Depths
  <2> QED BY <1>8, <2>1, <2>3 DEF EndWalk, cacheVars, Depths
<1>9. CASE ReturnWalk
  <2>1. Len(Append(back, finished)) = Len(back) + 1 /\ Len(back) \in Nat
    BY DEF Types, WalksTyped
  <2> QED BY <1>9, <2>1, Numbers DEF ReturnWalk, cacheVars, Depths
<1>10. CASE Answer
  <2>1. PICK t \in Arrived, w \in Walk : AnswerOf(t, w)
    BY <1>10, AnswerCases
  <2>2. back \in Seq(Result) /\ back # <<>> /\ walks \in [Walk -> Int]
    BY <2>1 DEF AnswerOf, Types, WalksTyped
  <2>3. Len(Tail(back)) = Len(back) - 1 /\ Len(back) \in Nat
    BY <2>2
  <2> QED BY <2>1, <2>2, <2>3, Numbers, SMTT(30) DEF AnswerOf, Depths
<1>11. CASE Resume
  <2> DEFINE w == thread["response"].walk
  <2>1. w \in Walk /\ update \in [Walk -> Seq(Keys)]
    BY DEF Types, ThreadsTyped, CachesTyped, Threads
  <2>2. /\ Len(Append(update[w], Key(w, req[thread["response"].task]))) = Len(update[w]) + 1
        /\ Len(update[w]) \in Nat
    BY <2>1
  <2> QED BY <1>11, <2>1, <2>2, Numbers DEF Resume, cacheVars, xdtwVars, Depths
<1>12. CASE UNCHANGED vars
  BY <1>12 DEF vars, cacheVars, xdtwVars, Depths
<1> QED BY <1>1, <1>2, <1>3, <1>4, <1>5, <1>6, <1>7, <1>8, <1>9, <1>10, <1>11, <1>12
        DEF Next, LookupThread, ResponseThread, XdtwRequest, XdtwResponse, Threads

-----------------------------------------------------------------------------
(* A task is in one place.  The sums count the places as Owners does, a list  *)
(* by the number of times the task is in it.                                 *)

One(t, S) == IF t \in S THEN 1 ELSE 0
OfTask(t) == {[task |-> t, walk |-> w] : w \in Walk}
Out == {t \in Tasks : exit[t].way # "none"}
InEntries(t) == One(t, pending \cup batch)
InThread(th, t) == One(t, {thread[th].task})
Incoming(t) == CountIn(incoming, {t})
Asking(w, t) == CountIn(to_xdtw[w], {t})
Walked(w, t) == One(t, xdtw[w])
Finished(t) == One(t, {finished.task})
Back(t) == CountIn(back, OfTask(t))
Gone(t) == One(t, Out)
Held(t) == InEntries(t) + InThread("lookup", t) + InThread("response", t) + Incoming(t)
Walking(t) == Asking("ddt", t) + Asking("pdt", t) + Walked("ddt", t) + Walked("pdt", t)
Ending(t) == Finished(t) + Back(t) + Gone(t)
Placed(t) == Held(t) + Walking(t) + Ending(t) = One(t, Arrived)
Places == \A t \in Tasks : Placed(t)

LEMMA OneType == \A t, S : One(t, S) \in {0, 1}
  BY DEF One

Counts(t) == /\ InEntries(t) \in Nat /\ InThread("lookup", t) \in Nat
             /\ InThread("response", t) \in Nat /\ Incoming(t) \in Nat
             /\ Asking("ddt", t) \in Nat /\ Asking("pdt", t) \in Nat
             /\ Walked("ddt", t) \in Nat /\ Walked("pdt", t) \in Nat
             /\ Finished(t) \in Nat /\ Back(t) \in Nat /\ Gone(t) \in Nat
             /\ One(t, Arrived) \in {0, 1}

LEMMA TermTypes ==
  ASSUME Types, NEW t
  PROVE  Counts(t)
<1>1. /\ incoming \in Seq(Arrived) /\ back \in Seq(Result)
      /\ to_xdtw["ddt"] \in Seq(Arrived) /\ to_xdtw["pdt"] \in Seq(Arrived)
  BY DEF Types, EntriesTyped, WalksTyped, Walk
<1>2. \A S : One(t, S) \in Nat /\ One(t, S) \in {0, 1}
  BY DEF One
<1>3. /\ CountIn(incoming, {t}) \in Nat /\ CountIn(to_xdtw["ddt"], {t}) \in Nat
      /\ CountIn(to_xdtw["pdt"], {t}) \in Nat /\ CountIn(back, OfTask(t)) \in Nat
  BY <1>1, CountType
<1> QED BY <1>2, <1>3 DEF Counts, InEntries, InThread, Incoming, Asking, Walked, Finished, Back, Gone

\* What is in a list is counted there, and what is counted there is in it.
LEMMA CountedIsIn ==
  ASSUME NEW S, NEW s \in Seq(S), NEW X
  PROVE  CountIn(s, X) = 0 <=> \A i \in DOMAIN s : s[i] \notin X
<1>1. IsFiniteSet({i \in DOMAIN s : s[i] \in X})
  BY CountType
<1> QED BY <1>1, FS_EmptySet DEF CountIn

LEMMA TermTypesNext ==
  ASSUME Types', NEW t
  PROVE  Counts(t)'
<1>1. /\ incoming' \in Seq(Arrived') /\ back' \in Seq(Result')
      /\ to_xdtw'["ddt"] \in Seq(Arrived') /\ to_xdtw'["pdt"] \in Seq(Arrived')
  BY DEF Types, EntriesTyped, WalksTyped, Walk
<1>2. \A S : One(t, S) \in Nat /\ One(t, S) \in {0, 1}
  BY DEF One
<1>3. /\ CountIn(incoming', {t}) \in Nat /\ CountIn(to_xdtw'["ddt"], {t}) \in Nat
      /\ CountIn(to_xdtw'["pdt"], {t}) \in Nat /\ CountIn(back', OfTask(t)) \in Nat
  BY <1>1, CountType
<1> QED BY <1>2, <1>3 DEF Counts, InEntries, InThread, Incoming, Asking, Walked, Finished, Back, Gone

LEMMA GroupTypes ==
  ASSUME Types, NEW t
  PROVE  Held(t) \in Nat /\ Walking(t) \in Nat /\ Ending(t) \in Nat
<1>1. Counts(t)
  BY TermTypes
<1> QED BY <1>1 DEF Counts, Held, Walking, Ending

LEMMA Alone ==
  ASSUME Types, NEW t, Placed(t)
  PROVE  /\ InEntries(t) = 1 => Walking(t) = 0 /\ Ending(t) = 0 /\ Incoming(t) = 0
         /\ InThread("response", t) = 1 => Walking(t) = 0 /\ Ending(t) = 0
         /\ InThread("lookup", t) = 1 => Walking(t) = 0 /\ Ending(t) = 0
         /\ Incoming(t) \in {0, 1} /\ Held(t) \in {0, 1}
<1>1. Held(t) \in {0, 1} /\ (Held(t) = 1 => Walking(t) = 0 /\ Ending(t) = 0)
  <2>1. Held(t) \in Nat /\ Walking(t) \in Nat /\ Ending(t) \in Nat
    BY GroupTypes
  <2>2. One(t, Arrived) \in {0, 1}
    BY TermTypes DEF Counts
  <2> QED BY <2>1, <2>2 DEF Placed
<1>2. Counts(t)
  BY TermTypes
<1>3. /\ InEntries(t) <= Held(t) /\ InThread("lookup", t) <= Held(t)
      /\ InThread("response", t) <= Held(t) /\ Incoming(t) <= Held(t)
      /\ InEntries(t) + Incoming(t) <= Held(t)
  BY <1>2 DEF Counts, Held
<1>4. /\ InEntries(t) \in Nat /\ InThread("lookup", t) \in Nat
      /\ InThread("response", t) \in Nat /\ Incoming(t) \in Nat
  BY <1>2 DEF Counts
<1> QED BY <1>1, <1>3, <1>4

\* A thread is done with a task, which leaves, or waits with it for a walk.
LEMMA GoesOn ==
  ASSUME Types, NEW th \in Threads, NEW t \in Arrived,
         Continues(th, t)
  PROVE  \/ \E e : Leave(t, e) /\ e.way # "none" /\ thread' = [thread EXCEPT ![th] = Idle]
         \/ UNCHANGED exit /\ \E w \in Walk : Asks(th, t, w)
<1>1. AfterDC(req[t], Context(t)).way # "none" /\ \A r, key : AfterPC(r, key).way # "none"
  BY ArrivedTasks, AfterDCWay, AfterPCWay DEF Types
<1>2. CASE LeavesNow(th, t) \/ LeavesWithPC(th, t)
  BY <1>1, <1>2 DEF LeavesNow, LeavesWithPC
<1>3. CASE AsksForPC(th, t)
  BY <1>3 DEF AsksForPC, Walk
<1> QED BY <1>1, <1>2, <1>3, WithDCCases DEF Continues

LEMMA ParsePlaces ==
  ASSUME Types, NEW r \in Requests, Parse(r), NEW t \in Tasks, Placed(t)
  PROVE  Placed(t)'
<1> DEFINE n == Len(asked) + 1
<1>1. /\ incoming' = Append(incoming, n) /\ incoming \in Seq(Arrived) /\ asked' = Append(asked, r)
      /\ UNCHANGED <<pending, batch, thread, to_xdtw, xdtw, back, finished, exit>>
  BY DEF Parse, entryVars, xdtwVars, Types, EntriesTyped
<1>2. PICK d \in {0, 1} : d = One(t, {n})
  BY DEF One
<1>3. Arrived' = Arrived \cup {n} /\ n \notin Arrived
  <2>1. Len(asked) \in Nat /\ Len(asked') = Len(asked) + 1
    BY <1>1, ArrivedTasks DEF Types, AskedTyped
  <2> QED BY <2>1 DEF Arrived
<1>4. One(t, Arrived') = One(t, Arrived) + d
  BY <1>2, <1>3 DEF One
<1>5. Walking(t)' = Walking(t) /\ Ending(t)' = Ending(t)
  BY <1>1 DEF Walking, Ending, Asking, Walked, Finished, Back, Gone, Out
<1>6. Held(t)' = Held(t) + d
  <2>1. Counts(t)
    BY TermTypes
  <2>2. Incoming(t)' = Incoming(t) + d
    BY <1>1, <1>2, CountAppend DEF Incoming, One
  <2>3. /\ InEntries(t)' = InEntries(t) /\ InThread("lookup", t)' = InThread("lookup", t)
        /\ InThread("response", t)' = InThread("response", t)
    BY <1>1 DEF InEntries, InThread
  <2> QED BY <2>1, <2>2, <2>3 DEF Held, Counts
<1>7. Held(t) \in Nat /\ Walking(t) \in Nat /\ Ending(t) \in Nat
  BY GroupTypes
<1>8. One(t, Arrived) \in {0, 1}
  BY DEF One
<1> QED BY <1>4, <1>5, <1>6, <1>7, <1>8 DEF Placed

LEMMA GatherPlaces ==
  ASSUME Types, Gather, NEW t \in Tasks, Placed(t)
  PROVE  Placed(t)'
<1>1. /\ incoming' = <<>> /\ batch = {} /\ Arrived' = Arrived
      /\ UNCHANGED <<thread, to_xdtw, xdtw, back, finished, exit>>
  BY DEF Gather, xdtwVars, Arrived
<1>2. pending' \cup batch' = pending \cup Range(incoming)
  BY DEF Gather, Entries
<1>3. Incoming(t)' = 0
  BY <1>1, CountEmpty DEF Incoming
<1>4. InEntries(t)' = InEntries(t) + Incoming(t)
  <2>1. Incoming(t) \in {0, 1} /\ (InEntries(t) = 1 => Incoming(t) = 0)
    BY Alone
  <2>2. Incoming(t) = 0 <=> t \notin Range(incoming)
    BY CountedIsIn DEF Range, Incoming, Types, EntriesTyped
  <2> QED BY <1>1, <1>2, <2>1, <2>2 DEF InEntries, One
<1>5. Walking(t)' = Walking(t) /\ Ending(t)' = Ending(t)
  BY <1>1 DEF Walking, Ending, Asking, Walked, Finished, Back, Gone, Out
<1>6. Held(t)' = Held(t)
  <2>1. Counts(t)
    BY TermTypes
  <2>2. /\ InThread("lookup", t)' = InThread("lookup", t)
        /\ InThread("response", t)' = InThread("response", t)
    BY <1>1 DEF InThread
  <2> QED BY <1>3, <1>4, <2>1, <2>2 DEF Held, Counts
<1> QED BY <1>1, <1>5, <1>6 DEF Placed

\* What moves between the sums stays in one place.
LEMMA SumsMove ==
  ASSUME Types, Types', NEW t, Placed(t), asked' = asked,
         \/ Held(t)' + Ending(t)' = Held(t) + Ending(t) /\ Walking(t)' = Walking(t)
         \/ Held(t)' + Walking(t)' = Held(t) + Walking(t) /\ Ending(t)' = Ending(t)
         \/ Walking(t)' + Ending(t)' = Walking(t) + Ending(t) /\ Held(t)' = Held(t)
  PROVE  Placed(t)'
<1>1. Held(t) \in Nat /\ Walking(t) \in Nat /\ Ending(t) \in Nat
  BY GroupTypes
<1>2. Counts(t)'
  BY TermTypesNext
<1>3. Held(t)' \in Nat /\ Walking(t)' \in Nat /\ Ending(t)' \in Nat
  BY <1>2 DEF Counts, Held, Walking, Ending
<1>4. One(t, Arrived') = One(t, Arrived)
  BY DEF Arrived
<1> QED BY <1>1, <1>3, <1>4 DEF Placed

\* A thread that was free has the task now, or the task has left.
LEMMA GoesOnPlaces ==
  ASSUME Types, NEW th \in Threads, NEW u \in Arrived, thread[th].task \in {NoTask, u},
         Continues(th, u),
         NEW t \in Tasks, t = u => Gone(t) = 0, NEW d \in {0, 1}, d = One(t, {u})
  PROVE  /\ \A other \in Threads \ {th} : thread'[other] = thread[other]
         /\ \/ InThread(th, t)' = d /\ Gone(t)' = Gone(t)
            \/ InThread(th, t)' = 0 /\ Gone(t)' = Gone(t) + d
<1>1. /\ u \in Tasks /\ t # NoTask /\ Gone(t) \in {0, 1}
      /\ thread \in [Threads -> [at : Spots, task : Arrived \cup {NoTask}, walk : Walk]]
  BY ArrivedTasks DEF Types, ThreadsTyped, Tasks, NoTask, One, Gone
<1>2. CASE \E e : Leave(u, e) /\ e.way # "none" /\ thread' = [thread EXCEPT ![th] = Idle]
  <2>1. Out' = Out \cup {u}
    BY <1>1, <1>2 DEF Leave, Out, Types, ExitsTyped
  <2>2. thread'[th].task = NoTask /\ \A other \in Threads \ {th} : thread'[other] = thread[other]
    BY <1>1, <1>2 DEF Idle
  <2>3. InThread(th, t)' = 0
    BY <1>1, <2>2 DEF InThread, One
  <2>4. Gone(t)' = Gone(t) + d
    BY <1>1, <2>1 DEF Gone, One
  <2> QED BY <2>2, <2>3, <2>4
<1>3. CASE UNCHANGED exit /\ \E w : Asks(th, u, w)
  <2>1. Gone(t)' = Gone(t)
    BY <1>3 DEF Gone, Out
  <2>2. thread'[th].task = u /\ \A other \in Threads \ {th} : thread'[other] = thread[other]
    BY <1>1, <1>3 DEF Asks, At
  <2>3. InThread(th, t)' = d
    BY <2>2 DEF InThread
  <2> QED BY <2>1, <2>2, <2>3
<1> QED BY <1>2, <1>3, GoesOn

LEMMA TakePlaces ==
  ASSUME Types, Types', Take, NEW t \in Tasks, Placed(t)
  PROVE  Placed(t)'
<1>1. PICK u \in batch : TakeOf(u)
  BY TakeCases
<1> USE DEF TakeOf
<1>2. /\ u \in Arrived /\ u \in Tasks /\ u # NoTask /\ t # NoTask /\ u \notin pending
      /\ thread["lookup"].task = NoTask
      /\ thread \in [Threads -> [at : Spots, task : Arrived \cup {NoTask}, walk : Walk]]
  BY <1>1, ArrivedTasks DEF Types, EntriesTyped, ThreadsTyped, Threads, Tasks, NoTask
<1>3. PICK d \in {0, 1} : d = One(t, {u})
  BY DEF One
<1>4. InEntries(t)' = InEntries(t) - d /\ (d = 1 => Gone(t) = 0)
  <2>1. d = 1 => InEntries(t) = 1
    BY <1>3 DEF InEntries, One
  <2>2. d = 1 => Gone(t) = 0
    BY <2>1, Alone, TermTypes DEF Ending, Counts
  <2> QED BY <1>1, <1>2, <1>3, <2>2 DEF InEntries, One
<1>5. /\ InThread("response", t)' = InThread("response", t) /\ InThread("lookup", t) = 0
      /\ \/ InThread("lookup", t)' = d /\ Gone(t)' = Gone(t)
         \/ InThread("lookup", t)' = 0 /\ Gone(t)' = Gone(t) + d
  <2>1. /\ "lookup" \in Threads /\ "response" \in Threads \ {"lookup"} /\ "ddt" \in Walk
    BY DEF Threads, Walk
  <2>2. t = u => Gone(t) = 0
    BY <1>3, <1>4 DEF One
  <2>3. /\ \A other \in Threads \ {"lookup"} : thread'[other] = thread[other]
        /\ \/ InThread("lookup", t)' = d /\ Gone(t)' = Gone(t)
           \/ InThread("lookup", t)' = 0 /\ Gone(t)' = Gone(t) + d
    <3>1. Continues("lookup", u)
      BY <1>1, <2>1 DEF Continues
    <3>2. u \in Arrived /\ thread["lookup"].task \in {NoTask, u}
      BY <1>2
    <3> QED BY <1>3, <2>1, <2>2, <3>1, <3>2, GoesOnPlaces
  <2>4. thread'["response"] = thread["response"]
    BY <2>1, <2>3
  <2>5. InThread("response", t)' = InThread("response", t)
    BY <2>4 DEF InThread
  <2>6. InThread("lookup", t) = 0
    BY <1>2 DEF InThread, One
  <2> QED BY <2>3, <2>5, <2>6
<1>6. Held(t)' + Ending(t)' = Held(t) + Ending(t) /\ Walking(t)' = Walking(t)
  <2>1. Counts(t)
    BY TermTypes
  <2>2. Incoming(t)' = Incoming(t) /\ Finished(t)' = Finished(t) /\ Back(t)' = Back(t)
    BY <1>1 DEF Incoming, Finished, Back
  <2>3. Walking(t)' = Walking(t)
    BY <1>1 DEF Walking, Asking, Walked
  <2> QED BY <1>4, <1>5, <2>1, <2>2, <2>3 DEF Held, Ending, Counts
<1> QED BY <1>1, <1>6, SumsMove

LEMMA CacheThreadPlaces ==
  ASSUME Types, NEW w \in Walk, CacheThread(w), NEW t \in Tasks, Placed(t)
  PROVE  Placed(t)'
<1>1. UNCHANGED <<asked, incoming, pending, batch, thread, to_xdtw, xdtw, back, finished, exit>>
  BY DEF CacheThread, Lookup, PushResponse, Fill, entryVars, xdtwVars
<1>2. Held(t)' = Held(t)
  BY <1>1 DEF Held, InEntries, InThread, Incoming
<1>3. Walking(t)' = Walking(t) /\ Ending(t)' = Ending(t)
  BY <1>1 DEF Walking, Ending, Asking, Walked, Finished, Back, Gone, Out
<1>4. Arrived' = Arrived
  BY <1>1 DEF Arrived
<1> QED BY <1>2, <1>3, <1>4 DEF Placed

LEMMA CheckLimitPlaces ==
  ASSUME Types, NEW th \in Threads, CheckLimit(th), NEW t \in Tasks, Placed(t)
  PROVE  Placed(t)'
<1>1. UNCHANGED <<asked, incoming, pending, batch, to_xdtw, xdtw, back, finished, exit>>
  BY DEF CheckLimit, entryVars, xdtwVars
<1>2. thread'["lookup"].task = thread["lookup"].task /\ thread'["response"].task = thread["response"].task
  <2>1. PICK s : thread' = [thread EXCEPT ![th].at = s]
    BY DEF CheckLimit
  <2> QED BY <2>1 DEF Types, ThreadsTyped, Threads
<1>3. Held(t)' = Held(t)
  BY <1>1, <1>2 DEF Held, InEntries, InThread, Incoming
<1>4. Walking(t)' = Walking(t) /\ Ending(t)' = Ending(t)
  BY <1>1 DEF Walking, Ending, Asking, Walked, Finished, Back, Gone, Out
<1>5. Arrived' = Arrived
  BY <1>1 DEF Arrived
<1> QED BY <1>3, <1>4, <1>5 DEF Placed

LEMMA WriteWalkPlaces ==
  ASSUME Types, Types', NEW th \in Threads, WriteWalk(th), NEW t \in Tasks, Placed(t)
  PROVE  Placed(t)'
<1> DEFINE u == thread[th].task
           w == thread[th].walk
<1>1. /\ UNCHANGED <<asked, incoming, pending, batch, xdtw, back, finished, exit>>
      /\ to_xdtw' = [to_xdtw EXCEPT ![w] = Append(to_xdtw[w], u)]
      /\ thread' = [thread EXCEPT ![th] = Idle]
  BY DEF WriteWalk, entryVars, xdtwVars
<1>2. /\ w \in Walk /\ to_xdtw \in [Walk -> Seq(Arrived)] /\ to_xdtw[w] \in Seq(Arrived)
      /\ thread \in [Threads -> [at : Spots, task : Arrived \cup {NoTask}, walk : Walk]]
      /\ t # NoTask
  <2>1. w \in Walk /\ thread \in [Threads -> [at : Spots, task : Arrived \cup {NoTask}, walk : Walk]]
    BY DEF Types, ThreadsTyped
  <2>2. to_xdtw \in [Walk -> Seq(Arrived)] /\ t # NoTask
    BY DEF Types, WalksTyped, Tasks, NoTask
  <2> QED BY <2>1, <2>2
<1>3. PICK d \in {0, 1} : d = One(t, {u})
  BY DEF One
<1>4. \A v \in Walk : CountIn(to_xdtw'[v], {t}) =
                        IF v = w THEN CountIn(to_xdtw[v], {t}) + d ELSE CountIn(to_xdtw[v], {t})
  <2>1. CountIn(Append(to_xdtw[w], u), {t}) = CountIn(to_xdtw[w], {t}) + d
    BY <1>2, <1>3, CountAppend DEF One
  <2> QED BY <1>1, <1>2, <2>1
<1>5. Asking("ddt", t)' + Asking("pdt", t)' = Asking("ddt", t) + Asking("pdt", t) + d
  <2>1. Counts(t)
    BY TermTypes
  <2>2. w = "ddt" \/ w = "pdt"
    BY <1>2 DEF Walk
  <2>3. "ddt" \in Walk /\ "pdt" \in Walk
    BY DEF Walk
  <2>4. CASE w = "ddt"
    <3>1. Asking("ddt", t)' = Asking("ddt", t) + d /\ Asking("pdt", t)' = Asking("pdt", t)
      BY <1>4, <2>3, <2>4 DEF Asking
    <3> QED BY <2>1, <3>1 DEF Counts
  <2>5. CASE w = "pdt"
    <3>1. Asking("pdt", t)' = Asking("pdt", t) + d /\ Asking("ddt", t)' = Asking("ddt", t)
      BY <1>4, <2>3, <2>5 DEF Asking
    <3> QED BY <2>1, <3>1 DEF Counts
  <2> QED BY <2>2, <2>4, <2>5
<1>6. /\ InThread("lookup", t)' + InThread("response", t)' + d
            = InThread("lookup", t) + InThread("response", t)
  <2>1. thread'[th].task = NoTask /\ \A other \in Threads \ {th} : thread'[other] = thread[other]
    BY <1>1, <1>2 DEF Idle
  <2>2. InThread(th, t)' = 0 /\ InThread(th, t) = d
    BY <1>2, <1>3, <2>1 DEF InThread, One
  <2>3. CASE th = "lookup"
    <3>1. InThread("response", t)' = InThread("response", t)
      BY <2>1, <2>3 DEF InThread, Threads
    <3>2. InThread("response", t) \in Nat
      BY TermTypes DEF Counts
    <3> QED BY <2>2, <2>3, <3>1, <3>2
  <2>4. CASE th = "response"
    <3>1. InThread("lookup", t)' = InThread("lookup", t)
      BY <2>1, <2>4 DEF InThread, Threads
    <3>2. InThread("lookup", t) \in Nat
      BY TermTypes DEF Counts
    <3> QED BY <2>2, <2>4, <3>1, <3>2
  <2> QED BY <2>3, <2>4 DEF Threads
<1>7. Held(t)' + Walking(t)' = Held(t) + Walking(t) /\ Ending(t)' = Ending(t)
  <2>1. Counts(t) /\ Counts(t)'
    BY TermTypes, TermTypesNext
  <2>2. /\ InEntries(t)' = InEntries(t) /\ Incoming(t)' = Incoming(t)
        /\ Walked("ddt", t)' = Walked("ddt", t) /\ Walked("pdt", t)' = Walked("pdt", t)
    BY <1>1 DEF InEntries, Incoming, Walked
  <2>3. Ending(t)' = Ending(t)
    BY <1>1 DEF Ending, Finished, Back, Gone, Out
  <2> QED BY <1>5, <1>6, <2>1, <2>2, <2>3 DEF Held, Walking, Counts
<1> QED BY <1>1, <1>7, SumsMove

LEMMA SameWalking ==
  ASSUME Types, Types', NEW t, Placed(t),
         UNCHANGED <<asked, incoming, pending, batch, thread, back, finished, exit>>,
         Asking("ddt", t)' + Asking("pdt", t)' + Walked("ddt", t)' + Walked("pdt", t)'
           = Asking("ddt", t) + Asking("pdt", t) + Walked("ddt", t) + Walked("pdt", t)
  PROVE  Placed(t)'
<1>1. Walking(t)' = Walking(t)
  BY DEF Walking
<1>2. Held(t)' = Held(t) /\ Ending(t)' = Ending(t)
  BY DEF Held, InEntries, InThread, Incoming, Ending, Finished, Back, Gone, Out
<1> QED BY <1>1, <1>2, SumsMove

LEMMA StartWalkPlaces ==
  ASSUME Types, Types', NEW w \in Walk, StartWalk(w), NEW t \in Tasks, Placed(t)
  PROVE  Placed(t)'
<1> DEFINE u == Head(to_xdtw[w])
<1>1. /\ UNCHANGED <<asked, incoming, pending, batch, thread, back, finished, exit>>
      /\ to_xdtw' = [to_xdtw EXCEPT ![w] = Tail(to_xdtw[w])]
      /\ xdtw' = [xdtw EXCEPT ![w] = xdtw[w] \cup {u}] /\ to_xdtw[w] # <<>>
  BY DEF StartWalk, CanStart, entryVars
<1>2. /\ to_xdtw \in [Walk -> Seq(Arrived)] /\ to_xdtw[w] \in Seq(Arrived)
      /\ xdtw \in [Walk -> SUBSET Arrived] /\ "ddt" \in Walk /\ "pdt" \in Walk
  BY DEF Types, WalksTyped, Walk
<1>3. PICK d \in {0, 1} : d = One(t, {u})
  BY DEF One
<1>4. CountIn(to_xdtw'[w], {t}) = CountIn(to_xdtw[w], {t}) - d
  <2>1. CountIn(Tail(to_xdtw[w]), {t}) = CountIn(to_xdtw[w], {t}) - d
    BY <1>1, <1>2, <1>3, CountTail DEF One
  <2> QED BY <1>1, <1>2, <2>1
<1>5. Counts(t) /\ Counts(t)' /\ Walking(t) \in {0, 1}
  <2>1. Counts(t) /\ Counts(t)' /\ Held(t) \in Nat /\ Ending(t) \in Nat /\ Walking(t) \in Nat
    BY TermTypes, TermTypesNext, GroupTypes
  <2>2. One(t, Arrived) \in {0, 1}
    BY DEF One
  <2> QED BY <2>1, <2>2 DEF Placed
<1>6. CASE w = "ddt"
  <2>1. Asking("ddt", t)' = Asking("ddt", t) - d /\ Asking("pdt", t)' = Asking("pdt", t)
    BY <1>1, <1>2, <1>4, <1>6 DEF Asking
  <2>2. Walked("pdt", t)' = Walked("pdt", t)
    BY <1>1, <1>2, <1>6 DEF Walked
  <2>3. d = 1 => Walked("ddt", t) = 0
    BY <1>5, <2>1 DEF Walking, Counts
  <2>4. Walked("ddt", t)' = Walked("ddt", t) + d
    BY <1>1, <1>2, <1>3, <1>6, <2>3 DEF Walked, One
  <2>5. Asking("ddt", t)' + Asking("pdt", t)' + Walked("ddt", t)' + Walked("pdt", t)'
          = Asking("ddt", t) + Asking("pdt", t) + Walked("ddt", t) + Walked("pdt", t)
    BY <1>5, <2>1, <2>2, <2>4 DEF Counts
  <2> QED BY <1>1, <2>5, SameWalking
<1>7. CASE w = "pdt"
  <2>1. Asking("pdt", t)' = Asking("pdt", t) - d /\ Asking("ddt", t)' = Asking("ddt", t)
    BY <1>1, <1>2, <1>4, <1>7 DEF Asking
  <2>2. Walked("ddt", t)' = Walked("ddt", t)
    BY <1>1, <1>2, <1>7 DEF Walked
  <2>3. d = 1 => Walked("pdt", t) = 0
    BY <1>5, <2>1 DEF Walking, Counts
  <2>4. Walked("pdt", t)' = Walked("pdt", t) + d
    BY <1>1, <1>2, <1>3, <1>7, <2>3 DEF Walked, One
  <2>5. Asking("ddt", t)' + Asking("pdt", t)' + Walked("ddt", t)' + Walked("pdt", t)'
          = Asking("ddt", t) + Asking("pdt", t) + Walked("ddt", t) + Walked("pdt", t)
    BY <1>5, <2>1, <2>2, <2>4 DEF Counts
  <2> QED BY <1>1, <2>5, SameWalking
<1> QED BY <1>6, <1>7 DEF Walk

LEMMA EndWalkPlaces ==
  ASSUME Types, Types', NEW w \in Walk, NEW u \in xdtw[w], EndWalk(w, u), NEW t \in Tasks, Placed(t)
  PROVE  Placed(t)'
<1>1. /\ UNCHANGED <<asked, incoming, pending, batch, thread, to_xdtw, back, exit>>
      /\ finished.task = NoTask /\ finished' = [task |-> u, walk |-> w]
      /\ xdtw' = [xdtw EXCEPT ![w] = xdtw[w] \ {u}]
  BY DEF EndWalk, entryVars
<1>2. xdtw \in [Walk -> SUBSET Arrived] /\ "ddt" \in Walk /\ "pdt" \in Walk /\ t # NoTask
  BY DEF Types, WalksTyped, Walk, Tasks, NoTask
<1>3. PICK d \in {0, 1} : d = One(t, {u})
  BY DEF One
<1>4. Finished(t) = 0 /\ Finished(t)' = d
  BY <1>1, <1>2, <1>3 DEF Finished, One
<1>5. Counts(t) /\ Counts(t)'
  BY TermTypes, TermTypesNext
<1>6. Asking("ddt", t)' = Asking("ddt", t) /\ Asking("pdt", t)' = Asking("pdt", t)
  BY <1>1 DEF Asking
<1>7. Walked("ddt", t)' + Walked("pdt", t)' + d = Walked("ddt", t) + Walked("pdt", t)
  <2>1. CASE w = "ddt"
    <3>1. Walked("ddt", t)' = Walked("ddt", t) - d
      BY <1>1, <1>2, <1>3, <2>1 DEF Walked, One
    <3>2. Walked("pdt", t)' = Walked("pdt", t)
      BY <1>1, <1>2, <2>1 DEF Walked
    <3> QED BY <1>5, <3>1, <3>2 DEF Counts
  <2>2. CASE w = "pdt"
    <3>1. Walked("pdt", t)' = Walked("pdt", t) - d
      BY <1>1, <1>2, <1>3, <2>2 DEF Walked, One
    <3>2. Walked("ddt", t)' = Walked("ddt", t)
      BY <1>1, <1>2, <2>2 DEF Walked
    <3> QED BY <1>5, <3>1, <3>2 DEF Counts
  <2> QED BY <2>1, <2>2 DEF Walk
<1>8. Walking(t)' + Ending(t)' = Walking(t) + Ending(t)
  <2>1. Back(t)' = Back(t) /\ Gone(t)' = Gone(t)
    BY <1>1 DEF Back, Gone, Out
  <2> QED BY <1>4, <1>5, <1>6, <1>7, <2>1 DEF Walking, Ending, Counts
<1>9. Held(t)' = Held(t)
  BY <1>1 DEF Held, InEntries, InThread, Incoming
<1> QED BY <1>1, <1>8, <1>9, SumsMove

LEMMA ReturnWalkPlaces ==
  ASSUME Types, Types', ReturnWalk, NEW t \in Tasks, Placed(t)
  PROVE  Placed(t)'
<1>1. /\ UNCHANGED <<asked, incoming, pending, batch, thread, to_xdtw, xdtw, exit>>
      /\ back' = Append(back, finished) /\ finished' = [task |-> NoTask, walk |-> "ddt"]
  BY DEF ReturnWalk, entryVars
<1>2. /\ back \in Seq(Result) /\ t # NoTask
      /\ finished = [task |-> finished.task, walk |-> finished.walk] /\ finished.walk \in Walk
  BY DEF Types, WalksTyped, Tasks, NoTask
<1>3. Finished(t)' = 0 /\ Finished(t) \in {0, 1}
  BY <1>1, <1>2 DEF Finished, One
<1>4. Back(t)' = Back(t) + Finished(t)
  <2>1. finished \in OfTask(t) <=> finished.task = t
    BY <1>2 DEF OfTask
  <2> QED BY <1>1, <1>2, <2>1, CountAppend DEF Back, Finished, One
<1>5. Ending(t)' = Ending(t)
  <2>1. Gone(t)' = Gone(t)
    BY <1>1 DEF Gone, Out
  <2>2. Counts(t)
    BY TermTypes
  <2> QED BY <1>3, <1>4, <2>1, <2>2 DEF Ending, Counts
<1>6. Walking(t)' = Walking(t) /\ Held(t)' = Held(t)
  BY <1>1 DEF Walking, Asking, Walked, Held, InEntries, InThread, Incoming
<1>7. Held(t) \in Nat /\ Walking(t) \in Nat /\ Ending(t) \in Nat
  BY GroupTypes
<1> QED BY <1>1, <1>5, <1>6, <1>7, SumsMove

LEMMA AnswerPlaces ==
  ASSUME Types, Types', Answer, NEW t \in Tasks, Placed(t)
  PROVE  Placed(t)'
<1>1. PICK u \in Arrived, w \in Walk : AnswerOf(u, w)
  BY AnswerCases
<1>2. /\ UNCHANGED <<asked, incoming, pending, batch, to_xdtw, xdtw, finished>>
      /\ back \in Seq(Result) /\ back # <<>> /\ back' = Tail(back) /\ u = Head(back).task
      /\ w = Head(back).walk
  BY <1>1 DEF AnswerOf, Types, WalksTyped
<1>3. PICK d \in {0, 1} : d = One(t, {u})
  BY DEF One
<1>4. Counts(t) /\ Counts(t)' /\ u \in Tasks /\ u # NoTask /\ t # NoTask
  BY TermTypes, TermTypesNext, ArrivedTasks DEF Types, Tasks, NoTask
<1>5. Back(t)' = Back(t) - d
  <2>1. Head(back) \in Result
    BY <1>2
  <2>2. Head(back) = [task |-> u, walk |-> w]
    BY <1>2, <2>1 DEF Result
  <2>3. Head(back) \in OfTask(t) <=> u = t
    <3>1. u = t => Head(back) \in OfTask(t)
      BY <2>2 DEF OfTask
    <3>2. ASSUME Head(back) \in OfTask(t) PROVE u = t
      <4>1. PICK v \in Walk : Head(back) = [task |-> t, walk |-> v]
        BY <3>2 DEF OfTask
      <4>2. Head(back).task = t
        BY <4>1
      <4> QED BY <2>2, <4>2
    <3> QED BY <3>1, <3>2
  <2>4. CountIn(Tail(back), OfTask(t)) = CountIn(back, OfTask(t)) - (IF Head(back) \in OfTask(t) THEN 1 ELSE 0)
    BY <1>2, CountTail
  <2>5. CASE u = t
    BY <1>2, <1>3, <2>3, <2>4, <2>5 DEF Back, One
  <2>6. CASE u # t
    BY <1>2, <1>3, <2>3, <2>4, <2>6 DEF Back, One
  <2> QED BY <2>5, <2>6
<1>6. d = 1 => Gone(t) = 0
  <2>1. Held(t) \in Nat /\ Walking(t) \in Nat /\ Ending(t) \in Nat /\ One(t, Arrived) \in {0, 1}
    BY GroupTypes DEF One
  <2>2. Ending(t) <= 1
    BY <2>1 DEF Placed
  <2> QED BY <1>4, <1>5, <2>2 DEF Ending, Counts
<1>7. InThread("lookup", t)' = InThread("lookup", t)
  <2>1. thread'["lookup"].task = thread["lookup"].task
    BY <1>1 DEF AnswerOf, Threads, Types, ThreadsTyped
  <2> QED BY <2>1 DEF InThread
<1>8. /\ InThread("response", t) = 0
      /\ \/ InThread("response", t)' = d /\ Gone(t)' = Gone(t)
         \/ InThread("response", t)' = 0 /\ Gone(t)' = Gone(t) + d
  <2>1. thread["response"].task = NoTask
    BY <1>1 DEF AnswerOf, Types, ThreadsTyped, Threads
  <2>2. InThread("response", t) = 0
    BY <1>4, <2>1 DEF InThread, One
  <2>3. CASE thread'["response"] = At("update", u, w) /\ exit' = exit
    <3>1. thread'["response"].task = u
      BY <2>3 DEF At
    <3>2. InThread("response", t)' = d
      BY <1>3, <3>1 DEF InThread
    <3>3. Gone(t)' = Gone(t)
      BY <2>3 DEF Gone, Out
    <3> QED BY <2>2, <3>2, <3>3
  <2>4. CASE thread'["response"] = thread["response"] /\ Leave(u, Fault)
    <3>1. InThread("response", t)' = 0
      BY <2>2, <2>4 DEF InThread
    <3>2. Out' = Out \cup {u}
      <4>1. Fault.way # "none"
        BY DEF Fault, Exit
      <4> QED BY <1>4, <2>4, <4>1 DEF Leave, Out, Types, ExitsTyped
    <3>3. Gone(t)' = Gone(t) + d
      BY <1>3, <1>6, <3>2 DEF Gone, One
    <3> QED BY <2>2, <3>1, <3>3
  <2> QED BY <1>1, <2>3, <2>4 DEF AnswerOf
<1>9. Held(t)' + Ending(t)' = Held(t) + Ending(t) /\ Walking(t)' = Walking(t)
  <2>1. InEntries(t)' = InEntries(t) /\ Incoming(t)' = Incoming(t) /\ Finished(t)' = Finished(t)
    BY <1>2 DEF InEntries, Incoming, Finished
  <2>2. Walking(t)' = Walking(t)
    BY <1>2 DEF Walking, Asking, Walked
  <2> QED BY <1>4, <1>5, <1>7, <1>8, <2>1, <2>2 DEF Held, Ending, Counts
<1> QED BY <1>2, <1>9, SumsMove

LEMMA ResumePlaces ==
  ASSUME Types, Types', Resume, NEW t \in Tasks, Placed(t)
  PROVE  Placed(t)'
<1> DEFINE u == thread["response"].task
           w == thread["response"].walk
<1>1. /\ u \in Arrived /\ "response" \in Threads /\ "lookup" \in Threads \ {"response"} /\ w \in Walk
  BY DEF Resume, Types, ThreadsTyped, Threads
<1>2. UNCHANGED <<asked, incoming, pending, batch, to_xdtw, xdtw, finished, back>>
  BY DEF Resume, entryVars, xdtwVars
<1>3. PICK d \in {0, 1} : d = One(t, {u})
  BY DEF One
<1>4. Counts(t) /\ Counts(t)' /\ InThread("response", t) = d
  BY <1>3, TermTypes, TermTypesNext DEF InThread
<1>5. t = u => Gone(t) = 0
  <2>1. t = u => d = 1
    BY <1>3 DEF One
  <2>2. d = 1 => Ending(t) = 0
    BY <1>4, Alone
  <2> QED BY <1>4, <2>1, <2>2 DEF Ending, Counts
<1>6. /\ \A other \in Threads \ {"response"} : thread'[other] = thread[other]
      /\ \/ InThread("response", t)' = d /\ Gone(t)' = Gone(t)
         \/ InThread("response", t)' = 0 /\ Gone(t)' = Gone(t) + d
  <2>1. Continues("response", u)
    BY DEF Resume, Continues
  <2> QED BY <1>1, <1>3, <1>5, <2>1, GoesOnPlaces
<1>7. InThread("lookup", t)' = InThread("lookup", t)
  <2>1. thread'["lookup"] = thread["lookup"]
    BY <1>1, <1>6
  <2> QED BY <2>1 DEF InThread
<1>8. Held(t)' + Ending(t)' = Held(t) + Ending(t) /\ Walking(t)' = Walking(t)
  <2>1. /\ InEntries(t)' = InEntries(t) /\ Incoming(t)' = Incoming(t)
        /\ Finished(t)' = Finished(t) /\ Back(t)' = Back(t)
    BY <1>2 DEF InEntries, Incoming, Finished, Back
  <2>2. Walking(t)' = Walking(t)
    BY <1>2 DEF Walking, Asking, Walked
  <2> QED BY <1>4, <1>6, <1>7, <2>1, <2>2 DEF Held, Ending, Counts
<1> QED BY <1>2, <1>8, SumsMove

LEMMA PlacesStep == Types /\ Types' /\ Places /\ [Next]_vars => Places'
<1> SUFFICES ASSUME Types, Types', Places, [Next]_vars PROVE Places'
  OBVIOUS
<1>1. ASSUME NEW t \in Tasks PROVE Placed(t)'
  <2>1. Placed(t)
    BY DEF Places
  <2>2. CASE UNCHANGED vars
    BY <2>1, <2>2 DEF vars, cacheVars, entryVars, xdtwVars, Placed, Held, Walking, Ending, InEntries,
       InThread, Incoming, Asking, Walked, Finished, Back, Gone, Out, Arrived
  <2>3. CASE LookupThread
    BY <2>1, <2>3, GatherPlaces, TakePlaces, CheckLimitPlaces, WriteWalkPlaces DEF LookupThread, Threads
  <2>4. CASE ResponseThread
    BY <2>1, <2>4, AnswerPlaces, ResumePlaces, CheckLimitPlaces, WriteWalkPlaces
       DEF ResponseThread, Threads
  <2>5. CASE XdtwRequest \/ XdtwResponse
    BY <2>1, <2>5, StartWalkPlaces, EndWalkPlaces, ReturnWalkPlaces DEF XdtwRequest, XdtwResponse
  <2>6. CASE \E r \in Requests : Parse(r)
    BY <2>1, <2>6, ParsePlaces
  <2>7. CASE \E w \in Walk : CacheThread(w)
    BY <2>1, <2>7, CacheThreadPlaces
  <2> QED BY <2>2, <2>3, <2>4, <2>5, <2>6, <2>7 DEF Next
<1> QED BY <1>1 DEF Places, Placed, Held, Walking, Ending, InEntries, InThread, Incoming, Asking,
           Walked, Finished, Back, Gone, Out, Arrived

LEMMA CountsOfTwo ==
  ASSUME NEW a, NEW b, a # b, NEW S \in SUBSET {a, b}
  PROVE  Cardinality(S) = One(a, S) + One(b, S)
<1>1. CASE S = {}
  BY <1>1, FS_EmptySet DEF One
<1>2. CASE S = {a} \/ S = {b}
  <2>1. Cardinality({a}) = 1 /\ Cardinality({b}) = 1
    BY FS_Singleton
  <2> QED BY <1>2, <2>1 DEF One
<1>3. CASE S = {a, b}
  <2>1. Cardinality({a, b}) = 2
    <3>1. IsFiniteSet({a}) /\ Cardinality({a}) = 1 /\ b \notin {a} /\ {a, b} = {a} \cup {b}
      BY FS_Singleton
    <3> QED BY <3>1, FS_AddElement
  <2> QED BY <1>3, <2>1 DEF One
<1> QED BY <1>1, <1>2, <1>3

\* The sums are what Owners counts.
LEMMA OwnersIs ==
  ASSUME Types, NEW t \in Tasks
  PROVE  Owners(t) = Held(t) + Walking(t) + Ending(t)
<1>1. Cardinality({th \in Threads : thread[th].task = t}) = InThread("lookup", t) + InThread("response", t)
  <2> DEFINE S == {th \in Threads : thread[th].task = t}
  <2>1. S \in SUBSET {"lookup", "response"} /\ "lookup" # "response"
    BY DEF Threads
  <2>2. Cardinality(S) = One("lookup", S) + One("response", S)
    BY <2>1, CountsOfTwo
  <2>3. One("lookup", S) = InThread("lookup", t) /\ One("response", S) = InThread("response", t)
    BY DEF One, InThread, Threads
  <2> QED BY <2>2, <2>3
<1>2. Cardinality({w \in Walk : t \in xdtw[w]}) = Walked("ddt", t) + Walked("pdt", t)
  <2> DEFINE S == {w \in Walk : t \in xdtw[w]}
  <2>1. S \in SUBSET {"ddt", "pdt"} /\ "ddt" # "pdt"
    BY DEF Walk
  <2>2. Cardinality(S) = One("ddt", S) + One("pdt", S)
    BY <2>1, CountsOfTwo
  <2>3. One("ddt", S) = Walked("ddt", t) /\ One("pdt", S) = Walked("pdt", t)
    BY DEF One, Walked, Walk
  <2> QED BY <2>2, <2>3
<1>3. /\ Cardinality({i \in DOMAIN incoming : incoming[i] = t}) = Incoming(t)
      /\ Cardinality({i \in DOMAIN to_xdtw["ddt"] : to_xdtw["ddt"][i] = t}) = Asking("ddt", t)
      /\ Cardinality({i \in DOMAIN to_xdtw["pdt"] : to_xdtw["pdt"][i] = t}) = Asking("pdt", t)
  <2>1. \A s : {i \in DOMAIN s : s[i] = t} = {i \in DOMAIN s : s[i] \in {t}}
    OBVIOUS
  <2> QED BY <2>1 DEF Incoming, Asking, CountIn
<1>4. Cardinality({i \in DOMAIN back : back[i].task = t}) = Back(t)
  <2>1. \A i \in DOMAIN back : back[i] \in Result
    BY DEF Types, WalksTyped
  <2>2. ASSUME NEW i \in DOMAIN back PROVE back[i].task = t <=> back[i] \in OfTask(t)
    <3>1. back[i] = [task |-> back[i].task, walk |-> back[i].walk] /\ back[i].walk \in Walk
      BY <2>1 DEF Result
    <3>2. back[i].task = t => back[i] \in OfTask(t)
      BY <3>1 DEF OfTask
    <3>3. back[i] \in OfTask(t) => back[i].task = t
      BY DEF OfTask
    <3> QED BY <3>2, <3>3
  <2>3. {i \in DOMAIN back : back[i].task = t} = {i \in DOMAIN back : back[i] \in OfTask(t)}
    BY <2>2
  <2> QED BY <2>3 DEF Back, CountIn
<1>5. /\ (IF t \in pending \cup batch THEN 1 ELSE 0) = InEntries(t)
      /\ (IF finished.task = t THEN 1 ELSE 0) = Finished(t)
      /\ (IF exit[t].way # "none" THEN 1 ELSE 0) = Gone(t)
  BY DEF InEntries, Finished, Gone, Out, One
<1>6. Owners(t) = InEntries(t) + (InThread("lookup", t) + InThread("response", t)) + Incoming(t)
                    + Asking("ddt", t) + Asking("pdt", t) + (Walked("ddt", t) + Walked("pdt", t))
                    + Back(t) + Finished(t) + Gone(t)
  BY <1>1, <1>2, <1>3, <1>4, <1>5 DEF Owners
<1>7. Counts(t)
  BY TermTypes
<1> QED BY <1>6, <1>7 DEF Held, Walking, Ending, Counts

LEMMA InitPlaces == Init => Places
<1> SUFFICES ASSUME Init, NEW t \in Tasks PROVE Placed(t)
  BY DEF Places
<1>1. t # NoTask /\ One(t, Arrived) = 0
  BY DEF Init, Tasks, NoTask, Arrived, One
<1>2. Held(t) = 0
  <2>1. InEntries(t) = 0 /\ InThread("lookup", t) = 0 /\ InThread("response", t) = 0
    BY <1>1 DEF Init, InEntries, InThread, One, Idle, Threads
  <2>2. Incoming(t) = 0
    BY CountEmpty DEF Init, Incoming
  <2> QED BY <2>1, <2>2 DEF Held
<1>3. Walking(t) = 0
  <2>1. Walked("ddt", t) = 0 /\ Walked("pdt", t) = 0
    BY DEF Init, Walked, One, Walk
  <2>2. Asking("ddt", t) = 0 /\ Asking("pdt", t) = 0
    BY CountEmpty DEF Init, Asking, Walk
  <2> QED BY <2>1, <2>2 DEF Walking
<1>4. Ending(t) = 0
  <2>1. Finished(t) = 0 /\ Gone(t) = 0
    BY <1>1 DEF Init, Finished, Gone, Out, One, Exit
  <2>2. Back(t) = 0
    BY CountEmpty DEF Init, Back
  <2> QED BY <2>1, <2>2 DEF Ending
<1> QED BY <1>1, <1>2, <1>3, <1>4 DEF Placed

\* A task is owned by one thread or FIFO at a time, whatever the directories, the
\* requests, the depths of the FIFOs and the limits of the walks: at each hand-over
\* from parser to caches, walker and exit it leaves one place and enters one.
THEOREM OneTaskOneOwner == Spec => []OneOwner
<1>1. Init => Types /\ Places
  BY InitTypes, InitPlaces
<1>2. Types /\ Places /\ [Next]_vars => (Types /\ Places)'
  BY TypesStep, PlacesStep
<1>3. Types /\ Places => OneOwner
  <2> SUFFICES ASSUME Types, Places, NEW t \in 1 .. Len(asked) PROVE Owners(t) = 1
    BY DEF OneOwner
  <2>1. t \in Tasks /\ One(t, Arrived) = 1
    BY ArrivedTasks DEF Types, Arrived, One
  <2> QED BY <2>1, OwnersIs DEF Places, Placed
<1> QED BY <1>1, <1>2, <1>3, PTL DEF Spec

-----------------------------------------------------------------------------
(* The counters of walks stand for the tasks on a walk.                      *)

Writing(w) == {thread[th].task : th \in {h \in Threads : thread[h].at = "write" /\ thread[h].walk = w}}
Answers(w) == {m.task : m \in {x \in Range(back) : x.walk = w}}
Ended(w) == IF finished.walk = w THEN {finished.task} \ {NoTask} ELSE {}
Counters == \A w \in Walk : walks[w] = Cardinality(Counted(w))

LEMMA CountedParts ==
  ASSUME NEW w
  PROVE  /\ Counted(w) = Writing(w) \cup Range(to_xdtw[w]) \cup xdtw[w] \cup Answers(w) \cup Ended(w)
         /\ Counted(w)' = Writing(w)' \cup Range(to_xdtw'[w]) \cup xdtw'[w] \cup Answers(w)' \cup Ended(w)'
  BY DEF Counted, Writing, Answers, Ended

LEMMA CountedFinite ==
  ASSUME Types, NEW w \in Walk
  PROVE  IsFiniteSet(Counted(w)) /\ Counted(w) \subseteq Arrived
<1>1. Writing(w) \subseteq Arrived
  BY DEF Writing, Types, ThreadsTyped
<1>2. Range(to_xdtw[w]) \subseteq Arrived /\ xdtw[w] \subseteq Arrived
  BY DEF Range, Types, WalksTyped
<1>3. Answers(w) \subseteq Arrived
  <2>1. \A i \in DOMAIN back : back[i] \in Result
    BY DEF Types, WalksTyped
  <2> QED BY <2>1 DEF Answers, Range, Result
<1>4. Ended(w) \subseteq Arrived
  BY DEF Ended, Types, WalksTyped
<1>5. Counted(w) \subseteq Arrived
  BY <1>1, <1>2, <1>3, <1>4, CountedParts
<1>6. IsFiniteSet(Arrived)
  BY ArrivedTasks, IntervalFinite DEF Types, Arrived
<1> QED BY <1>5, <1>6, FS_Subset

LEMMA NotAnswered ==
  ASSUME NEW s \in Seq(Result), NEW t, CountIn(s, OfTask(t)) = 0, NEW w \in Walk
  PROVE  t \notin {m.task : m \in {x \in Range(s) : x.walk = w}}
<1> SUFFICES ASSUME NEW i \in DOMAIN s, s[i].walk = w, s[i].task = t PROVE FALSE
  BY DEF Range
<1>1. s[i] \in Result
  OBVIOUS
<1>2. s[i] = [task |-> t, walk |-> w]
  BY <1>1 DEF Result
<1>3. s[i] \in OfTask(t)
  BY <1>2 DEF OfTask
<1> QED BY <1>3, CountedIsIn

\* A task that an entry or a thread holds is in no other place.
LEMMA HeldAlone ==
  ASSUME Types, Places, NEW t \in Arrived, Held(t) = 1, NEW w \in Walk
  PROVE  /\ t \notin Range(to_xdtw[w]) /\ t \notin xdtw[w]
         /\ t \notin Answers(w) /\ t \notin Ended(w)
<1>1. t \in Tasks /\ t # NoTask /\ Placed(t) /\ Counts(t)
  BY ArrivedTasks, TermTypes DEF Types, Places
<1>2. Walking(t) = 0 /\ Ending(t) = 0
  <2>1. Walking(t) \in Nat /\ Ending(t) \in Nat
    BY GroupTypes
  <2>2. One(t, Arrived) = 1
    BY DEF One
  <2> QED BY <1>1, <2>1, <2>2 DEF Placed
<1>3. t \notin Range(to_xdtw[w]) /\ t \notin xdtw[w]
  <2>1. /\ Asking("ddt", t) = 0 /\ Asking("pdt", t) = 0
        /\ Walked("ddt", t) = 0 /\ Walked("pdt", t) = 0
    <3>1. /\ Asking("ddt", t) \in Nat /\ Asking("pdt", t) \in Nat
          /\ Walked("ddt", t) \in Nat /\ Walked("pdt", t) \in Nat
      BY <1>1 DEF Counts
    <3>2. Asking("ddt", t) + Asking("pdt", t) + Walked("ddt", t) + Walked("pdt", t) = 0
      BY <1>2 DEF Walking
    <3> QED BY <3>1, <3>2
  <2>2. Asking(w, t) = 0 /\ Walked(w, t) = 0 /\ to_xdtw[w] \in Seq(Arrived)
    BY <2>1 DEF Walk, Types, WalksTyped
  <2> QED BY <2>2, CountedIsIn DEF Asking, Walked, One, Range
<1>4. t \notin Answers(w) /\ t \notin Ended(w)
  <2>1. Back(t) = 0 /\ Finished(t) = 0
    <3>1. Back(t) \in Nat /\ Finished(t) \in Nat /\ Gone(t) \in Nat
      BY <1>1 DEF Counts
    <3>2. Finished(t) + Back(t) + Gone(t) = 0
      BY <1>2 DEF Ending
    <3> QED BY <3>1, <3>2
  <2>2. t \notin Ended(w)
    BY <2>1 DEF Ended, Finished, One
  <2>3. t \notin Answers(w)
    BY <2>1, NotAnswered DEF Back, Answers, Types, WalksTyped
  <2> QED BY <2>2, <2>3
<1> QED BY <1>3, <1>4

LEMMA ThreadAlone ==
  ASSUME Types, Places, NEW t \in Arrived, NEW th \in Threads, thread[th].task = t
  PROVE  /\ Held(t) = 1 /\ t \notin pending \cup batch \cup Range(incoming)
         /\ \A other \in Threads \ {th} : thread[other].task # t
<1>1. t \in Tasks /\ Placed(t) /\ Counts(t)
  BY ArrivedTasks, TermTypes DEF Types, Places
<1>2. InThread(th, t) = 1
  BY DEF InThread, One
<1>3. Held(t) = 1
  <2>1. Held(t) \in {0, 1}
    BY <1>1, Alone
  <2>2. th = "lookup" \/ th = "response"
    BY DEF Threads
  <2> QED BY <1>1, <1>2, <2>1, <2>2 DEF Held, Counts
<1>4. \A other \in Threads \ {th} : thread[other].task # t
  <2>1. InThread("lookup", t) + InThread("response", t) <= 1
    BY <1>1, <1>3 DEF Held, Counts
  <2>2. ASSUME NEW other \in Threads \ {th}, thread[other].task = t PROVE FALSE
    <3>1. InThread(other, t) = 1
      BY <2>2 DEF InThread, One
    <3> QED BY <1>2, <2>1, <3>1 DEF Threads
  <2> QED BY <2>2
<1>5. InEntries(t) = 0 /\ Incoming(t) = 0
  <2>1. /\ InEntries(t) \in Nat /\ Incoming(t) \in Nat
        /\ InThread("lookup", t) \in Nat /\ InThread("response", t) \in Nat
    BY <1>1 DEF Counts
  <2>2. th = "lookup" \/ th = "response"
    BY DEF Threads
  <2> QED BY <1>2, <1>3, <2>1, <2>2 DEF Held
<1>6. t \notin Range(incoming)
  BY <1>5, CountedIsIn DEF Incoming, Range, Types, EntriesTyped
<1> QED BY <1>3, <1>4, <1>5, <1>6 DEF InEntries, One

LEMMA EntryAlone ==
  ASSUME Types, Places, NEW t \in pending \cup batch
  PROVE  /\ t \in Arrived /\ Held(t) = 1 /\ t \notin Range(incoming)
         /\ \A th \in Threads : thread[th].task # t
<1>1. t \in Arrived /\ t \in Tasks /\ Placed(t) /\ InEntries(t) = 1
  BY ArrivedTasks DEF Types, EntriesTyped, Places, InEntries, One
<1>2. Incoming(t) = 0 /\ Held(t) = 1
  <2>1. Incoming(t) = 0 /\ Held(t) \in {0, 1} /\ Counts(t)
    BY <1>1, Alone, TermTypes
  <2> QED BY <1>1, <2>1 DEF Held, Counts
<1>3. t \notin Range(incoming)
  BY <1>2, CountedIsIn DEF Incoming, Range, Types, EntriesTyped
<1>4. \A th \in Threads : thread[th].task # t
  <2> SUFFICES ASSUME NEW th \in Threads, thread[th].task = t PROVE FALSE
    OBVIOUS
  <2> QED BY <1>1, ThreadAlone
<1> QED BY <1>1, <1>2, <1>3, <1>4

LEMMA ThreadsTaskNotCounted ==
  ASSUME Types, Places, NEW th \in Threads, thread[th].at # "write", NEW t \in Arrived,
         thread[th].task = t, NEW w \in Walk
  PROVE  t \notin Counted(w)
<1>1. t \notin Writing(w)
  BY ThreadAlone DEF Writing
<1>2. Held(t) = 1
  BY ThreadAlone
<1> QED BY <1>1, <1>2, HeldAlone, CountedParts

\* Nor is a task whose answer has been taken.
LEMMA AnsweredNotCounted ==
  ASSUME Types, Types', Places, NEW t \in Arrived, NEW w \in Walk, AnswerOf(t, w), Answer
  PROVE  t \notin Counted(w)' /\ t \in Answers(w)
<1>1. /\ t \in Tasks /\ t # NoTask /\ Placed(t) /\ Counts(t) /\ Counts(t)'
      /\ back \in Seq(Result) /\ back # <<>> /\ back' = Tail(back)
      /\ UNCHANGED <<to_xdtw, xdtw, finished>>
      /\ Held(t) \in Nat /\ Walking(t) \in Nat /\ Ending(t) \in Nat /\ One(t, Arrived) \in {0, 1}
  BY ArrivedTasks, TermTypes, TermTypesNext, GroupTypes DEF Types, Places, AnswerOf, WalksTyped, One
<1>2. Head(back) \in Result /\ Head(back).task = t /\ Head(back).walk = w /\ Head(back) = back[1]
      /\ 1 \in DOMAIN back
  BY <1>1 DEF AnswerOf
<1>3. Head(back) \in OfTask(t)
  <2>1. Head(back) = [task |-> t, walk |-> w]
    BY <1>2 DEF Result
  <2> QED BY <2>1 DEF OfTask
<1>4. CountIn(back', OfTask(t)) = CountIn(back, OfTask(t)) - 1
  BY <1>1, <1>3, CountTail
<1>5. Back(t)' = Back(t) - 1
  BY <1>4 DEF Back
<1>6. Held(t) = 0 /\ Walking(t) = 0 /\ Ending(t) = 1
  <2>1. Ending(t) >= 1
    <3>1. Back(t) \in Nat /\ Finished(t) \in Nat /\ Gone(t) \in Nat /\ Back(t)' \in Nat
      BY <1>1 DEF Counts
    <3> QED BY <1>5, <3>1 DEF Ending
  <2> QED BY <1>1, <2>1 DEF Placed
<1>7. Back(t)' = 0 /\ Finished(t) = 0
  <2>1. Back(t) \in Nat /\ Finished(t) \in Nat /\ Gone(t) \in Nat /\ Back(t)' \in Nat
    BY <1>1 DEF Counts
  <2>2. Finished(t) + Back(t) + Gone(t) = 1
    BY <1>6 DEF Ending
  <2> QED BY <1>5, <2>1, <2>2
<1>8. t \notin Answers(w)' /\ t \in Answers(w)
  <2>1. back' \in Seq(Result) /\ CountIn(back', OfTask(t)) = 0
    BY <1>1, <1>7 DEF Back
  <2>2. t \notin Answers(w)'
    BY <2>1, NotAnswered DEF Answers
  <2>3. back[1] \in Range(back)
    BY <1>2 DEF Range
  <2> QED BY <1>2, <2>2, <2>3 DEF Answers
<1>9. t \notin Ended(w)'
  BY <1>1, <1>7 DEF Ended, Finished, One
<1>10. t \notin Range(to_xdtw'[w]) /\ t \notin xdtw'[w]
  <2>1. /\ Asking("ddt", t) = 0 /\ Asking("pdt", t) = 0
        /\ Walked("ddt", t) = 0 /\ Walked("pdt", t) = 0
    <3>1. /\ Asking("ddt", t) \in Nat /\ Asking("pdt", t) \in Nat
          /\ Walked("ddt", t) \in Nat /\ Walked("pdt", t) \in Nat
      BY <1>1 DEF Counts
    <3> QED BY <1>6, <3>1 DEF Walking
  <2>2. Asking(w, t) = 0 /\ Walked(w, t) = 0 /\ to_xdtw[w] \in Seq(Arrived)
    BY <2>1 DEF Walk, Types, WalksTyped
  <2> QED BY <1>1, <2>2, CountedIsIn DEF Asking, Walked, One, Range
<1>11. t \notin Writing(w)'
  <2>1. InThread("lookup", t) = 0 /\ InThread("response", t) = 0
    <3>1. /\ InThread("lookup", t) \in Nat /\ InThread("response", t) \in Nat
          /\ InEntries(t) \in Nat /\ Incoming(t) \in Nat
      BY <1>1 DEF Counts
    <3> QED BY <1>6, <3>1 DEF Held
  <2>2. \A th \in Threads : thread'[th].at = "write" => thread'[th] = thread[th]
    BY DEF AnswerOf, At, Types, ThreadsTyped
  <2>3. \A th \in Threads : thread[th].task # t
    BY <2>1 DEF InThread, One, Threads
  <2> QED BY <2>2, <2>3 DEF Writing
<1> QED BY <1>8, <1>9, <1>10, <1>11, CountedParts

LEMMA WritingSame ==
  ASSUME Types, Types', NEW w,
         \A th \in Threads : \/ thread'[th] = thread[th]
                             \/ thread[th].at # "write" /\ thread'[th].at # "write"
  PROVE  Writing(w)' = Writing(w)
  BY DEF Writing

LEMMA CountedSame ==
  ASSUME Types, Types', Counters, UNCHANGED <<walks, to_xdtw, xdtw, back, finished>>,
         \A w \in Walk : Writing(w)' = Writing(w)
  PROVE  Counters'
<1>1. \A w \in Walk : Cardinality(Counted(w))' = Cardinality(Counted(w))
  BY DEF Counted, Writing
<1> QED BY <1>1 DEF Counters

LEMMA CheckLimitCounters ==
  ASSUME Types, Types', Places, Counters, NEW th \in Threads, CheckLimit(th)
  PROVE  Counters'
<1>. PICK t \in Arrived, w \in Walk : t = thread[th].task /\ w = thread[th].walk
  BY DEF CheckLimit, Types, ThreadsTyped
<1>1. /\ thread[th].at = "limit" /\ UNCHANGED <<to_xdtw, xdtw, back, finished>>
      /\ thread \in [Threads -> [at : Spots, task : Arrived \cup {NoTask}, walk : Walk]]
      /\ walks \in [Walk -> Int]
  BY DEF CheckLimit, xdtwVars, Types, ThreadsTyped, WalksTyped
<1>2. CASE thread' = [thread EXCEPT ![th].at = "asleep"] /\ walks' = walks
  BY <1>1, <1>2, WritingSame, CountedSame
<1>3. CASE thread' = [thread EXCEPT ![th].at = "write"] /\ walks' = [walks EXCEPT ![w] = walks[w] + 1]
  <2>1. Writing(w)' = Writing(w) \cup {t}
    BY <1>1, <1>3 DEF Writing
  <2>2. \A v \in Walk \ {w} : Writing(v)' = Writing(v)
    BY <1>1, <1>3 DEF Writing
  <2>3. \A v \in Walk : /\ Answers(v)' = Answers(v) /\ Ended(v)' = Ended(v)
    BY <1>1 DEF Answers, Ended
  <2>4. Counted(w)' = Counted(w) \cup {t}
    BY <1>1, <2>1, <2>3, CountedParts
  <2>5. ASSUME NEW v \in Walk \ {w} PROVE Counted(v)' = Counted(v)
    BY <1>1, <2>2, <2>3, CountedParts
  <2>6. t \notin Counted(w) /\ IsFiniteSet(Counted(w))
    BY <1>1, ThreadsTaskNotCounted, CountedFinite
  <2>7. Cardinality(Counted(w)') = Cardinality(Counted(w)) + 1
    BY <2>4, <2>6, FS_AddElement
  <2>8. walks'[w] = walks[w] + 1 /\ \A v \in Walk \ {w} : walks'[v] = walks[v]
    BY <1>1, <1>3
  <2>9. ASSUME NEW v \in Walk PROVE walks'[v] = Cardinality(Counted(v)')
    <3>1. CASE v = w
      BY <1>1, <2>7, <2>8, <3>1 DEF Counters
    <3>2. CASE v # w
      <4>1. Counted(v)' = Counted(v) /\ walks'[v] = walks[v]
        BY <2>5, <2>8, <3>2
      <4> QED BY <4>1 DEF Counters
    <3> QED BY <3>1, <3>2
  <2> QED BY <2>9 DEF Counters, Counted
<1> QED BY <1>2, <1>3 DEF CheckLimit

LEMMA AnswerCounted ==
  ASSUME Types, Types', NEW t \in Arrived, NEW w \in Walk, AnswerOf(t, w), NEW v \in Walk
  PROVE  Counted(w) = Counted(w)' \cup {t} /\ (v # w => Counted(v)' = Counted(v))
<1>1. AnswerOf(t, w)
  OBVIOUS
<1>2. /\ UNCHANGED <<to_xdtw, xdtw, finished>> /\ back \in Seq(Result) /\ back # <<>>
      /\ back' = Tail(back) /\ Head(back).task = t /\ Head(back).walk = w
  BY <1>1 DEF AnswerOf, Types, WalksTyped
<1>3. \A u \in Walk : Writing(u)' = Writing(u) /\ Ended(u)' = Ended(u)
  <2>1. \A th \in Threads : \/ thread'[th] = thread[th]
                            \/ thread[th].at # "write" /\ thread'[th].at # "write"
    <3>1. thread \in [Threads -> [at : Spots, task : Arrived \cup {NoTask}, walk : Walk]]
      BY DEF Types, ThreadsTyped
    <3> QED BY <1>1, <3>1 DEF AnswerOf, At
  <2> QED BY <1>2, <2>1, WritingSame DEF Ended
<1>4. Range(back) = {Head(back)} \cup Range(back')
  <2>1. ToSet(back) = {Head(back)} \union ToSet(Tail(back))
    BY <1>2, TailSet
  <2> QED BY <1>2, <2>1 DEF ToSet, Range
<1>5. Answers(w) = Answers(w)' \cup {t} /\ \A u \in Walk \ {w} : Answers(u)' = Answers(u)
  BY <1>2, <1>4 DEF Answers
<1>6. Counted(w) = Counted(w)' \cup {t}
  BY <1>2, <1>3, <1>5, CountedParts
<1>7. v # w => Counted(v)' = Counted(v)
  BY <1>2, <1>3, <1>5, CountedParts
<1> QED BY <1>6, <1>7

LEMMA AnswerCounters ==
  ASSUME Types, Types', Places, Counters, Answer
  PROVE  Counters'
<1>1. PICK t \in Arrived, w \in Walk : AnswerOf(t, w)
  BY AnswerCases
<1>2. /\ UNCHANGED <<to_xdtw, xdtw, finished>> /\ back \in Seq(Result) /\ back # <<>>
      /\ back' = Tail(back) /\ Head(back).task = t /\ Head(back).walk = w
      /\ walks' = [walks EXCEPT ![w] = walks[w] - 1] /\ walks \in [Walk -> Int]
  BY <1>1 DEF AnswerOf, Types, WalksTyped
<1>6. Counted(w) = Counted(w)' \cup {t}
  BY <1>1, AnswerCounted
<1>7. ASSUME NEW v \in Walk \ {w} PROVE Counted(v)' = Counted(v)
  BY <1>1, <1>7, AnswerCounted
<1>8. t \notin Counted(w)' /\ IsFiniteSet(Counted(w)) /\ IsFiniteSet(Counted(w)')
  <2>1. IsFiniteSet(Counted(w)) /\ t \notin Counted(w)'
    BY <1>1, CountedFinite, AnsweredNotCounted
  <2> QED BY <1>6, <2>1, FS_Subset
<1>9. Cardinality(Counted(w)) = Cardinality(Counted(w)') + 1 /\ Cardinality(Counted(w)') \in Nat
  BY <1>6, <1>8, FS_AddElement, FS_CardinalityType
<1>10. ASSUME NEW v \in Walk PROVE walks'[v] = Cardinality(Counted(v)')
  <2>1. CASE v = w
    BY <1>2, <1>9, <2>1 DEF Counters
  <2>2. CASE v # w
    <3>1. Counted(v)' = Counted(v) /\ walks'[v] = walks[v]
      BY <1>2, <1>7, <2>2
    <3> QED BY <3>1 DEF Counters
  <2> QED BY <2>1, <2>2
<1> QED BY <1>10 DEF Counters, Counted

LEMMA GoesOnCounters ==
  ASSUME Types, Types', Counters, NEW th \in Threads, thread[th].at # "write", NEW t \in Arrived,
         Continues(th, t), UNCHANGED <<walks, to_xdtw, xdtw, back, finished>>
  PROVE  Counters'
<1>1. thread \in [Threads -> [at : Spots, task : Arrived \cup {NoTask}, walk : Walk]]
  BY DEF Types, ThreadsTyped
<1>2. \/ thread' = [thread EXCEPT ![th] = Idle]
      \/ \E w \in Walk : thread' = [thread EXCEPT ![th] = At("limit", t, w)]
  BY GoesOn DEF Asks
<1>3. thread'[th].at # "write" /\ \A u \in Threads \ {th} : thread'[u] = thread[u]
  <2>1. CASE thread' = [thread EXCEPT ![th] = Idle]
    BY <1>1, <2>1 DEF Idle
  <2>2. CASE \E w \in Walk : thread' = [thread EXCEPT ![th] = At("limit", t, w)]
    BY <1>1, <2>2 DEF At
  <2> QED BY <1>2, <2>1, <2>2
<1> QED BY <1>3, WritingSame, CountedSame

LEMMA WriteWalkCounted ==
  ASSUME Types, NEW th \in Threads, WriteWalk(th), NEW v \in Walk
  PROVE  Counted(v)' = Counted(v)
<1>. PICK t \in Arrived, w \in Walk : t = thread[th].task /\ w = thread[th].walk
  BY DEF WriteWalk, Types, ThreadsTyped
<1>1. /\ thread[th].at = "write" /\ UNCHANGED <<walks, xdtw, back, finished>>
      /\ to_xdtw' = [to_xdtw EXCEPT ![w] = Append(to_xdtw[w], t)]
      /\ thread' = [thread EXCEPT ![th] = Idle]
      /\ thread \in [Threads -> [at : Spots, task : Arrived \cup {NoTask}, walk : Walk]]
      /\ to_xdtw \in [Walk -> Seq(Arrived)]
  BY DEF WriteWalk, xdtwVars, Types, ThreadsTyped, WalksTyped
<1>2. Range(to_xdtw'[w]) = Range(to_xdtw[w]) \cup {t}
  <2>1. ToSet(Append(to_xdtw[w], t)) = ToSet(to_xdtw[w]) \union {t}
    BY <1>1, AppendSet
  <2> QED BY <1>1, <2>1 DEF ToSet, Range
<1>3. Writing(w) = Writing(w)' \cup {t}
  BY <1>1 DEF Writing, Idle
<1>4. \A u \in Walk \ {w} : Writing(u)' = Writing(u) /\ to_xdtw'[u] = to_xdtw[u]
  BY <1>1 DEF Writing, Idle
<1>5. \A u \in Walk : Answers(u)' = Answers(u) /\ Ended(u)' = Ended(u)
  BY <1>1 DEF Answers, Ended
<1>6. CASE v = w
  <2>1. Writing(w)' \cup Range(to_xdtw'[w]) = Writing(w) \cup Range(to_xdtw[w])
    BY <1>2, <1>3
  <2>2. Answers(w)' = Answers(w) /\ Ended(w)' = Ended(w) /\ xdtw' = xdtw
    BY <1>1, <1>5
  <2>3. Counted(w)' = Counted(w)
    BY <2>1, <2>2, CountedParts
  <2> QED BY <1>6, <2>3
<1>7. CASE v # w
  <2>1. Writing(v)' = Writing(v) /\ to_xdtw'[v] = to_xdtw[v]
    BY <1>4, <1>7
  <2>2. Answers(v)' = Answers(v) /\ Ended(v)' = Ended(v) /\ xdtw' = xdtw
    BY <1>1, <1>5
  <2> QED BY <2>1, <2>2, CountedParts
<1> QED BY <1>6, <1>7

LEMMA XdtwCounted ==
  ASSUME Types, XdtwRequest \/ XdtwResponse, NEW u \in Walk
  PROVE  Counted(u)' = Counted(u) /\ UNCHANGED <<thread, walks>>
<1>1. UNCHANGED <<thread, walks>>
  BY DEF XdtwRequest, XdtwResponse, StartWalk, EndWalk, ReturnWalk
<1>2. \A v \in Walk : Writing(v)' = Writing(v)
  BY <1>1 DEF Writing
<1>3. /\ to_xdtw \in [Walk -> Seq(Arrived)] /\ xdtw \in [Walk -> SUBSET Arrived]
      /\ back \in Seq(Result) /\ finished \in [task : Arrived \cup {NoTask}, walk : Walk]
      /\ NoTask \notin Arrived
  BY ArrivedTasks DEF Types, WalksTyped
<1>4. ASSUME NEW w \in Walk, StartWalk(w), NEW v \in Walk PROVE Counted(v)' = Counted(v)
  <2>1. /\ to_xdtw' = [to_xdtw EXCEPT ![w] = Tail(to_xdtw[w])] /\ to_xdtw[w] # <<>>
        /\ xdtw' = [xdtw EXCEPT ![w] = xdtw[w] \cup {Head(to_xdtw[w])}]
        /\ UNCHANGED <<back, finished>>
    BY <1>4 DEF StartWalk, CanStart
  <2>2. Answers(v)' = Answers(v) /\ Ended(v)' = Ended(v)
    BY <2>1 DEF Answers, Ended
  <2>3. Range(to_xdtw[w]) = {Head(to_xdtw[w])} \cup Range(to_xdtw'[w])
    <3>1. ToSet(to_xdtw[w]) = {Head(to_xdtw[w])} \union ToSet(Tail(to_xdtw[w]))
      BY <1>3, <2>1, TailSet
    <3> QED BY <1>3, <2>1, <3>1 DEF ToSet, Range
  <2>4. Range(to_xdtw'[v]) \cup xdtw'[v] = Range(to_xdtw[v]) \cup xdtw[v]
    <3>1. CASE v = w
      BY <1>3, <2>1, <2>3, <3>1
    <3>2. CASE v # w
      BY <1>3, <2>1, <3>2
    <3> QED BY <3>1, <3>2
  <2> QED BY <1>2, <2>2, <2>4, CountedParts
<1>5. ASSUME NEW w \in Walk, NEW t \in xdtw[w], EndWalk(w, t), NEW v \in Walk
      PROVE  Counted(v)' = Counted(v)
  <2>1. /\ xdtw' = [xdtw EXCEPT ![w] = xdtw[w] \ {t}] /\ UNCHANGED <<to_xdtw, back>>
        /\ finished.task = NoTask /\ finished' = [task |-> t, walk |-> w]
    BY <1>5 DEF EndWalk
  <2>2. Answers(v)' = Answers(v) /\ Ended(v) = {} /\ Ended(v)' = IF v = w THEN {t} ELSE {}
    BY <1>3, <2>1, ZenonT(40) DEF Answers, Ended
  <2>3. xdtw'[v] \cup Ended(v)' = xdtw[v]
    <3>1. CASE v = w
      <4>1. xdtw'[v] = xdtw[v] \ {t} /\ Ended(v)' = {t}
        BY <1>3, <2>1, <2>2, <3>1
      <4> QED BY <1>5, <3>1, <4>1
    <3>2. CASE v # w
      <4>1. xdtw'[v] = xdtw[v] /\ Ended(v)' = {}
        BY <1>3, <2>1, <2>2, <3>2
      <4> QED BY <4>1
    <3> QED BY <3>1, <3>2
  <2>4. Counted(v)' = Writing(v)' \cup Range(to_xdtw'[v]) \cup (xdtw'[v] \cup Ended(v)') \cup Answers(v)'
    BY CountedParts
  <2>5. Counted(v) = Writing(v) \cup Range(to_xdtw[v]) \cup xdtw[v] \cup Answers(v)
    BY <2>2, CountedParts
  <2> QED BY <1>2, <2>1, <2>2, <2>3, <2>4, <2>5
<1>6. ASSUME ReturnWalk, NEW v \in Walk PROVE Counted(v)' = Counted(v)
  <2>1. /\ UNCHANGED <<to_xdtw, xdtw>> /\ back' = Append(back, finished) /\ finished \in Result
        /\ finished' = [task |-> NoTask, walk |-> "ddt"] /\ finished.task # NoTask
    BY <1>3, <1>6 DEF ReturnWalk, Result
  <2>2. Range(back') = Range(back) \cup {finished}
    <3>1. ToSet(Append(back, finished)) = ToSet(back) \union {finished}
      BY <1>3, <2>1, AppendSet
    <3> QED BY <2>1, <3>1 DEF ToSet, Range
  <2>3. Answers(v)' = Answers(v) \cup Ended(v)
    BY <2>1, <2>2 DEF Answers, Ended
  <2>4. Ended(v)' = {}
    BY <2>1 DEF Ended
  <2> QED BY <1>2, <2>1, <2>3, <2>4, CountedParts
<1> QED BY <1>1, <1>4, <1>5, <1>6 DEF XdtwRequest, XdtwResponse

LEMMA WalksSame ==
  ASSUME Types, Counters, UNCHANGED walks, \A w \in Walk : Counted(w)' = Counted(w)
  PROVE  Counters'
<1>1. ASSUME NEW w \in Walk PROVE walks'[w] = Cardinality(Counted(w)')
  <2>1. Counted(w)' = Counted(w)
    OBVIOUS
  <2> QED BY <2>1 DEF Counters
<1> QED BY <1>1 DEF Counters, Counted

LEMMA CountersStep == Types /\ Types' /\ Places /\ Counters /\ [Next]_vars => Counters'
<1> SUFFICES ASSUME Types, Types', Places, Counters, [Next]_vars PROVE Counters'
  OBVIOUS
<1>1. ASSUME UNCHANGED <<walks, to_xdtw, xdtw, back, finished, thread>> PROVE Counters'
  BY <1>1, WritingSame, CountedSame
<1>2. CASE UNCHANGED vars \/ Gather \/ (\E r \in Requests : Parse(r)) \/ \E w \in Walk : CacheThread(w)
  BY <1>1, <1>2 DEF vars, xdtwVars, Gather, Parse, CacheThread, Lookup, PushResponse, Fill
<1>3. CASE Take
  <2>1. PICK t \in batch : TakeOf(t)
    BY <1>3, TakeCases
  <2>2. t \in Arrived /\ "lookup" \in Threads /\ "ddt" \in Walk /\ thread["lookup"].at # "write"
    BY <2>1 DEF TakeOf, Types, EntriesTyped, Threads, Walk
  <2>3. Continues("lookup", t)
    BY <2>1, <2>2 DEF TakeOf, Continues
  <2> QED BY <2>1, <2>2, <2>3, GoesOnCounters DEF TakeOf
<1>4. CASE Resume
  <2>1. thread["response"].task \in Arrived /\ "response" \in Threads
    BY <1>4 DEF Resume, Types, ThreadsTyped, Threads
  <2>2. Continues("response", thread["response"].task) /\ thread["response"].at # "write"
    BY <1>4 DEF Resume, Continues
  <2>3. UNCHANGED <<walks, to_xdtw, xdtw, back, finished>>
    BY <1>4 DEF Resume, xdtwVars
  <2> QED BY <2>1, <2>2, <2>3, GoesOnCounters
<1>5. ASSUME NEW th \in Threads, WriteWalk(th) PROVE Counters'
  <2>1. UNCHANGED walks
    BY <1>5 DEF WriteWalk
  <2> QED BY <1>5, <2>1, WriteWalkCounted, WalksSame
<1>6. CASE XdtwRequest \/ XdtwResponse
  <2>1. UNCHANGED walks
    BY <1>6 DEF XdtwRequest, XdtwResponse, StartWalk, EndWalk, ReturnWalk
  <2> QED BY <1>6, <2>1, XdtwCounted, WalksSame
<1> QED BY <1>2, <1>3, <1>4, <1>5, <1>6, CheckLimitCounters, AnswerCounters
        DEF Next, LookupThread, ResponseThread, Threads

LEMMA InitCounters == Init => Counters
<1> SUFFICES ASSUME Init, NEW w \in Walk PROVE walks[w] = Cardinality(Counted(w))
  BY DEF Counters
<1>1. Counted(w) = {} /\ walks[w] = 0
  BY DEF Init, Counted, Idle, Range
<1> QED BY <1>1, FS_EmptySet

\* The counters of walks stand for exactly the tasks on a walk, no FIFO and no
\* counter passes its limit, whatever the directories, the requests and the limits:
\* no order of misses, failed walks and wake-ups makes a slot leak or be used twice.
THEOREM CountersStandForWalks == Spec => []CountersMatchWalks
<1> DEFINE Inv == Types /\ Depths /\ Places /\ Counters
<1>1. Init => Inv
  <2>1. Init => Depths
    BY Numbers, FS_EmptySet DEF Init, Depths
  <2> QED BY <2>1, InitTypes, InitPlaces, InitCounters
<1>2. Inv /\ [Next]_vars => Inv'
  BY TypesStep, DepthsStep, PlacesStep, CountersStep
<1>3. Inv => CountersMatchWalks
  <2> SUFFICES ASSUME Inv PROVE CountersMatchWalks
    OBVIOUS
  <2>1. \A w \in Walk : walks[w] = Cardinality(Counted(w)) /\ walks[w] \in Nat
    BY CountedFinite, FS_CardinalityType DEF Counters
  <2>2. \A w \in Walk : walks[w] \in 0 .. COLLECTOR_MAX_WALK[w]
    BY <2>1, Numbers DEF Depths
  <2>3. \A w \in Walk : server[w].task \in 0 .. Len(asked)
    BY ArrivedTasks DEF Types, CachesTyped, Arrived, NoTask
  <2>4. /\ pending \subseteq Tasks /\ batch \subseteq Tasks
        /\ \A th \in Threads : thread[th] \in
             [at : {"free", "limit", "asleep", "write", "update"}, task : Tasks \cup {NoTask}, walk : Walk]
    BY ArrivedTasks DEF Types, EntriesTyped, ThreadsTyped, Spots
  <2>5. TypeOK
    BY <2>2, <2>3, <2>4 DEF TypeOK, Types, AskedTyped, ExitsTyped, Depths
  <2> QED BY <2>1, <2>5 DEF CountersMatchWalks
<1> QED BY <1>1, <1>2, <1>3, PTL DEF Spec

-----------------------------------------------------------------------------
(* A task leaves as the sequential translation has it.                       *)

\* Without a process id a request carries process id 0 where the context gives it one.
NoStalePid == \A r \in Requests : DDT[r.dev].dpe /\ ~r.pid_valid => r.pid = 0

\* The task is known by its device at first, then by the process its context gives.
Early(t) == req[t] = asked[t]
Late(t) == /\ DeviceContext(asked[t]).valid
           /\ AfterDC(asked[t], DeviceContext(asked[t])).way = "need_pc"
           /\ req[t] = Defaulted(asked[t], DeviceContext(asked[t]))

Waiting == pending \cup batch \cup Range(incoming)
Holding(w) == {thread[th].task : th \in {h \in Threads : thread[h].at # "free" /\ thread[h].walk = w}}
On(w) == Holding(w) \cup Counted(w)
Phases == /\ \A t \in Waiting \cup On("ddt") : Early(t)
          /\ \A t \in On("pdt") : Late(t)
Found == \A th \in Threads :
           thread[th].at = "update" => Present(thread[th].walk, req[thread[th].task])

\* What the caches hold, and what was found in them, is in the directories.
Sound(w, key) == IF w = "ddt" THEN DDT[key[1]].valid ELSE PDT[key].valid
HitSound(w, m) == m.hit => Sound(w, Key(w, asked[m.task]))
KeysKnown == \A w \in Walk : \A k \in cached[w] \cup Range(update[w]) : Sound(w, k)
HitsKnown == /\ \A w \in Walk : \A t \in hits[w] : Sound(w, Key(w, asked[t]))
             /\ \A w \in Walk : server[w].hit => /\ server[w].task \in Arrived
                                               /\ Sound(w, Key(w, asked[server[w].task]))
             /\ \A w \in Walk : \A m \in Range(response[w]) : HitSound(w, m)

LEMMA OnArrived ==
  ASSUME Types, NEW w \in Walk
  PROVE  On(w) \subseteq Arrived /\ Waiting \subseteq Arrived
<1>1. Holding(w) \subseteq Arrived
  BY DEF Holding, Types, ThreadsTyped
<1>2. Waiting \subseteq Arrived
  BY DEF Waiting, Range, Types, EntriesTyped
<1> QED BY <1>1, <1>2, CountedFinite DEF On

\* The lookup of the process context uses the key of the request as it arrived.
LEMMA SameKey ==
  ASSUME NoStalePid, NEW r \in Requests, AfterDC(r, DeviceContext(r)).way = "need_pc"
  PROVE  Key("pdt", Defaulted(r, DeviceContext(r))) = Key("pdt", r)
<1> DEFINE dc == DeviceContext(r)
           d == Defaulted(r, dc)
<1>1. r \in Request
  BY Numbers
<1>2. dc.pdtv /\ d.pid_valid
  BY <1>1, AfterDCNeedsPC
<1>3. d.dev = r.dev /\ d.pid = r.pid
  BY <1>1, <1>2 DEF NoStalePid, Defaulted, DeviceContext, Request
<1> QED BY <1>3 DEF Key

LEMMA PhasesSame ==
  ASSUME Phases, UNCHANGED <<asked, req>>, Waiting' \subseteq Waiting,
         On("ddt")' \subseteq On("ddt"), On("pdt")' \subseteq On("pdt")
  PROVE  Phases'
<1>1. \A t : (Early(t) => Early(t)') /\ (Late(t) => Late(t)')
  BY DEF Early, Late
<1>2. \A t \in Waiting' \cup On("ddt")' : req'[t] = asked'[t]
  BY DEF Phases, Early
<1>3. \A t \in On("pdt")' : Late(t)
  BY DEF Phases
<1>4. \A t \in On("pdt")' : /\ DeviceContext(asked'[t]).valid
                            /\ AfterDC(asked'[t], DeviceContext(asked'[t])).way = "need_pc"
                            /\ req'[t] = Defaulted(asked'[t], DeviceContext(asked'[t]))
  BY <1>3 DEF Late
<1> QED BY <1>2, <1>4 DEF Phases, Early, Late, Waiting, On, Holding, Counted

LEMMA ParsePhases ==
  ASSUME Types, Phases, NEW r \in Requests, Parse(r)
  PROVE  Phases'
<1> DEFINE n == Len(asked) + 1
<1>1. /\ asked' = Append(asked, r) /\ req' = Append(req, r) /\ incoming' = Append(incoming, n)
      /\ UNCHANGED <<pending, batch, thread, to_xdtw, xdtw, back, finished>>
  BY DEF Parse, entryVars, xdtwVars
<1>2. /\ asked \in Seq(Requests) /\ req \in Seq(Request) /\ Len(req) = Len(asked)
      /\ Len(asked) \in Nat /\ incoming \in Seq(Arrived)
  BY DEF Types, AskedTyped, EntriesTyped
<1>3. \A t \in Arrived : asked'[t] = asked[t] /\ req'[t] = req[t]
  BY <1>1, <1>2 DEF Arrived
<1>4. asked'[n] = r /\ req'[n] = r
  BY <1>1, <1>2
<1>5. Waiting' = Waiting \cup {n}
  <2>1. incoming \in Seq(Arrived \cup {n}) /\ n \in Arrived \cup {n}
    BY <1>2, SeqMonotone
  <2>2. ToSet(Append(incoming, n)) = ToSet(incoming) \union {n}
    BY <2>1, AppendSet
  <2>3. Range(incoming') = Range(incoming) \cup {n}
    BY <1>1, <2>2 DEF ToSet, Range
  <2> QED BY <1>1, <2>3 DEF Waiting
<1>6. On("ddt")' = On("ddt") /\ On("pdt")' = On("pdt")
  BY <1>1 DEF On, Holding, Counted
<1>7. Waiting \subseteq Arrived /\ On("ddt") \subseteq Arrived /\ On("pdt") \subseteq Arrived
  BY OnArrived DEF Walk
<1>8. \A t \in Waiting' \cup On("ddt") : req'[t] = asked'[t]
  BY <1>3, <1>4, <1>5, <1>7 DEF Phases, Early
<1>9. \A t \in On("pdt") : /\ DeviceContext(asked'[t]).valid
                           /\ AfterDC(asked'[t], DeviceContext(asked'[t])).way = "need_pc"
                           /\ req'[t] = Defaulted(asked'[t], DeviceContext(asked'[t]))
  BY <1>3, <1>7 DEF Phases, Late
<1>10. \A t \in Waiting' \cup On("ddt")' : req'[t] = asked'[t]
  BY <1>6, <1>8
<1>11. \A t \in On("pdt")' : /\ DeviceContext(asked'[t]).valid
                            /\ AfterDC(asked'[t], DeviceContext(asked'[t])).way = "need_pc"
                            /\ req'[t] = Defaulted(asked'[t], DeviceContext(asked'[t]))
  BY <1>6, <1>9
<1> QED BY <1>10, <1>11 DEF Phases, Early, Late, Waiting, On, Holding, Counted

LEMMA PhasesMove ==
  ASSUME Types, Phases, NEW t \in Arrived, asked' = asked, Waiting' \subseteq Waiting \ {t},
         \A u \in Arrived \ {t} : req'[u] = req[u],
         On("ddt")' \ {t} \subseteq On("ddt"), On("pdt")' \ {t} \subseteq On("pdt"),
         t \in On("ddt")' => Early(t)', t \in On("pdt")' => Late(t)'
  PROVE  Phases'
<1>1. Waiting \subseteq Arrived /\ On("ddt") \subseteq Arrived /\ On("pdt") \subseteq Arrived
  BY OnArrived DEF Walk
<1>2. \A u \in (Waiting' \cup On("ddt")') \ {t} : req'[u] = asked'[u]
  BY <1>1 DEF Phases, Early
<1>3. \A u \in On("pdt")' \ {t} : /\ DeviceContext(asked'[u]).valid
                                /\ AfterDC(asked'[u], DeviceContext(asked'[u])).way = "need_pc"
                                /\ req'[u] = Defaulted(asked'[u], DeviceContext(asked'[u]))
  <2> SUFFICES ASSUME NEW u \in On("pdt")' \ {t}
               PROVE  Late(u) /\ req'[u] = req[u]
    BY DEF Late
  <2> QED BY <1>1 DEF Phases
<1>4. \A u \in Waiting' \cup On("ddt")' : req'[u] = asked'[u]
  BY <1>2 DEF Early
<1>5. \A u \in On("pdt")' : /\ DeviceContext(asked'[u]).valid
                          /\ AfterDC(asked'[u], DeviceContext(asked'[u])).way = "need_pc"
                          /\ req'[u] = Defaulted(asked'[u], DeviceContext(asked'[u]))
  BY <1>3 DEF Late
<1> QED BY <1>4, <1>5 DEF Phases, Early, Late, Waiting, On, Holding, Counted

LEMMA GoesOnPhases ==
  ASSUME Types, Types', Places, Phases, NEW th \in Threads, NEW t \in Arrived,
         \/ Context(t).valid /\ \E known : WithDC(th, t, known)
         \/ Asks(th, t, "ddt") /\ UNCHANGED req,
         Early(t), Held(t) = 1, thread[th].task \in {NoTask, t}, thread[th].at # "write",
         \A other \in Threads \ {th} : thread[other].task # t,
         UNCHANGED <<asked, to_xdtw, xdtw, back, finished>>, Waiting' \subseteq Waiting \ {t}
  PROVE  Phases'
<1>1. /\ thread \in [Threads -> [at : Spots, task : Arrived \cup {NoTask}, walk : Walk]]
      /\ t \in DOMAIN req /\ req[t] = asked[t] /\ t # NoTask
      /\ \A u \in Threads : thread[u].task = NoTask <=> thread[u].at = "free"
  BY ArrivedTasks DEF Types, ThreadsTyped, AskedTyped, Early, Arrived
<1>2. \A u \in Arrived \ {t} : req'[u] = req[u]
  <2>1. req' = req \/ \E r : req' = [req EXCEPT ![t] = r]
    BY WithDCCases DEF LeavesNow, LeavesWithPC, AsksForPC
  <2>2. \A u \in Arrived : u \in DOMAIN req
    BY DEF Types, AskedTyped, Arrived
  <2> QED BY <2>1, <2>2
<1>3. /\ Idle.at = "free" /\ Idle.task = NoTask /\ t # NoTask
      /\ \A v : /\ At("limit", t, v).at = "limit" /\ At("limit", t, v).task = t
               /\ At("limit", t, v).walk = v
  BY <1>1 DEF Idle, At
<1>4. ASSUME NEW v \in Walk, NEW s, thread' = [thread EXCEPT ![th] = s], s.at # "write",
             s.task = t \/ (s.at = "free" /\ s.task = NoTask)
      PROVE  On(v)' \ {t} \subseteq On(v) /\ (t \in On(v)' => s.task = t /\ s.walk = v)
  <2>1. Writing(v)' = Writing(v)
    BY <1>1, <1>4, WritingSame
  <2>2. Counted(v)' = Counted(v)
    <3>1. Answers(v)' = Answers(v) /\ Ended(v)' = Ended(v)
      BY DEF Answers, Ended
    <3> QED BY <2>1, <3>1, CountedParts
  <2>3. t \notin Counted(v)
    <3>1. t \notin Writing(v)
      BY <1>1 DEF Writing
    <3> QED BY <3>1, HeldAlone, CountedParts
  <2>4. Holding(v)' \ {t} \subseteq Holding(v) /\ (t \in Holding(v)' => s.task = t /\ s.walk = v)
    BY <1>1, <1>4 DEF Holding
  <2> QED BY <2>2, <2>3, <2>4 DEF On
<1>5. CASE LeavesNow(th, t) \/ LeavesWithPC(th, t)
  <2>1. thread' = [thread EXCEPT ![th] = Idle]
    BY <1>5 DEF LeavesNow, LeavesWithPC
  <2>2. ASSUME NEW v \in Walk PROVE On(v)' \ {t} \subseteq On(v) /\ t \notin On(v)'
    BY <1>3, <1>4, <2>1
  <2> QED BY <1>2, <2>2, PhasesMove DEF Walk
<1>6. CASE AsksForPC(th, t) /\ Context(t).valid
  <2>1. thread' = [thread EXCEPT ![th] = At("limit", t, "pdt")]
    BY <1>6 DEF AsksForPC, Asks
  <2>2. ASSUME NEW v \in Walk PROVE On(v)' \ {t} \subseteq On(v) /\ (t \in On(v)' => v = "pdt")
    <3> DEFINE s == At("limit", t, "pdt")
    <3>1. thread' = [thread EXCEPT ![th] = s] /\ s.at # "write" /\ s.task = t /\ s.walk = "pdt"
      BY <1>3, <2>1
    <3> HIDE DEF s
    <3>2. On(v)' \ {t} \subseteq On(v) /\ (t \in On(v)' => s.task = t /\ s.walk = v)
      BY <1>4, <3>1, Zenon
    <3> QED BY <3>1, <3>2
  <2>3. Late(t)'
    BY <1>1, <1>6 DEF AsksForPC, Late, Context
  <2> QED BY <1>2, <2>2, <2>3, PhasesMove DEF Walk
<1>7. CASE Asks(th, t, "ddt") /\ UNCHANGED req
  <2>1. thread' = [thread EXCEPT ![th] = At("limit", t, "ddt")]
    BY <1>7 DEF Asks
  <2>2. ASSUME NEW v \in Walk PROVE On(v)' \ {t} \subseteq On(v) /\ (t \in On(v)' => v = "ddt")
    <3> DEFINE s == At("limit", t, "ddt")
    <3>1. thread' = [thread EXCEPT ![th] = s] /\ s.at # "write" /\ s.task = t /\ s.walk = "ddt"
      BY <1>3, <2>1
    <3> HIDE DEF s
    <3>2. On(v)' \ {t} \subseteq On(v) /\ (t \in On(v)' => s.task = t /\ s.walk = v)
      BY <1>4, <3>1, Zenon
    <3> QED BY <3>1, <3>2
  <2>3. Early(t)'
    BY <1>1, <1>7 DEF Early
  <2> QED BY <1>2, <2>2, <2>3, PhasesMove DEF Walk
<1> QED BY <1>5, <1>6, <1>7, WithDCCases

\* A step that takes no task out of the entries or the threads' hands.
LEMMA QuietPhases ==
  ASSUME Types, Phases,
         UNCHANGED <<asked, req, thread, to_xdtw, xdtw, back, finished>>, Waiting' \subseteq Waiting
  PROVE  Phases'
<1>1. On("ddt")' = On("ddt") /\ On("pdt")' = On("pdt")
  BY DEF On, Holding, Counted
<1> QED BY <1>1, PhasesSame

LEMMA TakePhases ==
  ASSUME Types, Types', Places, Phases, HitsKnown, NEW t \in batch, TakeOf(t)
  PROVE  Phases'
<1>1. /\ t \in Arrived /\ Held(t) = 1 /\ t \notin Range(incoming) /\ t \notin pending
      /\ \A th \in Threads : thread[th].task # t
  BY EntryAlone DEF Types, EntriesTyped
<1>2. Early(t) /\ req[t] = asked[t]
  BY DEF Phases, Waiting, Early
<1>3. t \in hits["ddt"] => Context(t).valid
  BY <1>2 DEF HitsKnown, Sound, Key, Context, DeviceContext, Walk
<1>4. \/ Context(t).valid /\ \E known : WithDC("lookup", t, known)
      \/ Asks("lookup", t, "ddt") /\ UNCHANGED req
  BY <1>3 DEF TakeOf
<1>5. "lookup" \in Threads /\ thread["lookup"].at = "free" /\ thread["lookup"].task = NoTask
  BY DEF TakeOf, Types, ThreadsTyped, Threads
<1>6. Waiting' \subseteq Waiting \ {t} /\ UNCHANGED <<asked, to_xdtw, xdtw, back, finished>>
  BY <1>1 DEF TakeOf, Waiting
<1> QED BY <1>1, <1>2, <1>4, <1>5, <1>6, GoesOnPhases

LEMMA ResumePhases ==
  ASSUME Types, Types', Places, Phases, Found, Resume
  PROVE  Phases'
<1>. PICK t \in Arrived : t = thread["response"].task
  BY DEF Resume, Types, ThreadsTyped, Threads
<1>1. /\ "response" \in Threads /\ thread["response"].at = "update"
      /\ UNCHANGED <<asked, incoming, pending, batch, to_xdtw, xdtw, back, finished>>
      /\ thread["response"].walk \in Walk
  BY DEF Resume, Threads, entryVars, xdtwVars, Types, ThreadsTyped
<1>2. /\ Held(t) = 1 /\ t \notin Waiting
      /\ \A other \in Threads \ {"response"} : thread[other].task # t
  BY <1>1, ThreadAlone DEF Waiting
<1>3. Waiting' \subseteq Waiting \ {t}
  BY <1>1, <1>2 DEF Waiting
<1>4. CASE thread["response"].walk = "ddt"
  <2>1. t \in On("ddt")
    BY <1>1, <1>4 DEF On, Holding
  <2>2. Early(t) /\ Context(t).valid
    BY <1>1, <1>4, <2>1 DEF Phases, Found, Present, Context
  <2>3. WithDC("response", t, FALSE)
    BY <1>4 DEF Resume
  <2> QED BY <1>1, <1>2, <1>3, <2>2, <2>3, GoesOnPhases
<1>5. CASE thread["response"].walk = "pdt"
  <2>1. thread' = [thread EXCEPT !["response"] = Idle] /\ UNCHANGED req
    BY <1>5 DEF Resume
  <2>2. thread \in [Threads -> [at : Spots, task : Arrived \cup {NoTask}, walk : Walk]]
    BY DEF Types, ThreadsTyped
  <2>3. ASSUME NEW w \in Walk PROVE On(w)' \subseteq On(w)
    <3>1. Holding(w)' \subseteq Holding(w)
      BY <1>1, <2>1, <2>2 DEF Holding, Idle
    <3>2. Counted(w)' = Counted(w)
      <4>1. Writing(w)' = Writing(w)
        BY <1>1, <2>1, <2>2 DEF Writing, Idle
      <4>2. Answers(w)' = Answers(w) /\ Ended(w)' = Ended(w)
        BY <1>1 DEF Answers, Ended
      <4> QED BY <1>1, <4>1, <4>2, CountedParts
    <3> QED BY <3>1, <3>2 DEF On
  <2>4. On("ddt")' \subseteq On("ddt") /\ On("pdt")' \subseteq On("pdt")
    BY <2>3 DEF Walk
  <2>5. Waiting' \subseteq Waiting
    BY <1>3
  <2> QED BY <1>1, <2>1, <2>4, <2>5, PhasesSame
<1> QED BY <1>1, <1>4, <1>5 DEF Walk

LEMMA LimitPhases ==
  ASSUME Types, Types', Phases, NEW th \in Threads, CheckLimit(th) \/ WriteWalk(th)
  PROVE  Phases'
<1>1. UNCHANGED <<asked, req, incoming, pending, batch, xdtw, back, finished>>
  BY DEF CheckLimit, WriteWalk, entryVars, xdtwVars
<1>2. thread \in [Threads -> [at : Spots, task : Arrived \cup {NoTask}, walk : Walk]]
  BY DEF Types, ThreadsTyped
<1>3. ASSUME NEW w \in Walk PROVE On(w)' \subseteq On(w)
  <2>1. CASE WriteWalk(th)
    <3>1. Counted(w)' = Counted(w)
      BY <2>1, WriteWalkCounted
    <3>2. Holding(w)' \subseteq Holding(w)
      BY <1>2, <2>1 DEF WriteWalk, Holding, Idle
    <3> QED BY <3>1, <3>2 DEF On
  <2>2. CASE CheckLimit(th)
    <3>1. PICK s \in {"asleep", "write"} : thread' = [thread EXCEPT ![th].at = s]
      BY <2>2 DEF CheckLimit
    <3>2. thread[th].at = "limit" /\ to_xdtw' = to_xdtw
      BY <2>2 DEF CheckLimit
    <3>3. Holding(w)' = Holding(w)
      BY <1>2, <3>1, <3>2 DEF Holding
    <3>4. Writing(w)' \subseteq Writing(w) \cup Holding(w)
      BY <1>2, <3>1, <3>2 DEF Writing, Holding
    <3>5. Answers(w)' = Answers(w) /\ Ended(w)' = Ended(w)
      BY <1>1 DEF Answers, Ended
    <3>6. Counted(w)' \subseteq Counted(w) \cup Holding(w)
      BY <1>1, <3>2, <3>4, <3>5, CountedParts
    <3> QED BY <3>3, <3>6 DEF On
  <2> QED BY <2>1, <2>2
<1>4. On("ddt")' \subseteq On("ddt") /\ On("pdt")' \subseteq On("pdt")
  BY <1>3 DEF Walk
<1>5. Waiting' = Waiting
  BY <1>1 DEF Waiting
<1> QED BY <1>1, <1>4, <1>5, PhasesSame

LEMMA AnswerPhases ==
  ASSUME Types, Types', Places, Phases, Answer
  PROVE  Phases'
<1>1. PICK t \in Arrived, w \in Walk : AnswerOf(t, w)
  BY AnswerCases
<1>2. t \in Counted(w)
  BY <1>1, AnsweredNotCounted, CountedParts
<1>3. ASSUME NEW v \in Walk PROVE On(v)' \subseteq On(v)
  <2>1. Counted(v)' \subseteq Counted(v)
    BY <1>1, AnswerCounted
  <2>2. Holding(v)' \subseteq Holding(v) \cup (IF v = w THEN {t} ELSE {})
    <3>1. ASSUME NEW th \in Threads, thread'[th].at # "free", thread'[th].walk = v
          PROVE  thread'[th].task \in Holding(v) \cup (IF v = w THEN {t} ELSE {})
      <4>1. \/ thread'[th] = thread[th]
            \/ thread[th].at = "asleep" /\ thread'[th] = [thread[th] EXCEPT !.at = "limit"]
            \/ thread'[th] = At("update", t, w)
        BY <1>1 DEF AnswerOf
      <4>2. thread \in [Threads -> [at : Spots, task : Arrived \cup {NoTask}, walk : Walk]]
        BY DEF Types, ThreadsTyped
      <4> QED BY <3>1, <4>1, <4>2 DEF Holding, At
    <3> QED BY <3>1 DEF Holding
  <2> QED BY <1>2, <2>1, <2>2 DEF On
<1>4. On("ddt")' \subseteq On("ddt") /\ On("pdt")' \subseteq On("pdt")
  BY <1>3 DEF Walk
<1>5. Waiting' = Waiting /\ UNCHANGED <<asked, req>>
  BY <1>1 DEF Waiting, AnswerOf
<1> QED BY <1>4, <1>5, PhasesSame

LEMMA PhasesStep ==
  Types /\ Types' /\ Places /\ Phases /\ HitsKnown /\ Found /\ [Next]_vars => Phases'
<1> SUFFICES ASSUME Types, Types', Places, Phases, HitsKnown, Found, [Next]_vars PROVE Phases'
  OBVIOUS
<1>1. CASE UNCHANGED vars \/ \E w \in Walk : CacheThread(w)
  BY <1>1, QuietPhases DEF vars, entryVars, xdtwVars, CacheThread, Lookup, PushResponse, Fill, Waiting
<1>2. CASE Gather
  <2>1. UNCHANGED <<asked, req, thread, to_xdtw, xdtw, back, finished>>
    BY <1>2 DEF Gather, xdtwVars
  <2>2. Waiting' \subseteq Waiting
    <3>1. pending' \cup batch' = pending \cup Range(incoming) /\ incoming' = <<>>
      BY <1>2 DEF Gather, Entries
    <3>2. Range(incoming') = {}
      BY <3>1 DEF Range
    <3> QED BY <3>1, <3>2 DEF Waiting
  <2> QED BY <2>1, <2>2, QuietPhases
<1>3. CASE Take
  BY <1>3, TakeCases, TakePhases
<1>4. CASE XdtwRequest \/ XdtwResponse
  <2>1. UNCHANGED <<asked, req, incoming, pending, batch, thread>>
    BY <1>4 DEF XdtwRequest, XdtwResponse, StartWalk, EndWalk, ReturnWalk, entryVars
  <2>2. ASSUME NEW w \in Walk PROVE On(w)' = On(w)
    <3>1. Counted(w)' = Counted(w)
      BY <1>4, XdtwCounted
    <3> QED BY <2>1, <3>1 DEF On, Holding
  <2>3. On("ddt")' = On("ddt") /\ On("pdt")' = On("pdt") /\ Waiting' = Waiting
    BY <2>1, <2>2 DEF Walk, Waiting
  <2> QED BY <2>1, <2>3, PhasesSame
<1> QED BY <1>1, <1>2, <1>3, <1>4, ParsePhases, ResumePhases, LimitPhases, AnswerPhases
        DEF Next, LookupThread, ResponseThread, Threads

LEMMA FoundStep == Types /\ Types' /\ Places /\ Found /\ [Next]_vars => Found'
<1> SUFFICES ASSUME Types, Types', Places, Found, [Next]_vars,
                    thread'["response"].at = "update"
             PROVE  Present(thread'["response"].walk, req'[thread'["response"].task])
  BY DEF Found, Types, ThreadsTyped, Threads
<1> DEFINE R == thread["response"]
<1>1. /\ thread \in [Threads -> [at : Spots, task : Arrived \cup {NoTask}, walk : Walk]]
      /\ "response" \in Threads /\ "lookup" \in Threads
      /\ R.at = "update" => R.task \in Arrived /\ Present(R.walk, req[R.task])
  BY DEF Types, ThreadsTyped, Found, Threads
<1>2. ASSUME thread'["response"] = R, R.task \in Arrived => req'[R.task] = req[R.task]
      PROVE  Present(thread'["response"].walk, req'[thread'["response"].task])
  BY <1>1, <1>2
<1>3. CASE UNCHANGED <<thread, req>>
  BY <1>2, <1>3
<1>4. ASSUME NEW r \in Requests, Parse(r)
      PROVE  Present(thread'["response"].walk, req'[thread'["response"].task])
  <2>1. thread' = thread /\ req' = Append(req, r) /\ req \in Seq(Request) /\ Len(req) = Len(asked)
    BY <1>4 DEF Parse, Types, AskedTyped
  <2>2. \A t \in Arrived : req'[t] = req[t]
    BY <2>1 DEF Arrived
  <2> QED BY <1>2, <2>1, <2>2
<1>5. CASE Take
  <2>1. PICK t \in batch : TakeOf(t)
    BY <1>5, TakeCases
  <2>2. t \in Arrived /\ R.task # t
    BY <1>1, EntryAlone
  <2>3. Continues("lookup", t)
    BY <2>1 DEF TakeOf, Continues, Walk
  <2>4. thread'["response"] = R
    BY <1>1, <2>2, <2>3, GoesOn DEF Asks
  <2>5. req' = req \/ \E r : req' = [req EXCEPT ![t] = r]
    BY <2>1, WithDCCases DEF TakeOf, LeavesNow, LeavesWithPC, AsksForPC
  <2>6. \A u \in Arrived : u \in DOMAIN req
    BY DEF Types, AskedTyped, Arrived
  <2> QED BY <1>2, <2>2, <2>4, <2>5, <2>6
<1>6. ASSUME NEW th \in Threads, CheckLimit(th) \/ WriteWalk(th)
      PROVE  Present(thread'["response"].walk, req'[thread'["response"].task])
  <2>1. req' = req /\ thread[th].at # "update" /\ thread'[th].at # "update"
    BY <1>1, <1>6 DEF CheckLimit, WriteWalk, Idle
  <2>2. \A other \in Threads \ {th} : thread'[other] = thread[other]
    BY <1>1, <1>6 DEF CheckLimit, WriteWalk
  <2>3. th # "response"
    BY <2>1
  <2> QED BY <1>1, <1>2, <2>1, <2>2, <2>3
<1>7. CASE Answer
  <2>1. PICK t \in Arrived, w \in Walk : AnswerOf(t, w)
    BY <1>7, AnswerCases
  <2>2. R.at # "update" /\ req' = req
    BY <2>1 DEF AnswerOf
  <2> QED BY <2>1, <2>2 DEF AnswerOf, At
<1>8. CASE Resume
  <2>1. R.task \in Arrived /\ Continues("response", R.task)
    BY <1>1, <1>8 DEF Resume, Continues
  <2>2. \/ thread' = [thread EXCEPT !["response"] = Idle]
        \/ \E w \in Walk : thread' = [thread EXCEPT !["response"] = At("limit", R.task, w)]
    BY <1>1, <2>1, GoesOn DEF Asks
  <2>3. thread'["response"].at # "update"
    BY <1>1, <2>2 DEF Idle, At
  <2> QED BY <2>3
<1>9. CASE UNCHANGED vars \/ Gather \/ XdtwRequest \/ XdtwResponse \/ \E w \in Walk : CacheThread(w)
  BY <1>3, <1>9 DEF vars, Gather, XdtwRequest, XdtwResponse, StartWalk, EndWalk, ReturnWalk,
     CacheThread, Lookup, PushResponse, Fill
<1> QED BY <1>4, <1>5, <1>6, <1>7, <1>8, <1>9 DEF Next, LookupThread, ResponseThread, Threads

LEMMA KeysStep == Types /\ KeysKnown /\ Found /\ [Next]_vars => KeysKnown'
<1> SUFFICES ASSUME Types, KeysKnown, Found, [Next]_vars PROVE KeysKnown'
  OBVIOUS
<1>1. cached \in [Walk -> SUBSET Keys] /\ update \in [Walk -> Seq(Keys)]
  BY DEF Types, CachesTyped
<1>2. CASE UNCHANGED <<cached, update>>
  BY <1>2 DEF KeysKnown
<1>3. ASSUME NEW w \in Walk, Fill(w) PROVE KeysKnown'
  <2>1. /\ cached' = [cached EXCEPT ![w] = cached[w] \cup {Head(update[w])}]
        /\ update' = [update EXCEPT ![w] = Tail(update[w])] /\ update[w] # <<>>
    BY <1>3 DEF Fill
  <2>2. ToSet(update[w]) = {Head(update[w])} \union ToSet(Tail(update[w]))
    BY <1>1, <2>1, TailSet
  <2>3. ASSUME NEW v \in Walk
        PROVE  cached'[v] \cup Range(update'[v]) \subseteq cached[v] \cup Range(update[v])
    BY <1>1, <2>1, <2>2 DEF ToSet, Range
  <2> QED BY <2>3 DEF KeysKnown
<1>4. CASE Resume
  <2> DEFINE t == thread["response"].task
             w == thread["response"].walk
  <2>1. /\ cached' = cached /\ update' = [update EXCEPT ![w] = Append(update[w], Key(w, req[t]))]
        /\ w \in Walk /\ t \in Arrived /\ Present(w, req[t])
    BY <1>4 DEF Resume, cacheVars, Found, Types, ThreadsTyped, Threads
  <2>2. Sound(w, Key(w, req[t])) /\ Key(w, req[t]) \in Keys
    <3>1. req[t] \in Request
      BY <2>1, ArrivedTasks DEF Types
    <3>2. Sound(w, Key(w, req[t]))
      BY <2>1 DEF Sound, Key, Present, DeviceContext, ProcessContext, Walk
    <3> QED BY <3>1, <3>2 DEF Key, Keys, Request
  <2>3. ToSet(Append(update[w], Key(w, req[t]))) = ToSet(update[w]) \union {Key(w, req[t])}
    BY <1>1, <2>1, <2>2, AppendSet
  <2>4. ASSUME NEW v \in Walk, NEW k \in cached'[v] \cup Range(update'[v]) PROVE Sound(v, k)
    <3>1. CASE v = w
      <4>1. Range(update'[v]) = Range(update[v]) \cup {Key(w, req[t])}
        BY <1>1, <2>1, <2>3, <3>1, ZenonT(40) DEF ToSet, Range
      <4> QED BY <2>1, <2>2, <2>4, <3>1, <4>1 DEF KeysKnown
    <3>2. CASE v # w
      BY <1>1, <2>1, <2>4, <3>2 DEF KeysKnown
    <3> QED BY <3>1, <3>2
  <2> QED BY <2>4 DEF KeysKnown
<1>5. CASE UNCHANGED vars \/ Gather \/ Take \/ Answer \/ XdtwRequest \/ XdtwResponse
           \/ (\E r \in Requests : Parse(r)) \/ \E w \in Walk : (Lookup(w) \/ PushResponse(w))
  BY <1>2, <1>5 DEF vars, cacheVars, Gather, Take, Answer, XdtwRequest, XdtwResponse, StartWalk, EndWalk,
     ReturnWalk, Parse, Lookup, PushResponse
<1>6. ASSUME NEW th \in Threads, CheckLimit(th) \/ WriteWalk(th) PROVE KeysKnown'
  BY <1>2, <1>6 DEF CheckLimit, WriteWalk, cacheVars
<1> QED BY <1>3, <1>4, <1>5, <1>6 DEF Next, LookupThread, ResponseThread, CacheThread, Threads

LEMMA HitsStep == Types /\ KeysKnown /\ HitsKnown /\ [Next]_vars => HitsKnown'
<1> SUFFICES ASSUME Types, KeysKnown, HitsKnown, [Next]_vars PROVE HitsKnown'
  OBVIOUS
<1>1. /\ hits \in [Walk -> SUBSET Arrived] /\ response \in [Walk -> Seq(Reply)]
      /\ server \in [Walk -> [task : Arrived \cup {NoTask}, hit : BOOLEAN]]
      /\ request \in [Walk -> Seq(Arrived)]
  BY DEF Types, EntriesTyped, CachesTyped
<1>2. CASE UNCHANGED <<asked, server, response>> /\ \A w \in Walk : hits'[w] \subseteq hits[w]
  BY <1>2 DEF HitsKnown, HitSound, Arrived
<1>3. ASSUME NEW r \in Requests, Parse(r) PROVE HitsKnown'
  <2>1. /\ asked' = Append(asked, r) /\ asked \in Seq(Requests)
        /\ UNCHANGED <<hits, response, server>>
    BY <1>3 DEF Parse, entryVars, Types, AskedTyped
  <2>2. \A t \in Arrived : asked'[t] = asked[t] /\ t \in Arrived'
    BY <2>1 DEF Arrived
  <2>3. \A w \in Walk : \A m \in Range(response[w]) : m.task \in Arrived
    <3> SUFFICES ASSUME NEW w \in Walk, NEW i \in DOMAIN response[w] PROVE response[w][i].task \in Arrived
      BY DEF Range
    <3>1. response[w] \in Seq(Reply)
      BY <1>1
    <3>2. response[w][i] \in Reply
      BY <3>1
    <3> QED BY <3>2 DEF Reply
  <2> QED BY <1>1, <2>1, <2>2, <2>3 DEF HitsKnown, HitSound
<1>4. ASSUME NEW w \in Walk, Lookup(w) PROVE HitsKnown'
  <2>1. /\ request[w] # <<>> /\ UNCHANGED <<asked, hits, response>>
    BY <1>4 DEF Lookup, entryVars
  <2>2. PICK h \in MayHit(w, Head(request[w])) :
          server' = [server EXCEPT ![w] = [task |-> Head(request[w]), hit |-> h]]
    BY <1>4 DEF Lookup
  <2>3. Head(request[w]) \in Arrived
    BY <1>1, <2>1
  <2>4. h => Sound(w, Key(w, asked[Head(request[w])]))
    BY <2>2 DEF MayHit, KeysKnown
  <2> QED BY <1>1, <2>1, <2>2, <2>3, <2>4 DEF HitsKnown, HitSound, Arrived
<1>5. ASSUME NEW w \in Walk, PushResponse(w) PROVE HitsKnown'
  <2>1. /\ response' = [response EXCEPT ![w] = Append(response[w], server[w])]
        /\ server' = [server EXCEPT ![w] = [task |-> NoTask, hit |-> FALSE]]
        /\ server[w].task # NoTask /\ UNCHANGED <<asked, hits>>
    BY <1>5 DEF PushResponse, entryVars
  <2>2. server[w] \in Reply /\ HitSound(w, server[w])
    BY <1>1, <2>1 DEF Reply, HitsKnown, HitSound
  <2>3. Range(response'[w]) = Range(response[w]) \cup {server[w]}
    <3>1. ToSet(Append(response[w], server[w])) = ToSet(response[w]) \union {server[w]}
      BY <1>1, <2>2, AppendSet
    <3> QED BY <1>1, <2>1, <3>1 DEF ToSet, Range
  <2>4. ASSUME NEW v \in Walk, NEW m \in Range(response'[v]) PROVE HitSound(v, m)
    <3>1. CASE v = w
      BY <2>2, <2>3, <2>4, <3>1 DEF HitsKnown
    <3>2. CASE v # w
      BY <1>1, <2>1, <2>4, <3>2 DEF HitsKnown
    <3> QED BY <3>1, <3>2
  <2>5. \A v \in Walk : server'[v].hit => /\ server'[v].task \in Arrived
                                          /\ Sound(v, Key(v, asked[server'[v].task]))
    BY <1>1, <2>1 DEF HitsKnown
  <2> QED BY <2>1, <2>4, <2>5 DEF HitsKnown, HitSound, Arrived
<1>6. CASE Gather
  <2>1. /\ hits' = [w \in Walk |-> hits[w] \cup Recorded(w, {m \in Range(response[w]) : m.hit})]
        /\ response' = [w \in Walk |-> <<>>] /\ UNCHANGED <<asked, server>>
    BY <1>6 DEF Gather
  <2>2. \A w \in Walk : Range(response'[w]) = {}
    BY <2>1 DEF Range
  <2>3. ASSUME NEW w \in Walk, NEW t \in hits'[w] PROVE Sound(w, Key(w, asked[t]))
    <3>1. t \in hits[w] \/ \E m \in Range(response[w]) : m.hit /\ m.task = t
      BY <2>1, <2>3 DEF Recorded
    <3> QED BY <3>1 DEF HitsKnown, HitSound
  <2> QED BY <2>1, <2>2, <2>3 DEF HitsKnown, Arrived
<1>7. CASE Take
  <2>1. PICK t \in batch : TakeOf(t)
    BY <1>7, TakeCases
  <2>2. UNCHANGED <<asked, server, response>> /\ \A w \in Walk : hits'[w] \subseteq hits[w]
    BY <2>1 DEF TakeOf
  <2> QED BY <1>2, <2>2
<1>8. CASE UNCHANGED vars \/ Answer \/ Resume \/ XdtwRequest \/ XdtwResponse \/ \E w \in Walk : Fill(w)
  BY <1>2, <1>8 DEF vars, cacheVars, entryVars, Answer, Resume, XdtwRequest, XdtwResponse, StartWalk,
     EndWalk, ReturnWalk, Fill
<1>9. ASSUME NEW th \in Threads, CheckLimit(th) \/ WriteWalk(th) PROVE HitsKnown'
  BY <1>2, <1>9 DEF CheckLimit, WriteWalk, cacheVars, entryVars
<1> QED BY <1>3, <1>4, <1>5, <1>6, <1>7, <1>8, <1>9
        DEF Next, LookupThread, ResponseThread, CacheThread, Threads

\* What each way out gives is what the sequential translation gives.
LEMMA SequentialCases ==
  ASSUME NoStalePid, NEW r \in Requests
  PROVE  /\ ~DeviceContext(r).valid => Sequential(r) = Fault
         /\ DeviceContext(r).valid /\ AfterDC(r, DeviceContext(r)).way # "need_pc"
              => Sequential(r) = AfterDC(r, DeviceContext(r))
         /\ DeviceContext(r).valid /\ AfterDC(r, DeviceContext(r)).way = "need_pc"
              => LET d == Defaulted(r, DeviceContext(r)) IN
                 /\ Key("pdt", d) = Key("pdt", r)
                 /\ ~ProcessContext(Key("pdt", r)).valid => Sequential(r) = Fault
                 /\ ProcessContext(Key("pdt", r)).valid => Sequential(r) = AfterPC(d, Key("pdt", r))
  BY SameKey DEF Sequential

LEMMA SameStep ==
  ASSUME NoStalePid, Types, Types', Places, Phases, HitsKnown, Found, SameAsSequential, [Next]_vars
  PROVE  SameAsSequential'
<1>1. \A t \in Arrived : asked[t] \in Requests /\ t \in Tasks
  BY ArrivedTasks DEF Types, AskedTyped, Arrived
<1>2. ASSUME UNCHANGED <<asked, exit>> PROVE SameAsSequential'
  BY <1>2 DEF SameAsSequential
<1>3. ASSUME NEW t \in Arrived, NEW e, Leave(t, e), asked' = asked, e = Sequential(asked[t])
      PROVE  SameAsSequential'
  BY <1>1, <1>3 DEF Leave, SameAsSequential, Types, ExitsTyped, Arrived
<1>4. ASSUME NEW r \in Requests, Parse(r) PROVE SameAsSequential'
  <2> DEFINE n == Len(asked) + 1
  <2>1. /\ asked' = Append(asked, r) /\ exit' = exit /\ asked \in Seq(Requests)
        /\ Len(asked) < MaxTasks
    BY <1>4 DEF Parse, Types, AskedTyped
  <2>2. n \in Tasks /\ n \notin Arrived /\ Len(asked') = n /\ \A t \in Arrived : asked'[t] = asked[t]
    BY <2>1, Numbers DEF Tasks, Arrived
  <2>3. exit[n].way = "none"
    <3>1. Placed(n) /\ One(n, Arrived) = 0 /\ Counts(n)
      BY <2>2, TermTypes DEF Places, One
    <3>2. Gone(n) = 0
      <4>1. Held(n) \in Nat /\ Walking(n) \in Nat /\ Ending(n) \in Nat
        BY GroupTypes
      <4>2. Ending(n) = 0
        BY <3>1, <4>1 DEF Placed
      <4>3. Finished(n) \in Nat /\ Back(n) \in Nat /\ Gone(n) \in Nat
        BY <3>1 DEF Counts
      <4>4. Finished(n) + Back(n) + Gone(n) = 0
        BY <4>2 DEF Ending
      <4> QED BY <4>3, <4>4
    <3> QED BY <2>2, <3>2 DEF Gone, One, Out
  <2> QED BY <2>1, <2>2, <2>3 DEF SameAsSequential, Arrived
<1>5. CASE Take
  <2>1. PICK t \in batch : TakeOf(t)
    BY <1>5, TakeCases
  <2>2. /\ t \in Arrived /\ req[t] = asked[t] /\ asked' = asked /\ asked[t] \in Requests
        /\ t \in DOMAIN req
    BY <1>1, <2>1 DEF TakeOf, Types, EntriesTyped, AskedTyped, Arrived, Phases, Waiting, Early
  <2>3. Context(t) = DeviceContext(asked[t])
    BY <2>2 DEF Context
  <2>4. t \in hits["ddt"] => Context(t).valid
    BY <2>3 DEF HitsKnown, Sound, Key, DeviceContext, Walk
  <2>5. t \in hits["pdt"] => ProcessContext(Key("pdt", asked[t])).valid
    BY DEF HitsKnown, Sound, ProcessContext, Walk
  <2>6. CASE t \in hits["ddt"] /\ LeavesNow("lookup", t)
    <3>1. AfterDC(req[t], Context(t)) = Sequential(asked[t])
      BY <2>2, <2>3, <2>4, <2>6, SequentialCases DEF LeavesNow
    <3> QED BY <1>3, <2>2, <2>6, <3>1 DEF LeavesNow
  <2>7. CASE t \in hits["ddt"] /\ t \in hits["pdt"] /\ LeavesWithPC("lookup", t)
    <3>1. req'[t] = Defaulted(asked[t], DeviceContext(asked[t]))
      BY <2>2, <2>3, <2>7 DEF LeavesWithPC
    <3>2. AfterPC(req'[t], Key("pdt", asked[t])) = Sequential(asked[t])
      BY <2>2, <2>3, <2>4, <2>5, <2>7, <3>1, SequentialCases DEF LeavesWithPC
    <3> QED BY <1>3, <2>2, <2>7, <3>2 DEF LeavesWithPC
  <2>8. CASE exit' = exit
    BY <1>2, <2>2, <2>8
  <2>9. CASE t \in hits["ddt"] /\ WithDC("lookup", t, t \in hits["pdt"])
    <3>1. \/ LeavesNow("lookup", t)
          \/ t \in hits["pdt"] /\ LeavesWithPC("lookup", t)
          \/ AsksForPC("lookup", t)
      BY <2>9, WithDCCases
    <3> QED BY <2>6, <2>7, <2>8, <2>9, <3>1 DEF AsksForPC
  <2> QED BY <2>1, <2>8, <2>9 DEF TakeOf
<1>6. CASE Resume
  <2>. PICK t \in Arrived, w \in Walk : t = thread["response"].task /\ w = thread["response"].walk
    BY <1>6 DEF Resume, Types, ThreadsTyped, Threads
  <2>1. Present(w, req[t]) /\ t \in On(w) /\ asked' = asked /\ asked[t] \in Requests
    BY <1>1, <1>6 DEF Resume, Found, On, Holding, Threads
  <2>2. CASE w = "ddt"
    <3>1. req[t] = asked[t] /\ DeviceContext(asked[t]).valid /\ Context(t) = DeviceContext(asked[t])
      BY <2>1, <2>2 DEF Phases, Early, Present, Context
    <3>2. WithDC("response", t, FALSE)
      BY <1>6, <2>2 DEF Resume
    <3>3. CASE LeavesNow("response", t)
      <4>1. AfterDC(req[t], Context(t)) = Sequential(asked[t])
        BY <2>1, <3>1, <3>3, SequentialCases DEF LeavesNow
      <4> QED BY <1>3, <2>1, <3>3, <4>1 DEF LeavesNow
    <3>4. CASE exit' = exit
      BY <1>2, <2>1, <3>4
    <3> QED BY <3>2, <3>3, <3>4, WithDCCases DEF AsksForPC
  <2>3. CASE w = "pdt"
    <3>1. Late(t) /\ Leave(t, AfterPC(req[t], Key("pdt", req[t])))
      BY <1>6, <2>1, <2>3 DEF Phases, Resume
    <3>2. AfterPC(req[t], Key("pdt", req[t])) = Sequential(asked[t])
      BY <2>1, <2>3, <3>1, SequentialCases DEF Late, Present
    <3> QED BY <1>3, <2>1, <3>1, <3>2
  <2> QED BY <2>2, <2>3 DEF Walk
<1>7. CASE Answer
  <2>1. PICK t \in Arrived, w \in Walk : AnswerOf(t, w)
    BY <1>7, AnswerCases
  <2>2. t \in On(w) /\ asked' = asked /\ asked[t] \in Requests
    BY <1>1, <1>7, <2>1, AnsweredNotCounted, CountedParts DEF On, AnswerOf
  <2>3. CASE ~Present(w, req[t]) /\ Leave(t, Fault)
    <3>1. CASE w = "ddt"
      <4>1. ~DeviceContext(asked[t]).valid
        BY <2>2, <2>3, <3>1 DEF Phases, Early, Present
      <4> QED BY <1>3, <2>2, <2>3, <4>1, SequentialCases
    <3>2. CASE w = "pdt"
      <4>1. Late(t)
        BY <2>2, <3>2 DEF Phases
      <4>2. Sequential(asked[t]) = Fault
        BY <2>2, <2>3, <3>2, <4>1, SequentialCases DEF Late, Present
      <4> QED BY <1>3, <2>2, <2>3, <4>2
    <3> QED BY <3>1, <3>2 DEF Walk
  <2>4. CASE exit' = exit
    BY <1>2, <2>2, <2>4
  <2> QED BY <2>1, <2>3, <2>4 DEF AnswerOf
<1>8. CASE UNCHANGED vars \/ Gather \/ XdtwRequest \/ XdtwResponse \/ \E w \in Walk : CacheThread(w)
  BY <1>2, <1>8 DEF vars, Gather, XdtwRequest, XdtwResponse, StartWalk, EndWalk, ReturnWalk,
     CacheThread, Lookup, PushResponse, Fill
<1>9. ASSUME NEW th \in Threads, CheckLimit(th) \/ WriteWalk(th) PROVE SameAsSequential'
  BY <1>2, <1>9 DEF CheckLimit, WriteWalk
<1> QED BY <1>4, <1>5, <1>6, <1>7, <1>8, <1>9 DEF Next, LookupThread, ResponseThread, Threads

\* Whatever mix of hits, misses, evictions and walks it takes, and whatever the
\* directories, a task leaves by the exit, and with the context, that the sequential
\* translation gives its request, provided that a request without a process id carries
\* process id 0 where its context gives it one: the code takes the process context it
\* looked up under the process id of the request, valid or not.
THEOREM SameAsOneByOne == ASSUME NoStalePid PROVE Spec => []SameAsSequential
<1> DEFINE Inv == /\ Types /\ Places /\ Phases /\ Found /\ KeysKnown /\ HitsKnown /\ SameAsSequential
<1>1. Init => Inv
  <2> SUFFICES ASSUME Init PROVE Phases /\ Found /\ KeysKnown /\ HitsKnown /\ SameAsSequential
    BY InitTypes, InitPlaces
  <2>1. Waiting = {} /\ On("ddt") = {} /\ On("pdt") = {}
    BY DEF Init, Waiting, On, Holding, Counted, Idle, Range, Walk
  <2>2. Found /\ KeysKnown /\ HitsKnown /\ SameAsSequential
    BY DEF Init, Found, KeysKnown, HitsKnown, SameAsSequential, Idle, Range, Walk
  <2> QED BY <2>1, <2>2 DEF Phases
<1>2. Inv /\ [Next]_vars => Inv'
  BY TypesStep, PlacesStep, PhasesStep, FoundStep, KeysStep, HitsStep, SameStep
<1>3. Inv => SameAsSequential
  OBVIOUS
<1> QED BY <1>1, <1>2, <1>3, PTL DEF Spec
=============================================================================
