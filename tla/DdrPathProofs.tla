---------------------------- MODULE DdrPathProofs ----------------------------
(* Proofs about the way to memory: the counters of the port and of the DDR  *)
(* match the accesses on their way and pass no limit, every answer goes to  *)
(* the module that asked, and a read of the control path that overlaps no   *)
(* other use of it returns its own data, however many users there are.      *)
EXTENDS DdrPath, SequencesExt, FiniteSetTheorems, SequenceTheorems, TLAPS

-----------------------------------------------------------------------------
(* Lemmas about lists.                                                      *)

\* Appending adds one element at the end.
LEMMA AppendSet ==
  ASSUME NEW S, NEW s \in Seq(S), NEW e \in S
  PROVE  /\ Append(s, e) \in Seq(S)
         /\ ToSet(Append(s, e)) = ToSet(s) \union {e}
<1> DEFINE t == Append(s, e)
<1>1. /\ t \in Seq(S)
      /\ Len(t) = Len(s) + 1 /\ Len(s) \in Nat
      /\ DOMAIN s = 1 .. Len(s) /\ DOMAIN t = 1 .. (Len(s) + 1)
      /\ \A i \in 1 .. Len(s) : t[i] = s[i]
      /\ t[Len(s) + 1] = e
  OBVIOUS
<1> HIDE DEF t
<1>2. ToSet(t) = ToSet(s) \union {e}
  <2>1. ASSUME NEW i \in DOMAIN t PROVE t[i] \in ToSet(s) \union {e}
    <3>1. i \in 1 .. Len(s) \/ i = Len(s) + 1  BY <1>1
    <3> QED BY <3>1, <1>1 DEF ToSet
  <2>2. ASSUME NEW i \in DOMAIN s PROVE s[i] \in ToSet(t)
    <3>1. i \in DOMAIN t /\ t[i] = s[i]  BY <1>1
    <3> QED BY <3>1 DEF ToSet
  <2>3. e \in ToSet(t)
    <3>1. Len(s) + 1 \in DOMAIN t  BY <1>1
    <3> QED BY <3>1, <1>1 DEF ToSet
  <2> QED BY <2>1, <2>2, <2>3 DEF ToSet
<1> QED BY <1>1, <1>2 DEF t

\* A sequence over a set is one over a larger set.
LEMMA SeqMonotone ==
  ASSUME NEW S, NEW T, S \subseteq T
  PROVE  Seq(S) \subseteq Seq(T)
OBVIOUS

\* How many elements of a list are in X.
CountIn(s, X) == Cardinality({i \in DOMAIN s : s[i] \in X})

LEMMA CountType ==
  ASSUME NEW S, NEW s \in Seq(S), NEW X
  PROVE  /\ IsFiniteSet({i \in DOMAIN s : s[i] \in X})
         /\ CountIn(s, X) \in Nat /\ CountIn(s, X) <= Len(s)
<1>1. Len(s) \in Nat /\ DOMAIN s = 1 .. Len(s)  OBVIOUS
<1>2. IsFiniteSet(1 .. Len(s)) /\ Cardinality(1 .. Len(s)) = Len(s)  BY <1>1, FS_Interval
<1>3. {i \in DOMAIN s : s[i] \in X} \in SUBSET (1 .. Len(s))  BY <1>1
<1> QED BY <1>2, <1>3, FS_Subset, FS_CardinalityType DEF CountIn

LEMMA CountMonotone ==
  ASSUME NEW S, NEW s \in Seq(S), NEW X, NEW Y, X \subseteq Y
  PROVE  CountIn(s, X) <= CountIn(s, Y)
<1> DEFINE A == {i \in DOMAIN s : s[i] \in X}
           B == {i \in DOMAIN s : s[i] \in Y}
<1>1. IsFiniteSet(B)  BY CountType
<1>2. A \in SUBSET B  OBVIOUS
<1> HIDE DEF A, B
<1>3. Cardinality(A) <= Cardinality(B)  BY <1>1, <1>2, FS_Subset
<1> QED BY <1>3 DEF CountIn, A, B

LEMMA CountEmpty == \A X : CountIn(<< >>, X) = 0
BY FS_EmptySet DEF CountIn

LEMMA CountAppend ==
  ASSUME NEW S, NEW s \in Seq(S), NEW X, NEW e
  PROVE  CountIn(Append(s, e), X) = CountIn(s, X) + (IF e \in X THEN 1 ELSE 0)
<1> DEFINE t == Append(s, e)
           A == {i \in DOMAIN s : s[i] \in X}
           B == {i \in DOMAIN t : t[i] \in X}
<1>1. /\ DOMAIN s = 1 .. Len(s) /\ DOMAIN t = 1 .. (Len(s) + 1) /\ Len(s) \in Nat
      /\ \A i \in 1 .. Len(s) : t[i] = s[i]
      /\ t[Len(s) + 1] = e
  OBVIOUS
<1>2. IsFiniteSet(A) /\ Cardinality(A) \in Nat /\ CountIn(s, X) = Cardinality(A)
  BY CountType DEF CountIn
<1>3. CountIn(t, X) = Cardinality(B)  BY DEF CountIn
<1> HIDE DEF t
<1>4. CASE e \in X
  <2>1. B = A \union {Len(s) + 1} /\ Len(s) + 1 \notin A  BY <1>1, <1>4
  <2> QED BY <1>2, <1>3, <1>4, <2>1, FS_AddElement, ZenonT(40) DEF t
<1>5. CASE e \notin X
  <2>1. ASSUME NEW i \in B PROVE i \in A
    <3>1. i \in 1 .. (Len(s) + 1) /\ t[i] \in X  BY <1>1
    <3>2. i # Len(s) + 1  BY <3>1, <1>1, <1>5
    <3>3. i \in 1 .. Len(s)  BY <3>1, <3>2, <1>1
    <3> QED BY <3>1, <3>3, <1>1
  <2>2. ASSUME NEW i \in A PROVE i \in B
    <3>1. i \in 1 .. Len(s) /\ s[i] \in X  BY <1>1
    <3> QED BY <3>1, <1>1
  <2>3. B = A  BY <2>1, <2>2
  <2>4. Cardinality(B) = Cardinality(A)  BY <2>3, Zenon
  <2>5. CountIn(t, X) = CountIn(s, X)
    <3> HIDE DEF A, B
    <3> QED BY <1>2, <1>3, <2>4
  <2> QED BY <1>2, <1>5, <2>5 DEF t
<1> QED BY <1>4, <1>5

LEMMA CountTail ==
  ASSUME NEW S, NEW s \in Seq(S), s # << >>, NEW X
  PROVE  CountIn(Tail(s), X) = CountIn(s, X) - (IF Head(s) \in X THEN 1 ELSE 0)
<1> DEFINE t == Tail(s)
           A == {i \in DOMAIN s : s[i] \in X}
           B == {i \in DOMAIN t : t[i] \in X}
           f == [i \in B |-> i + 1]
<1>1. /\ DOMAIN s = 1 .. Len(s) /\ DOMAIN t = 1 .. (Len(s) - 1) /\ Len(s) \in Nat \ {0}
      /\ \A i \in 1 .. (Len(s) - 1) : t[i] = s[i + 1]
      /\ Head(s) = s[1]
  OBVIOUS
<1>2. IsFiniteSet(A) /\ Cardinality(A) \in Nat /\ CountIn(s, X) = Cardinality(A)
  BY CountType DEF CountIn
<1>3. CountIn(t, X) = Cardinality(B) /\ IsFiniteSet(B)
  <2>1. t \in Seq(S)  OBVIOUS
  <2> QED BY <2>1, CountType DEF CountIn
<1> HIDE DEF t
<1>4. f \in Bijection(B, A \ {1})
  <2>1. \A i \in B : i + 1 \in A \ {1}  BY <1>1
  <2>2. \A j \in A \ {1} : j - 1 \in B /\ f[j - 1] = j  BY <1>1
  <2>3. \A i, j \in B : f[i] = f[j] => i = j  BY <1>1
  <2>4. f \in [B -> A \ {1}]  BY <2>1
  <2>5. f \in Surjection(B, A \ {1})  BY <2>2, <2>4 DEF Surjection
  <2>6. f \in Injection(B, A \ {1})  BY <2>3, <2>4 DEF Injection, IsInjective
  <2> QED BY <2>5, <2>6 DEF Bijection
<1>5. Cardinality(B) = Cardinality(A \ {1})
  BY <1>3, <1>4, FS_Bijection DEF ExistsBijection
<1>6. 1 \in A <=> Head(s) \in X  BY <1>1
<1>7. Cardinality(A \ {1}) = Cardinality(A) - (IF 1 \in A THEN 1 ELSE 0)
  <2> HIDE DEF A
  <2>1. CASE 1 \in A
    <3>1. Cardinality(A \ {1}) = Cardinality(A) - 1  BY <1>2, <2>1, FS_RemoveElement
    <3> QED BY <3>1, <2>1
  <2>2. CASE 1 \notin A
    <3>1. A \ {1} = A  BY <2>2
    <3>2. Cardinality(A \ {1}) = Cardinality(A)  BY <3>1, Zenon
    <3> QED BY <3>2, <2>2, <1>2
  <2> QED BY <2>1, <2>2
<1>8. CountIn(t, X) = CountIn(s, X) - (IF Head(s) \in X THEN 1 ELSE 0)
  <2> HIDE DEF A, B
  <2> QED BY <1>2, <1>3, <1>5, <1>6, <1>7
<1> QED BY <1>8 DEF t

-----------------------------------------------------------------------------
(* The inductive invariant.                                                 *)

Kinds == {"read", "write"}
Everyone == Sources \cup {"ctrl"}
Users(s) == IF s = "ctrl" THEN Callers ELSE IF s = "mrif" THEN MrifWrites ELSE Walks[s]

\* The accesses of a source, and the answers a walker may get: those to its
\* own walks, each with the data of the access it answers.
Of(s) == {a \in Access : a.source = s /\ a.who \in Users(s)}
Legal == {a \in Access : a.who \in Users(a.source)}
Answers(c) == {r \in [who : Walks[c], data : Of(c)] : r.who = r.data.who}
OfKind(k) == {a \in Legal : a.kind = k}

RequestTypes ==
  /\ req \in [Everyone -> Seq(Legal)] /\ \A s \in Everyone : req[s] \in Seq(Of(s))
  /\ \A s \in Everyone : Len(req[s]) <= Depth(s)
AnswerTypes ==
  /\ rsp \in [Walkers -> Seq([who : AllWalks, data : Legal])]
  /\ \A c \in Walkers : rsp[c] \in Seq(Answers(c)) /\ Len(rsp[c]) <= RspDepth
WalkTypes == left \in [AllWalks -> Nat] /\ started \subseteq AllWalks \cup MrifWrites
ArbiterTypes ==
  /\ pending \in Seq(Legal) /\ axi \in Int /\ last \in Sources
  /\ arbiter \in {"look", "again", "wait_pending", "test_slot", "wait_slot", "pick", "bandwidth"}
DdrTypes ==
  /\ fifo \in Seq(Legal) /\ peq \in Seq(Legal) /\ inside \in [Kinds -> Nat]
  /\ reply \in Seq([data : Legal, to : Legal]) /\ Len(reply) <= 1
  /\ word \subseteq MrifWrites
ControlTypes ==
  /\ call \in [Callers -> {"idle", "wait", "woken"}] /\ calls \in [Callers -> 0..MaxCalls]
  /\ buf \in Access /\ got \in [Callers -> Access] /\ overlapped \subseteq Callers
Types == /\ RequestTypes /\ AnswerTypes /\ WalkTypes
         /\ ArbiterTypes /\ DdrTypes /\ ControlTypes

\* What is pending at the arbiter is what is inside the DDR, in its order.
Fifos ==
  /\ pending = peq \o fifo
  /\ reply # <<>> => reply[1].data = reply[1].to
  /\ dropped = {}

\* The accesses that hold a slot of the port, and those of a kind that hold a
\* place inside the DDR.
Taken == Len(pending) + Len(reply)
InReply(X) == IF reply # <<>> /\ reply[1].data \in X THEN 1 ELSE 0
Limits ==
  /\ axi = Taken - (IF arbiter = "bandwidth" THEN 1 ELSE 0)
  /\ Taken <= AXI_MASTER_1_MAX /\ (arbiter = "pick" => Taken < AXI_MASTER_1_MAX)
  /\ \A k \in Kinds : /\ inside[k] = CountIn(peq, OfKind(k)) + InReply(OfKind(k))
                      /\ inside[k] <= DdrLimit(k)

\* How many accesses of s that are in X are on their way, from the request FIFO
\* to the answer FIFO.
InAnswers(s, X) == IF s \in Walkers THEN CountIn(rsp[s], {r \in Answers(s) : r.data \in X})
                                    ELSE 0
InFlight(s, X) == CountIn(req[s], X) + CountIn(pending, X) + InReply(X) + InAnswers(s, X)

\* A walk has one access on its way as long as it has reads to be answered.
By(c, w) == {a \in Of(c) : a.who = w}
OneEach ==
  \A c \in Walkers : \A w \in Walks[c] :
    /\ InFlight(c, By(c, w)) = IF left[w] > 0 THEN 1 ELSE 0
    /\ left[w] <= Steps[w] /\ (w \notin started => left[w] = 0)

IInv == Types /\ Fifos /\ Limits /\ OneEach

-----------------------------------------------------------------------------
(* The users of the control path.                                           *)

Nth(u, n) == [source |-> "ctrl", who |-> u, n |-> n, kind |-> CallKind[u]]

\* A caller whose call overlapped no other: while it waits its own access is
\* the only one of the control path on its way and nobody else is in a call;
\* woken, it finds its own data in the buffer and nothing that could replace
\* it is on its way.
Alone(u) ==
  /\ call[u] # "idle" => Active = {u}
  /\ call[u] = "wait" => /\ InFlight("ctrl", Of("ctrl")) = 1
                         /\ InFlight("ctrl", {Nth(u, calls[u])}) = 1
  /\ call[u] = "woken" => /\ InFlight("ctrl", Of("ctrl")) = 0
                          /\ buf = Nth(u, calls[u])
  /\ call[u] = "idle" /\ calls[u] > 0 => got[u] = Nth(u, calls[u])
UserInv(u) == u \notin overlapped => Alone(u)

-----------------------------------------------------------------------------
(* Lemmas about the lists.                                                  *)

\* A FIFO in two parts: what enters the second part or leaves the first.
LEMMA TwoParts ==
  ASSUME NEW S, NEW p \in Seq(S), NEW f \in Seq(S)
  PROVE  /\ p \o f \in Seq(S) /\ Len(p \o f) = Len(p) + Len(f)
         /\ p # << >> => p \o f # << >> /\ Head(p \o f) = Head(p) /\ Tail(p \o f) = Tail(p) \o f
<1>1. p \o f \in Seq(S) /\ Len(p \o f) = Len(p) + Len(f)  OBVIOUS
<1>3. p # << >> => p \o f # << >> /\ Head(p \o f) = Head(p) /\ Tail(p \o f) = Tail(p) \o f
  OBVIOUS
<1> QED BY <1>1, <1>3

LEMMA AppendSecond ==
  \A S : \A p, f \in Seq(S) : \A a \in S : Append(p \o f, a) = p \o Append(f, a)
OBVIOUS

\* What it holds does not change when the second part gives its head to the
\* first.
LEMMA HandOver ==
  \A S : \A p, f \in Seq(S) : f # << >> => Append(p, Head(f)) \o Tail(f) = p \o f
OBVIOUS

LEMMA OneLong == \A R : \A s \in Seq(R) : s # <<>> /\ Len(s) <= 1 => Len(s) = 1
<1>1. ASSUME NEW R, NEW s \in Seq(R), s # <<>>, Len(s) <= 1 PROVE Len(s) = 1
  <2>1. PICK n \in Nat \ {0} : n = Len(s)  BY <1>1, EmptySeq
  <2> QED BY <1>1, <2>1
<1> QED BY <1>1

\* Taking the first element out by position is Tail.
LEMMA WithoutFirst ==
  ASSUME NEW S, NEW s \in Seq(S), s # << >>
  PROVE  SubSeq(s, 1, 1 - 1) \o SubSeq(s, 1 + 1, Len(s)) = Tail(s) /\ s[1] = Head(s)
OBVIOUS

\* The accesses of two sources differ, and each is one the system may send.
LEMMA Disjoint ==
  /\ \A s \in Everyone : Of(s) \subseteq Legal
  /\ \A s \in Everyone : \A a \in Legal : a \in Of(s) <=> a.source = s
  /\ \A a \in Legal : a.source \in Everyone /\ a \in Of(a.source) /\ a.kind \in Kinds
  /\ "ctrl" \notin Sources /\ "ctrl" \notin Walkers /\ "mrif" \notin Walkers
  /\ Walkers \subseteq Everyone
BY DdrAssumption DEF Of, Legal, Users, Access, Everyone, Sources, Kinds

-----------------------------------------------------------------------------
(* What a step does to the number of accesses on their way.                 *)

LEMMA FlightType ==
  ASSUME Types, NEW s \in Everyone, NEW X
  PROVE  /\ CountIn(req[s], X) \in Nat /\ CountIn(pending, X) \in Nat
         /\ InReply(X) \in 0 .. 1 /\ InAnswers(s, X) \in Nat
<1>1. req[s] \in Seq(Legal) /\ pending \in Seq(Legal)  BY DEF Types, RequestTypes, ArbiterTypes
<1>2. CountIn(req[s], X) \in Nat  BY <1>1, CountType
<1>3. CountIn(pending, X) \in Nat  BY <1>1, CountType
<1>4. InReply(X) \in 0 .. 1  BY DEF InReply
<1>5. InAnswers(s, X) \in Nat
  <2>1. CASE s \in Walkers
    <3>1. rsp[s] \in Seq(Answers(s))  BY <2>1 DEF Types, AnswerTypes
    <3>2. CountIn(rsp[s], {r \in Answers(s) : r.data \in X}) \in Nat  BY <3>1, CountType
    <3> QED BY <2>1, <3>2 DEF InAnswers
  <2>2. CASE s \notin Walkers  BY <2>2 DEF InAnswers
  <2> QED BY <2>1, <2>2
<1> QED BY <1>2, <1>3, <1>4, <1>5

\* A request that is written is on its way.
LEMMA PutMoves ==
  ASSUME Types, NEW s \in Everyone, NEW X, NEW p \in Everyone, NEW a \in Of(p),
         Put(p, a), UNCHANGED <<rsp, pending, reply>>
  PROVE  InFlight(s, X)' = InFlight(s, X) + (IF p = s /\ a \in X THEN 1 ELSE 0)
<1>1. req[s] \in Seq(Legal)  BY DEF Types, RequestTypes
<1>2. req'[s] = IF p = s THEN Append(req[s], a) ELSE req[s]  BY DEF Put, Types, RequestTypes
<1>3. CountIn(req[s], X)' = CountIn(req[s], X) + (IF p = s /\ a \in X THEN 1 ELSE 0)
  <2>1. CASE p = s
    <3>1. CountIn(Append(req[s], a), X) = CountIn(req[s], X) + (IF a \in X THEN 1 ELSE 0)
      BY <1>1, CountAppend
    <3>2. req'[s] = Append(req[s], a)  BY <1>2, <2>1
    <3>3. CountIn(req'[s], X) = CountIn(Append(req[s], a), X)  BY <3>2, Zenon
    <3> QED BY <2>1, <3>1, <3>3
  <2>2. CASE p # s  BY <1>2, <2>2, FlightType
  <2> QED BY <2>1, <2>2
<1>4. /\ CountIn(pending, X)' = CountIn(pending, X) /\ InReply(X)' = InReply(X)
      /\ InAnswers(s, X)' = InAnswers(s, X)
  BY DEF InReply, InAnswers
<1> QED BY <1>3, <1>4, FlightType DEF InFlight

\* The arbiter passes an access on, so it stays on its way.
LEMMA SendMoves ==
  ASSUME Types, NEW s \in Everyone, NEW X, X \subseteq Of(s), NEW p \in Everyone, Send(p)
  PROVE  InFlight(s, X)' = InFlight(s, X)
<1>1. req[p] # <<>>  BY DEF Send, Chosen
<1>2. PICK a : a = Head(req[p])  OBVIOUS
<1>3. /\ req[p] \in Seq(Of(p)) /\ req[s] \in Seq(Legal) /\ pending \in Seq(Legal)
      /\ a \in Of(p) /\ a \in Legal
  BY <1>1, <1>2, Disjoint DEF Types, RequestTypes, ArbiterTypes
<1>4. req'[s] = (IF s = p THEN Tail(req[s]) ELSE req[s]) /\ pending' = Append(pending, a)
  BY <1>2 DEF Send, Types, RequestTypes
<1>5. CountIn(req[s], X)' = CountIn(req[s], X) - (IF a \in X THEN 1 ELSE 0)
  <2>1. CASE p = s
    <3>1. CountIn(Tail(req[s]), X) = CountIn(req[s], X) - (IF Head(req[s]) \in X THEN 1 ELSE 0)
      BY <1>1, <1>3, <2>1, CountTail
    <3>2. req'[s] = Tail(req[s]) /\ Head(req[s]) = a  BY <1>2, <1>4, <2>1
    <3> QED BY <3>1, <3>2
  <2>2. CASE p # s
    <3>1. a \notin X  BY <1>3, <2>2, Disjoint
    <3> QED BY <3>1, <1>4, <2>2, FlightType
  <2> QED BY <2>1, <2>2
<1>6. CountIn(pending, X)' = CountIn(pending, X) + (IF a \in X THEN 1 ELSE 0)
  BY <1>3, <1>4, CountAppend
<1>7. InReply(X)' = InReply(X) /\ InAnswers(s, X)' = InAnswers(s, X)
  BY DEF InReply, InAnswers, Send
<1> QED BY <1>5, <1>6, <1>7, FlightType DEF InFlight

\* The answer that is being delivered is the access at the front of the
\* pending queue.
LEMMA RespondMoves ==
  ASSUME Types, Fifos, NEW s \in Everyone, NEW X, Respond
  PROVE  InFlight(s, X)' = InFlight(s, X)
<1>1. PICK a : a = Head(peq)  OBVIOUS
<1>2. /\ pending \in Seq(Legal) /\ peq # <<>> /\ peq \in Seq(Legal) /\ fifo \in Seq(Legal)
      /\ reply = <<>> /\ pending' = Tail(pending)
      /\ req' = req /\ rsp' = rsp
  BY DEF Respond, Types, ArbiterTypes, DdrTypes, walks, fifos
<1>3. pending # <<>> /\ Head(pending) = a
  <2>1. Head(peq) \in Legal  BY <1>2
  <2> QED BY <1>1, <1>2, <2>1, TwoParts DEF Fifos
<1>4. reply' # <<>> /\ reply'[1].data = a  BY <1>1 DEF Respond
<1>5. CountIn(pending, X)' = CountIn(pending, X) - (IF a \in X THEN 1 ELSE 0)
  BY <1>2, <1>3, CountTail
<1>6. InReply(X) = 0 /\ InReply(X)' = (IF a \in X THEN 1 ELSE 0)
  BY <1>2, <1>4 DEF InReply
<1>7. CountIn(req[s], X)' = CountIn(req[s], X) /\ InAnswers(s, X)' = InAnswers(s, X)
  BY <1>2 DEF InAnswers
<1> QED BY <1>5, <1>6, <1>7, FlightType DEF InFlight

\* An answer to a walker is on its way until the walker takes it; one to the
\* control path, or of an MRIF notice, ends with the callback.
LEMMA DeliverMoves ==
  ASSUME Types, Fifos, NEW s \in Everyone, NEW X, X \subseteq Of(s), Deliver
  PROVE  InFlight(s, X)' = InFlight(s, X)
                           - (IF s \notin Walkers /\ reply[1].data \in X THEN 1 ELSE 0)
<1>1. PICK a : a = reply[1].data  OBVIOUS
<1>2. reply # <<>> /\ a \in Legal /\ reply[1].to = a
  <2>1. reply # <<>>  BY DEF Deliver
  <2>2. reply[1] \in [data : Legal, to : Legal]
    <3>1. reply \in Seq([data : Legal, to : Legal])  BY DEF Types, DdrTypes
    <3>2. \A R : reply \in Seq(R) => reply[1] \in R  BY <2>1
    <3> QED BY <3>1, <3>2
  <2> QED BY <1>1, <2>1, <2>2 DEF Fifos
<1>3. /\ req' = req /\ pending' = pending /\ reply' = <<>>
      /\ a.source \in Walkers =>
           rsp' = [rsp EXCEPT ![a.source] = Append(@, [who |-> a.who, data |-> a])]
      /\ a.source \notin Walkers => rsp' = rsp
  BY <1>1, <1>2 DEF Deliver, walks
<1>4. InReply(X) = (IF a \in X THEN 1 ELSE 0) /\ InReply(X)' = 0
  BY <1>1, <1>2, <1>3 DEF InReply
<1>5. CountIn(req[s], X)' = CountIn(req[s], X) /\ CountIn(pending, X)' = CountIn(pending, X)
  BY <1>3
<1>6. InAnswers(s, X)' = InAnswers(s, X) + (IF s \in Walkers /\ a \in X THEN 1 ELSE 0)
  <2>1. CASE s \in Walkers /\ a.source = s
    <3> DEFINE Y == {r \in Answers(s) : r.data \in X}
               new == [who |-> a.who, data |-> a]
    <3>1. rsp[s] \in Seq(Answers(s))  BY <2>1 DEF Types, AnswerTypes
    <3>2. rsp'[s] = Append(rsp[s], new)  BY <1>3, <2>1 DEF Types, AnswerTypes
    <3>3. new \in Y <=> a \in X
      <4>1. a \in Of(s)  BY <1>2, <2>1, Disjoint
      <4>2. a.who \in Walks[s]  BY <4>1, <2>1, Disjoint DEF Of, Users
      <4>3. new \in Answers(s)  BY <4>1, <4>2 DEF Answers
      <4> QED BY <4>3
    <3> HIDE DEF new, Y
    <3>4. CountIn(Append(rsp[s], new), Y) = CountIn(rsp[s], Y) + (IF new \in Y THEN 1 ELSE 0)
      BY <3>1, CountAppend
    <3>5. CountIn(rsp'[s], Y) = CountIn(rsp[s], Y) + (IF a \in X THEN 1 ELSE 0)
      BY <3>2, <3>3, <3>4
    <3> QED BY <3>5, <2>1 DEF InAnswers, Y
  <2>2. CASE s \in Walkers /\ a.source # s
    <3>1. a \notin X  BY <1>2, <2>2, Disjoint
    <3>2. rsp'[s] = rsp[s]  BY <1>3, <2>2 DEF Types, AnswerTypes
    <3>3. InAnswers(s, X)' = InAnswers(s, X)  BY <3>2, <2>2 DEF InAnswers
    <3> QED BY <3>1, <3>3, FlightType
  <2>3. CASE s \notin Walkers  BY <2>3 DEF InAnswers
  <2> QED BY <2>1, <2>2, <2>3
<1> QED BY <1>1, <1>4, <1>5, <1>6, FlightType DEF InFlight

\* The access an answer is to; the next one takes its place.
Next1(c, w) == [source |-> c, who |-> w, n |-> Steps[w] - left[w] + 2, kind |-> "read"]
LEMMA AnswerMoves ==
  ASSUME Types, NEW c \in Walkers, NEW s \in Everyone, NEW X, X \subseteq Of(s),
         WalkAnswer(c), NEW r, r = Head(rsp[c]),
         left[r.who] # 1 => Next1(c, r.who) \in Of(c)
  PROVE  InFlight(s, X)' = InFlight(s, X)
           - (IF s = c /\ r.data \in X THEN 1 ELSE 0)
           + (IF s = c /\ left[r.who] # 1 /\ Next1(c, r.who) \in X THEN 1 ELSE 0)
<1>1. /\ rsp[c] # <<>> /\ rsp' = [rsp EXCEPT ![c] = Tail(@)]
      /\ rsp[c] \in Seq(Answers(c)) /\ r \in Answers(c)
      /\ pending' = pending /\ reply' = reply
  BY DEF WalkAnswer, Types, AnswerTypes
<1>2. CountIn(req[s], X)'
        = CountIn(req[s], X)
          + (IF s = c /\ left[r.who] # 1 /\ Next1(c, r.who) \in X THEN 1 ELSE 0)
  <2>1. CASE left[r.who] = 1
    <3>1. req' = req  BY <2>1 DEF WalkAnswer
    <3> QED BY <3>1, <2>1, FlightType
  <2>2. CASE left[r.who] # 1
    <3>1. PICK a : a = Next1(c, r.who)  OBVIOUS
    <3>2. Put(c, a)  BY <3>1, <2>2 DEF WalkAnswer, Next1
    <3>3. req'[s] = IF s = c THEN Append(req[s], a) ELSE req[s]  BY <3>2 DEF Put, Types, RequestTypes
    <3>4. CASE s = c
      <4>1. req[s] \in Seq(Legal)  BY DEF Types, RequestTypes
      <4>2. CountIn(Append(req[s], a), X) = CountIn(req[s], X) + (IF a \in X THEN 1 ELSE 0)
        BY <4>1, CountAppend
      <4> QED BY <3>1, <3>3, <3>4, <4>2, <2>2
    <3>5. CASE s # c  BY <3>3, <3>5, FlightType
    <3> QED BY <3>4, <3>5
  <2> QED BY <2>1, <2>2
<1>3. InAnswers(s, X)' = InAnswers(s, X) - (IF s = c /\ r.data \in X THEN 1 ELSE 0)
  <2>1. CASE s = c
    <3> DEFINE Y == {q \in Answers(s) : q.data \in X}
    <3>1. r \in Y <=> r.data \in X  BY <1>1, <2>1
    <3>2. rsp'[s] = Tail(rsp[s])  BY <1>1, <2>1 DEF Types, AnswerTypes
    <3> HIDE DEF Y
    <3>3. CountIn(Tail(rsp[s]), Y) = CountIn(rsp[s], Y) - (IF Head(rsp[s]) \in Y THEN 1 ELSE 0)
      BY <1>1, <2>1, CountTail
    <3>4. CountIn(rsp'[s], Y) = CountIn(rsp[s], Y) - (IF r.data \in X THEN 1 ELSE 0)
      BY <3>1, <3>2, <3>3, <2>1
    <3> QED BY <3>4, <2>1 DEF InAnswers, Y
  <2>2. CASE s # c
    <3>1. s \in Walkers => rsp'[s] = rsp[s]  BY <1>1, <2>2 DEF Types, AnswerTypes
    <3>2. InAnswers(s, X)' = InAnswers(s, X)  BY <3>1 DEF InAnswers
    <3> QED BY <3>2, <2>2, FlightType
  <2> QED BY <2>1, <2>2
<1>4. CountIn(pending, X)' = CountIn(pending, X) /\ InReply(X)' = InReply(X)
  BY <1>1 DEF InReply
<1> QED BY <1>2, <1>3, <1>4, FlightType DEF InFlight

-----------------------------------------------------------------------------
(* The steps.                                                               *)

\* An answer that a walker takes is to a read that is still owed, and the next
\* read, if there is one, is an access of the same walk.
LEMMA AnswerIsOwed ==
  ASSUME IInv, NEW c \in Walkers, rsp[c] # <<>>, NEW r, r = Head(rsp[c])
  PROVE  /\ r \in Answers(c) /\ r.who \in Walks[c] /\ r.who \in AllWalks
         /\ r.data \in By(c, r.who)
         /\ left[r.who] \in 1 .. Steps[r.who]
         /\ Next1(c, r.who) \in By(c, r.who)
<1>1. rsp[c] \in Seq(Answers(c)) /\ r \in Answers(c)  BY DEF IInv, Types, AnswerTypes
<1>2. PICK w : w = r.who  OBVIOUS
<1>3. w \in Walks[c] /\ w \in AllWalks /\ r.data \in By(c, w)
  BY <1>1, <1>2 DEF Answers, By, AllWalks
<1>4. CountIn(rsp[c], {q \in Answers(c) : q.data \in By(c, w)}) >= 1
  <2> DEFINE Y == {q \in Answers(c) : q.data \in By(c, w)}
  <2>1. r \in Y  BY <1>1, <1>3
  <2> HIDE DEF Y
  <2>2. CountIn(Tail(rsp[c]), Y) = CountIn(rsp[c], Y) - (IF r \in Y THEN 1 ELSE 0)
    BY <1>1, CountTail
  <2>3. Tail(rsp[c]) \in Seq(Answers(c))  BY <1>1
  <2>4. CountIn(Tail(rsp[c]), Y) \in Nat /\ CountIn(rsp[c], Y) \in Nat
    BY <1>1, <2>3, CountType
  <2>5. CountIn(rsp[c], Y) >= 1  BY <2>1, <2>2, <2>4
  <2> QED BY <2>5 DEF Y
<1>5. c \in Everyone  BY Disjoint
<1>6. InFlight(c, By(c, w)) >= 1
  <2>1. InAnswers(c, By(c, w)) >= 1  BY <1>4 DEF InAnswers
  <2> QED BY <1>5, <2>1, FlightType DEF InFlight, IInv
<1>7. left[w] \in Nat /\ left[w] > 0 /\ left[w] <= Steps[w]
  BY <1>3, <1>6 DEF IInv, OneEach, Types, WalkTypes
<1>8. Next1(c, w) \in By(c, w)
  <2>1. Steps[w] \in Nat  BY <1>3, DdrAssumption DEF AllWalks
  <2>2. Steps[w] - left[w] + 2 \in Nat  BY <1>7, <2>1
  <2>3. c \in Sources \cup {"ctrl"} /\ Users(c) = Walks[c]  BY Disjoint DEF Sources, Users
  <2> QED BY <1>3, <2>2, <2>3 DEF Next1, By, Of, Access
<1>9. Steps[w] \in Nat  BY <1>3, DdrAssumption DEF AllWalks
<1> QED BY <1>1, <1>2, <1>3, <1>7, <1>8, <1>9

\* The first reads, the notices and the calls are accesses of their sources.
LEMMA RequestsLegal ==
  ASSUME Types
  PROVE  /\ \A c \in Walkers : \A w \in Walks[c] :
              [source |-> c, who |-> w, n |-> 1, kind |-> "read"] \in By(c, w)
         /\ \A m \in MrifWrites :
              [source |-> "mrif", who |-> m, n |-> 1, kind |-> "write"] \in Of("mrif")
         /\ \A u \in Callers : \A n \in Nat : Nth(u, n) \in Of("ctrl")
         /\ \A u \in Callers : calls[u] + 1 \in Nat
         /\ \A c \in Walkers : \A w : By(c, w) \subseteq Of(c)
<1>1. ASSUME NEW c \in Walkers, NEW w \in Walks[c]
      PROVE  [source |-> c, who |-> w, n |-> 1, kind |-> "read"] \in By(c, w)
  BY Disjoint DEF By, Of, Access, Users, AllWalks, Sources
<1>2. ASSUME NEW m \in MrifWrites
      PROVE  [source |-> "mrif", who |-> m, n |-> 1, kind |-> "write"] \in Of("mrif")
  BY DEF Of, Access, Users, Sources
<1>3. ASSUME NEW u \in Callers, NEW n \in Nat PROVE Nth(u, n) \in Of("ctrl")
  <2>1. CallKind[u] \in {"read", "write"}  BY DdrAssumption
  <2> QED BY <2>1 DEF Nth, Of, Access, Users
<1>4. \A u \in Callers : calls[u] + 1 \in Nat
  BY DdrAssumption DEF Types, ControlTypes
<1> QED BY <1>1, <1>2, <1>3, <1>4 DEF By

\* Writing a request keeps the types of the request FIFOs.
LEMMA PutTypes ==
  ASSUME Types, NEW p \in Everyone, NEW a \in Of(p), Put(p, a)
  PROVE  RequestTypes'
<1>1. a \in Legal  BY Disjoint
<1>2. /\ req \in [Everyone -> Seq(Legal)] /\ \A s \in Everyone : req[s] \in Seq(Of(s))
      /\ \A s \in Everyone : Len(req[s]) <= Depth(s)
  BY DEF Types, RequestTypes
<1>3. req' = [req EXCEPT ![p] = Append(req[p], a)] /\ Len(req[p]) < Depth(p)  BY DEF Put
<1>4. Append(req[p], a) \in Seq(Legal) /\ Append(req[p], a) \in Seq(Of(p))
      /\ Len(Append(req[p], a)) = Len(req[p]) + 1
  BY <1>1, <1>2
<1>5. req' \in [Everyone -> Seq(Legal)]  BY <1>2, <1>3, <1>4
<1>6. ASSUME NEW s \in Everyone PROVE req'[s] \in Seq(Of(s)) /\ Len(req'[s]) <= Depth(s)
  <2>1. CASE s = p
    <3>1. req'[s] = Append(req[p], a)  BY <1>2, <1>3, <2>1
    <3>2. Depth(p) \in Nat /\ Len(req[p]) \in Nat
      BY <1>2, DdrAssumption DEF Depth
    <3> QED BY <1>3, <1>4, <2>1, <3>1, <3>2
  <2>2. CASE s # p
    <3>1. req'[s] = req[s]  BY <1>2, <1>3, <2>2
    <3> QED BY <1>2, <3>1
  <2> QED BY <2>1, <2>2
<1> QED BY <1>5, <1>6 DEF RequestTypes

\* So does taking one out.
LEMMA TakeTypes ==
  ASSUME Types, NEW p \in Everyone, req[p] # <<>>, req' = [req EXCEPT ![p] = Tail(@)]
  PROVE  RequestTypes'
<1>2. /\ req \in [Everyone -> Seq(Legal)] /\ \A s \in Everyone : req[s] \in Seq(Of(s))
      /\ \A s \in Everyone : Len(req[s]) <= Depth(s)
  BY DEF Types, RequestTypes
<1>4. Tail(req[p]) \in Seq(Legal) /\ Tail(req[p]) \in Seq(Of(p))
      /\ Len(Tail(req[p])) = Len(req[p]) - 1
  BY <1>2
<1>5. req' \in [Everyone -> Seq(Legal)]  BY <1>2, <1>4
<1>6. ASSUME NEW s \in Everyone PROVE req'[s] \in Seq(Of(s)) /\ Len(req'[s]) <= Depth(s)
  <2>1. CASE s = p
    <3>1. req'[s] = Tail(req[p])  BY <1>2, <2>1
    <3>2. Depth(p) \in Nat /\ Len(req[p]) \in Nat
      BY <1>2, DdrAssumption DEF Depth
    <3> QED BY <1>2, <1>4, <2>1, <3>1, <3>2
  <2>2. CASE s # p
    <3>1. req'[s] = req[s]  BY <1>2, <2>2
    <3> QED BY <1>2, <3>1
  <2> QED BY <2>1, <2>2
<1> QED BY <1>5, <1>6 DEF RequestTypes

\* The DDR starts the first access of its FIFO.
LEMMA DispatchFirst ==
  ASSUME Types, Dispatch
  PROVE  /\ fifo # <<>> /\ peq' = Append(peq, Head(fifo)) /\ fifo' = Tail(fifo)
         /\ inside[Head(fifo).kind] < DdrLimit(Head(fifo).kind)
         /\ inside' = [inside EXCEPT ![Head(fifo).kind] = @ + 1]
<1>1. PICK i \in DOMAIN fifo :
        /\ i = 1 /\ inside[fifo[i].kind] < DdrLimit(fifo[i].kind)
        /\ peq' = Append(peq, fifo[i])
        /\ fifo' = SubSeq(fifo, 1, i - 1) \o SubSeq(fifo, i + 1, Len(fifo))
        /\ inside' = [inside EXCEPT ![fifo[i].kind] = @ + 1]
  BY DEF Dispatch, MayDispatch
<1>2. fifo \in Seq(Legal) /\ fifo # <<>>  BY <1>1 DEF Types, DdrTypes
<1>3. SubSeq(fifo, 1, 1 - 1) \o SubSeq(fifo, 1 + 1, Len(fifo)) = Tail(fifo)
      /\ fifo[1] = Head(fifo)
  BY <1>2, WithoutFirst
<1> QED BY <1>1, <1>2, <1>3

\* An answer that is being delivered holds a place inside the DDR, and is for
\* the access whose data it carries.
LEMMA ReplyIsInside ==
  ASSUME IInv, reply # <<>>
  PROVE  \E a \in Legal : /\ a = reply[1].data /\ a = reply[1].to
                          /\ a.kind \in Kinds /\ inside[a.kind] >= 1
<1>1. reply \in Seq([data : Legal, to : Legal]) /\ peq \in Seq(Legal)
  BY DEF IInv, Types, DdrTypes
<1>2. \A R : reply \in Seq(R) => reply[1] \in R  OBVIOUS
<1>3. reply[1] \in [data : Legal, to : Legal]  BY <1>1, <1>2
<1>4. PICK a \in Legal : a = reply[1].data /\ a = reply[1].to
  BY <1>3 DEF IInv, Fifos
<1>5. PICK k \in Kinds : k = a.kind  BY Disjoint
<1>6. InReply(OfKind(k)) = 1  BY <1>4, <1>5 DEF InReply, OfKind
<1>7. CountIn(peq, OfKind(k)) \in Nat  BY <1>1, CountType
<1>8. inside[k] >= 1  BY <1>6, <1>7 DEF IInv, Limits
<1> QED BY <1>4, <1>5, <1>8

\* The types are kept.
LEMMA TypesKept ==
  ASSUME IInv, [Next]_vars
  PROVE  Types'
<1> USE DEF fifos, walks, ddr, control
<1>0. Types  BY DEF IInv
<1>1. ASSUME NEW c \in Walkers, NEW w \in Walks[c], StartWalk(c, w) PROVE Types'
  <2>1. RequestTypes'
    <3>1. [source |-> c, who |-> w, n |-> 1, kind |-> "read"] \in Of(c)
      BY <1>0, RequestsLegal
    <3> QED BY <1>0, <1>1, <3>1, Disjoint, PutTypes DEF StartWalk
  <2>2. WalkTypes'
    <3>1. w \in AllWalks /\ Steps[w] \in Nat  BY DdrAssumption DEF AllWalks
    <3> QED BY <1>0, <1>1, <3>1 DEF StartWalk, Types, WalkTypes
  <2>3. AnswerTypes' /\ ArbiterTypes' /\ DdrTypes' /\ ControlTypes'
    BY <1>0, <1>1 DEF StartWalk, Types, AnswerTypes, ArbiterTypes, DdrTypes, ControlTypes
  <2> QED BY <2>1, <2>2, <2>3 DEF Types
<1>2. ASSUME NEW c \in Walkers, WalkAnswer(c) PROVE Types'
  <2>1. PICK r : r = Head(rsp[c])  OBVIOUS
  <2>2. /\ r.who \in AllWalks /\ left[r.who] \in Nat /\ left[r.who] >= 1
        /\ Next1(c, r.who) \in Of(c)
    BY <1>0, <1>2, <2>1, AnswerIsOwed DEF WalkAnswer, By, Types, WalkTypes
  <2>3. RequestTypes'
    <3>1. CASE left[r.who] = 1
      BY <1>0, <1>2, <2>1, <3>1 DEF WalkAnswer, Types, RequestTypes
    <3>2. CASE left[r.who] # 1
      <4>1. Put(c, Next1(c, r.who))  BY <1>2, <2>1, <3>2 DEF WalkAnswer, Next1
      <4> QED BY <1>0, <2>2, <4>1, Disjoint, PutTypes
    <3> QED BY <3>1, <3>2
  <2>4. WalkTypes'
    <3>1. left' = [left EXCEPT ![r.who] = @ - 1] /\ started' = started
      BY <1>2, <2>1 DEF WalkAnswer
    <3> QED BY <1>0, <2>2, <3>1 DEF Types, WalkTypes
  <2>5. AnswerTypes'
    <3>1. \A d \in Walkers : rsp'[d] = IF d = c THEN Tail(rsp[d]) ELSE rsp[d]
      BY <1>0, <1>2 DEF WalkAnswer, Types, AnswerTypes
    <3>2. /\ Tail(rsp[c]) \in Seq(Answers(c)) /\ Tail(rsp[c]) \in Seq([who : AllWalks, data : Legal])
          /\ Len(Tail(rsp[c])) <= RspDepth
      <4>1. rsp[c] # <<>> /\ RspDepth \in Nat  BY <1>2, DdrAssumption DEF WalkAnswer
      <4>2. rsp[c] \in Seq(Answers(c)) /\ rsp[c] \in Seq([who : AllWalks, data : Legal])
            /\ Len(rsp[c]) <= RspDepth
        BY <1>0 DEF Types, AnswerTypes
      <4>3. Len(Tail(rsp[c])) = Len(rsp[c]) - 1 /\ Len(rsp[c]) \in Nat  BY <4>1, <4>2
      <4>4. Tail(rsp[c]) \in Seq(Answers(c))  BY <4>1, <4>2
      <4>5. Tail(rsp[c]) \in Seq([who : AllWalks, data : Legal])  BY <4>1, <4>2
      <4> QED BY <4>1, <4>2, <4>3, <4>4, <4>5
    <3>3. rsp' = [rsp EXCEPT ![c] = Tail(rsp[c])]  BY <1>2 DEF WalkAnswer
    <3>4. rsp' \in [Walkers -> Seq([who : AllWalks, data : Legal])]
      BY <1>0, <3>2, <3>3 DEF Types, AnswerTypes
    <3> QED BY <1>0, <3>1, <3>2, <3>4 DEF Types, AnswerTypes
  <2>6. ArbiterTypes' /\ DdrTypes' /\ ControlTypes'
    BY <1>0, <1>2 DEF WalkAnswer, Types, ArbiterTypes, DdrTypes, ControlTypes
  <2> QED BY <2>3, <2>4, <2>5, <2>6 DEF Types
<1>3. ASSUME NEW m \in MrifWrites, WriteMrif(m) PROVE Types'
  <2>1. RequestTypes'
    BY <1>0, <1>3, RequestsLegal, PutTypes DEF WriteMrif, Everyone, Sources
  <2>2. WalkTypes'  BY <1>0, <1>3 DEF WriteMrif, Types, WalkTypes
  <2>3. AnswerTypes' /\ ArbiterTypes' /\ DdrTypes' /\ ControlTypes'
    BY <1>0, <1>3 DEF WriteMrif, Types, AnswerTypes, ArbiterTypes, DdrTypes, ControlTypes
  <2> QED BY <2>1, <2>2, <2>3 DEF Types
<1>4. ASSUME NEW u \in Callers, Call(u) PROVE Types'
  <2>1. RequestTypes'
    <3>1. Nth(u, calls[u] + 1) \in Of("ctrl")  BY <1>0, RequestsLegal
    <3>2. Put("ctrl", Nth(u, calls[u] + 1))  BY <1>4 DEF Call, Nth
    <3> QED BY <1>0, <3>1, <3>2, PutTypes DEF Everyone
  <2>2. ControlTypes'
    <3>1. calls[u] + 1 \in 0 .. MaxCalls
      BY <1>0, <1>4, DdrAssumption DEF Call, Types, ControlTypes
    <3>2. overlapped' \subseteq Callers
      <4>1. Active \subseteq Callers  BY DEF Active
      <4>2. overlapped \subseteq Callers  BY <1>0 DEF Types, ControlTypes
      <4> QED BY <1>4, <4>1, <4>2 DEF Call
    <3> QED BY <1>0, <1>4, <3>1, <3>2 DEF Call, Types, ControlTypes
  <2>3. AnswerTypes' /\ ArbiterTypes' /\ DdrTypes' /\ WalkTypes'
    BY <1>0, <1>4 DEF Call, Types, AnswerTypes, ArbiterTypes, DdrTypes, WalkTypes
  <2> QED BY <2>1, <2>2, <2>3 DEF Types
<1>5. ASSUME NEW u \in Callers, Return(u) PROVE Types'
  BY <1>0, <1>5 DEF Return, Types, RequestTypes, AnswerTypes, WalkTypes, ArbiterTypes,
                    DdrTypes, ControlTypes
<1>6. ASSUME ArbiterTests PROVE Types'
  <2>1. ArbiterTypes'
    BY <1>0, <1>6 DEF ArbiterTests, TestPending, TestSlot, FindNothing, Types, ArbiterTypes
  <2>2. RequestTypes' /\ AnswerTypes' /\ WalkTypes' /\ DdrTypes' /\ ControlTypes'
    BY <1>0, <1>6 DEF ArbiterTests, TestPending, TestSlot, FindNothing, Types, RequestTypes,
                      AnswerTypes, WalkTypes, DdrTypes, ControlTypes
  <2> QED BY <2>1, <2>2 DEF Types
<1>7. ASSUME NEW s \in DOMAIN req, Send(s) PROVE Types'
  <2>1. s \in Everyone  BY <1>0 DEF Types, RequestTypes
  <2>2. req[s] # <<>>  BY <1>7 DEF Send, Chosen
  <2>3. PICK a : a = Head(req[s])  OBVIOUS
  <2>4. a \in Legal  BY <1>0, <2>1, <2>2, <2>3 DEF Types, RequestTypes
  <2>5. RequestTypes'
    BY <1>0, <1>7, <2>1, <2>2, TakeTypes DEF Send
  <2>6. ArbiterTypes'
    <3>1. pending' = Append(pending, a)  BY <1>7, <2>3 DEF Send
    <3>2. last' \in Sources
      BY <1>0, <1>7, <2>1 DEF Send, Everyone, Types, ArbiterTypes
    <3>3. pending' \in Seq(Legal)  BY <1>0, <2>4, <3>1 DEF Types, ArbiterTypes
    <3>4. axi' = axi /\ arbiter' = "bandwidth"  BY <1>7 DEF Send
    <3> QED BY <1>0, <3>2, <3>3, <3>4 DEF Types, ArbiterTypes
  <2>7. DdrTypes'
    <3>1. fifo' = Append(fifo, a) \/ fifo' = fifo  BY <1>7, <2>3 DEF Send
    <3>2. fifo \in Seq(Legal) /\ Append(fifo, a) \in Seq(Legal)
      BY <1>0, <2>4, AppendSet DEF Types, DdrTypes
    <3>3. fifo' \in Seq(Legal)  BY <3>1, <3>2
    <3> QED BY <1>0, <1>7, <3>3 DEF Send, Types, DdrTypes
  <2>8. AnswerTypes' /\ WalkTypes' /\ ControlTypes'
    BY <1>0, <1>7 DEF Send, Types, AnswerTypes, WalkTypes, ControlTypes
  <2> QED BY <2>5, <2>6, <2>7, <2>8 DEF Types
<1>8. ASSUME Count PROVE Types'
  <2>1. ArbiterTypes'  BY <1>0, <1>8 DEF Count, Types, ArbiterTypes
  <2>2. RequestTypes' /\ AnswerTypes' /\ WalkTypes' /\ DdrTypes' /\ ControlTypes'
    BY <1>0, <1>8 DEF Count, Types, RequestTypes, AnswerTypes, WalkTypes, DdrTypes,
                      ControlTypes
  <2> QED BY <2>1, <2>2 DEF Types
<1>9. ASSUME Dispatch PROVE Types'
  <2>1. /\ fifo # <<>> /\ peq' = Append(peq, Head(fifo)) /\ fifo' = Tail(fifo)
        /\ inside' = [inside EXCEPT ![Head(fifo).kind] = @ + 1]
    BY <1>0, <1>9, DispatchFirst
  <2>2. Head(fifo) \in Legal /\ Head(fifo).kind \in Kinds
    BY <1>0, <2>1, Disjoint DEF Types, DdrTypes
  <2>3. DdrTypes'
    <3>1. peq' \in Seq(Legal)  BY <1>0, <2>1, <2>2 DEF Types, DdrTypes
    <3>2. fifo' \in Seq(Legal)  BY <1>0, <2>1 DEF Types, DdrTypes
    <3>3. inside' \in [Kinds -> Nat]  BY <1>0, <2>1, <2>2 DEF Types, DdrTypes
    <3>4. reply' = reply /\ word' = word  BY <1>9 DEF Dispatch
    <3> QED BY <1>0, <3>1, <3>2, <3>3, <3>4 DEF Types, DdrTypes
  <2>4. RequestTypes' /\ AnswerTypes' /\ WalkTypes' /\ ArbiterTypes' /\ ControlTypes'
    BY <1>0, <1>9 DEF Dispatch, Types, RequestTypes, AnswerTypes, WalkTypes, ArbiterTypes,
                      ControlTypes
  <2> QED BY <2>3, <2>4 DEF Types
<1>10. ASSUME Respond PROVE Types'
  <2>1. peq # <<>> /\ pending # <<>> /\ Head(peq) \in Legal /\ Head(pending) \in Legal
    <3>1. peq # <<>> /\ peq \in Seq(Legal) /\ fifo \in Seq(Legal) /\ pending = peq \o fifo
          /\ pending \in Seq(Legal)
      BY <1>0, <1>10 DEF Respond, Types, DdrTypes, ArbiterTypes, IInv, Fifos
    <3>2. pending # <<>> /\ Head(peq) \in Legal  BY <3>1, TwoParts
    <3>3. Head(pending) \in Legal  BY <3>1, <3>2
    <3> QED BY <3>1, <3>2, <3>3
  <2>2. ArbiterTypes'
    <3>1. pending' \in Seq(Legal)  BY <1>0, <1>10, <2>1 DEF Respond, Types, ArbiterTypes
    <3> QED BY <1>0, <1>10, <3>1 DEF Respond, Types, ArbiterTypes
  <2>3. DdrTypes'
    <3>1. peq' \in Seq(Legal)  BY <1>0, <1>10, <2>1 DEF Respond, Types, DdrTypes
    <3>2. reply' = <<[data |-> Head(peq), to |-> Head(pending)]>>  BY <1>10 DEF Respond
    <3>3. [data |-> Head(peq), to |-> Head(pending)] \in [data : Legal, to : Legal]
      BY <2>1
    <3>4. reply' \in Seq([data : Legal, to : Legal]) /\ Len(reply') <= 1
      <4>1. PICK e : e = [data |-> Head(peq), to |-> Head(pending)]  OBVIOUS
      <4>2. \A R : e \in R => <<e>> \in Seq(R) /\ Len(<<e>>) = 1  OBVIOUS
      <4> QED BY <3>2, <3>3, <4>1, <4>2
    <3>5. word' \subseteq MrifWrites
      <4>1. Head(peq).source = "mrif" => Head(peq).who \in MrifWrites
        BY <2>1 DEF Legal, Users
      <4>2. word \subseteq MrifWrites  BY <1>0 DEF Types, DdrTypes
      <4> QED BY <1>10, <4>1, <4>2 DEF Respond, Stored
    <3>6. fifo' = fifo /\ inside' = inside  BY <1>10 DEF Respond
    <3> QED BY <1>0, <3>1, <3>4, <3>5, <3>6 DEF Types, DdrTypes
  <2>4. RequestTypes' /\ AnswerTypes' /\ WalkTypes' /\ ControlTypes'
    BY <1>0, <1>10 DEF Respond, Types, RequestTypes, AnswerTypes, WalkTypes, ControlTypes
  <2> QED BY <2>2, <2>3, <2>4 DEF Types
<1>11. ASSUME Deliver PROVE Types'
  <2>1. PICK a \in Legal : /\ a = reply[1].data /\ a = reply[1].to
                           /\ a.kind \in Kinds /\ inside[a.kind] >= 1
    BY <1>11, ReplyIsInside DEF Deliver
  <2>2. AnswerTypes'
    <3>1. CASE a.source \in Walkers
      <4>1. PICK c \in Walkers : c = a.source  BY <3>1
      <4>2. PICK e : e = [who |-> a.who, data |-> a]  OBVIOUS
      <4>3. e \in Answers(c) /\ e \in [who : AllWalks, data : Legal]
        <5>1. a \in Of(c)  BY <4>1, Disjoint
        <5>2. a.who \in Walks[c]  BY <4>1, <5>1, Disjoint DEF Of, Users
        <5> QED BY <4>2, <5>1, <5>2 DEF Answers, AllWalks
      <4>4. rsp' = [rsp EXCEPT ![c] = Append(rsp[c], e)] /\ Len(rsp[c]) < RspDepth
        BY <1>11, <2>1, <3>1, <4>1, <4>2 DEF Deliver
      <4>5. /\ rsp[c] \in Seq(Answers(c)) /\ rsp[c] \in Seq([who : AllWalks, data : Legal])
            /\ rsp \in [Walkers -> Seq([who : AllWalks, data : Legal])]
            /\ \A d \in Walkers : rsp[d] \in Seq(Answers(d)) /\ Len(rsp[d]) <= RspDepth
        BY <1>0 DEF Types, AnswerTypes
      <4>6. /\ Append(rsp[c], e) \in Seq(Answers(c))
            /\ Append(rsp[c], e) \in Seq([who : AllWalks, data : Legal])
            /\ Len(Append(rsp[c], e)) <= RspDepth
        <5>1. \A R : rsp[c] \in Seq(R) /\ e \in R
                => /\ Append(rsp[c], e) \in Seq(R) /\ Len(rsp[c]) \in Nat
                   /\ Len(Append(rsp[c], e)) = Len(rsp[c]) + 1
          OBVIOUS
        <5>2. Append(rsp[c], e) \in Seq(Answers(c)) /\ Len(rsp[c]) \in Nat
              /\ Len(Append(rsp[c], e)) = Len(rsp[c]) + 1
          BY <4>3, <4>5, <5>1
        <5>3. Append(rsp[c], e) \in Seq([who : AllWalks, data : Legal])
          BY <4>3, <4>5, <5>1
        <5>4. RspDepth \in Nat  BY DdrAssumption
        <5> QED BY <4>4, <5>2, <5>3, <5>4
      <4>7. rsp' \in [Walkers -> Seq([who : AllWalks, data : Legal])]
        BY <4>4, <4>5, <4>6
      <4>8. ASSUME NEW d \in Walkers
            PROVE  rsp'[d] \in Seq(Answers(d)) /\ Len(rsp'[d]) <= RspDepth
        <5>1. CASE d = c  BY <4>4, <4>5, <4>6, <5>1
        <5>2. CASE d # c
          <6>1. rsp'[d] = rsp[d]  BY <4>4, <4>5, <5>2
          <6> QED BY <4>5, <6>1
        <5> QED BY <5>1, <5>2
      <4> QED BY <4>7, <4>8 DEF AnswerTypes
    <3>2. CASE a.source \notin Walkers
      BY <1>0, <1>11, <2>1, <3>2 DEF Deliver, Types, AnswerTypes
    <3> QED BY <3>1, <3>2
  <2>3. DdrTypes'
    <3>1. inside' = [inside EXCEPT ![a.kind] = @ - 1] /\ reply' = <<>>
          /\ fifo' = fifo /\ peq' = peq /\ word' = word
      BY <1>11, <2>1 DEF Deliver
    <3>2. inside' \in [Kinds -> Nat]  BY <1>0, <2>1, <3>1 DEF Types, DdrTypes
    <3> QED BY <1>0, <3>1, <3>2 DEF Types, DdrTypes
  <2>4. ArbiterTypes'
    <3>1. axi' = axi - 1 /\ arbiter' = Woken(arbiter) /\ pending' = pending /\ last' = last
      BY <1>11 DEF Deliver, Freed
    <3> QED BY <1>0, <3>1 DEF Types, ArbiterTypes, Woken
  <2>5. ControlTypes'
    <3>1. a \in Access  BY <2>1 DEF Legal
    <3>2. /\ buf' \in {buf, a} /\ calls' = calls /\ got' = got /\ overlapped' = overlapped
          /\ call' \in {call, [u \in Callers |-> IF call[u] = "wait" THEN "woken" ELSE call[u]]}
      BY <1>11, <2>1 DEF Deliver
    <3> QED BY <1>0, <3>1, <3>2 DEF Types, ControlTypes
  <2>6. RequestTypes' /\ WalkTypes'
    BY <1>0, <1>11 DEF Deliver, Types, RequestTypes, WalkTypes
  <2> QED BY <2>2, <2>3, <2>4, <2>5, <2>6 DEF Types
<1>12. CASE UNCHANGED vars
  BY <1>0, <1>12 DEF vars, Types, RequestTypes, AnswerTypes, WalkTypes, ArbiterTypes,
                     DdrTypes, ControlTypes
<1> QED BY <1>1, <1>2, <1>3, <1>4, <1>5, <1>6, <1>7, <1>8, <1>9, <1>10, <1>11, <1>12
        DEF Next, Walk, Arbiter, Ddr

\* So are the order inside the DDR and the limits.
LEMMA LimitsKept ==
  ASSUME IInv, [Next]_vars
  PROVE  Fifos' /\ Limits'
<1> USE DEF fifos, walks, ddr, control
<1>0. /\ Types /\ Fifos /\ Limits
      /\ pending \in Seq(Legal) /\ fifo \in Seq(Legal) /\ peq \in Seq(Legal)
      /\ pending = peq \o fifo
      /\ Len(pending) \in Nat /\ Len(reply) \in Nat /\ Len(reply) <= 1
      /\ AXI_MASTER_1_MAX \in Nat /\ DdrFifo \in Nat
      /\ Taken \in Nat /\ Taken = Len(pending) + Len(reply) /\ axi \in Int
      /\ axi = Taken - (IF arbiter = "bandwidth" THEN 1 ELSE 0)
      /\ Taken <= AXI_MASTER_1_MAX /\ (arbiter = "pick" => Taken < AXI_MASTER_1_MAX)
      /\ inside \in [Kinds -> Nat]
      /\ Len(pending) = Len(peq) + Len(fifo) /\ Len(peq) \in Nat /\ Len(fifo) \in Nat
  <2>1. /\ Types /\ Fifos /\ Limits
        /\ pending \in Seq(Legal) /\ fifo \in Seq(Legal) /\ peq \in Seq(Legal)
        /\ reply \in Seq([data : Legal, to : Legal]) /\ Len(reply) <= 1
        /\ inside \in [Kinds -> Nat] /\ axi \in Int /\ pending = peq \o fifo
    BY DEF IInv, Types, ArbiterTypes, DdrTypes, Fifos
  <2>2. AXI_MASTER_1_MAX \in Nat /\ DdrFifo \in Nat  BY DdrAssumption
  <2>3. Len(pending) \in Nat /\ Len(reply) \in Nat /\ Len(peq) \in Nat /\ Len(fifo) \in Nat
    BY <2>1
  <2>4. Len(pending) = Len(peq) + Len(fifo)  BY <2>1
  <2> QED BY <2>1, <2>2, <2>3, <2>4 DEF Limits, Taken
<1>a. \A k \in Kinds : /\ inside[k] = CountIn(peq, OfKind(k)) + InReply(OfKind(k))
                       /\ inside[k] <= DdrLimit(k) /\ DdrLimit(k) \in Nat
                       /\ CountIn(peq, OfKind(k)) \in Nat /\ InReply(OfKind(k)) \in Nat
  <2>1. \A k \in Kinds : CountIn(peq, OfKind(k)) \in Nat  BY <1>0, CountType
  <2> QED BY <1>0, <2>1, DdrAssumption DEF Limits, InReply, DdrLimit
<1>1. ASSUME UNCHANGED <<pending, fifo, peq, inside, reply, dropped, axi, arbiter>>
      PROVE  Fifos' /\ Limits'
  BY <1>0, <1>1 DEF Fifos, Limits, Taken, InReply
<1>2. ASSUME ArbiterTests PROVE Fifos' /\ Limits'
  <2>1. UNCHANGED <<pending, fifo, peq, inside, reply, dropped, axi>>
    BY <1>2 DEF ArbiterTests
  <2>2. /\ arbiter # "bandwidth" /\ arbiter' # "bandwidth"
        /\ arbiter' = "pick" => axi < AXI_MASTER_1_MAX
    BY <1>0, <1>2 DEF ArbiterTests, TestPending, TestSlot, FindNothing, AtSlotLimit
  <2> QED BY <1>0, <1>a, <2>1, <2>2 DEF Fifos, Limits, Taken, InReply
<1>3. ASSUME NEW s \in DOMAIN req, Send(s) PROVE Fifos' /\ Limits'
  <2>1. PICK a : a = Head(req[s])  OBVIOUS
  <2>2. a \in Legal
    <3>1. s \in Everyone /\ req[s] # <<>> /\ req[s] \in Seq(Legal)
      BY <1>0, <1>3 DEF Types, RequestTypes, Send, Chosen
    <3> QED BY <2>1, <3>1
  <2>3. Taken < AXI_MASTER_1_MAX /\ Len(fifo) < DdrFifo
    BY <1>0, <1>3, DepthsAssumption DEF Send
  <2>4. /\ pending' = Append(pending, a) /\ fifo' = Append(fifo, a) /\ dropped' = dropped
        /\ peq' = peq /\ inside' = inside /\ reply' = reply /\ axi' = axi
        /\ arbiter = "pick" /\ arbiter' = "bandwidth"
    BY <1>3, <2>1, <2>3 DEF Send
  <2>5. Append(peq \o fifo, a) = peq \o Append(fifo, a)
    <3>1. a \in Legal /\ peq \in Seq(Legal) /\ fifo \in Seq(Legal)  BY <1>0, <2>2
    <3> QED BY <3>1, SMTT(30)
  <2>6. Fifos'  BY <1>0, <2>4, <2>5 DEF Fifos
  <2>7. Len(pending') = Len(pending) + 1  BY <1>0, <2>2, <2>4
  <2>8. Limits'
    <3>1. Taken' = Taken + 1  BY <1>0, <2>4, <2>7 DEF Taken
    <3>2. \A k \in Kinds : InReply(OfKind(k))' = InReply(OfKind(k))  BY <2>4 DEF InReply
    <3> QED BY <1>0, <1>a, <2>3, <2>4, <3>1, <3>2 DEF Limits
  <2> QED BY <2>6, <2>8
<1>4. ASSUME Count PROVE Fifos' /\ Limits'
  <2>1. /\ UNCHANGED <<pending, fifo, peq, inside, reply, dropped>>
        /\ axi' = axi + 1 /\ arbiter = "bandwidth" /\ arbiter' = "again"
    BY <1>4 DEF Count
  <2> QED BY <1>0, <1>a, <2>1 DEF Fifos, Limits, Taken, InReply
<1>5. ASSUME Dispatch PROVE Fifos' /\ Limits'
  <2>1. PICK a : a = Head(fifo)  OBVIOUS
  <2>2. /\ fifo # <<>> /\ peq' = Append(peq, a) /\ fifo' = Tail(fifo)
        /\ inside[a.kind] < DdrLimit(a.kind)
        /\ inside' = [inside EXCEPT ![a.kind] = @ + 1]
        /\ UNCHANGED <<pending, reply, dropped, axi, arbiter>>
    BY <1>0, <1>5, <2>1, DispatchFirst DEF Dispatch
  <2>3. a \in Legal /\ a.kind \in Kinds  BY <1>0, <2>1, <2>2, Disjoint
  <2>4. Fifos'
    <3>1. fifo # <<>> /\ peq \in Seq(Legal) /\ fifo \in Seq(Legal)  BY <1>0, <2>2
    <3>2. Append(peq, Head(fifo)) \o Tail(fifo) = peq \o fifo  BY <3>1, HandOver
    <3>3. peq' \o fifo' = peq \o fifo  BY <2>1, <2>2, <3>2
    <3> QED BY <1>0, <2>2, <3>3 DEF Fifos
  <2>5. ASSUME NEW k \in Kinds
        PROVE  /\ inside'[k] = CountIn(peq, OfKind(k))' + InReply(OfKind(k))'
               /\ inside'[k] <= DdrLimit(k)
    <3>1. CountIn(Append(peq, a), OfKind(k))
            = CountIn(peq, OfKind(k)) + (IF a \in OfKind(k) THEN 1 ELSE 0)
      BY <1>0, <2>3, CountAppend
    <3>2. a \in OfKind(k) <=> a.kind = k  BY <2>3 DEF OfKind
    <3>3. inside'[k] = inside[k] + (IF a.kind = k THEN 1 ELSE 0) /\ inside[k] \in Nat
      <4>1. PICK j \in Kinds : j = a.kind  BY <2>3
      <4>2. inside' = [inside EXCEPT ![j] = @ + 1]  BY <2>2, <4>1
      <4>3. inside \in [Kinds -> Nat]  BY <1>0
      <4> QED BY <4>1, <4>2, <4>3
    <3>4. InReply(OfKind(k))' = InReply(OfKind(k))  BY <2>2 DEF InReply
    <3>5. CountIn(peq, OfKind(k))' = CountIn(Append(peq, a), OfKind(k))  BY <2>2
    <3>6. inside'[k] = CountIn(peq, OfKind(k))' + InReply(OfKind(k))'
      <4>1. inside[k] = CountIn(peq, OfKind(k)) + InReply(OfKind(k))  BY <1>a
      <4>2. CountIn(peq, OfKind(k)) \in Nat /\ InReply(OfKind(k)) \in Nat  BY <1>a
      <4> QED BY <3>1, <3>2, <3>3, <3>4, <3>5, <4>1, <4>2
    <3>7. inside'[k] <= DdrLimit(k)
      <4>1. inside[k] <= DdrLimit(k) /\ DdrLimit(k) \in Nat  BY <1>a
      <4> QED BY <2>2, <3>3, <4>1
    <3> QED BY <3>6, <3>7
  <2>6. Limits'
    <3>1. Taken' = Taken  BY <2>2 DEF Taken
    <3> QED BY <1>0, <2>2, <2>5, <3>1 DEF Limits
  <2> QED BY <2>4, <2>6
<1>6. ASSUME Respond PROVE Fifos' /\ Limits'
  <2>1. PICK a : a = Head(peq)  OBVIOUS
  <2>2. /\ peq # <<>> /\ peq' = Tail(peq) /\ pending' = Tail(pending) /\ reply = <<>>
        /\ UNCHANGED <<fifo, inside, dropped, axi, arbiter>>
        /\ reply' = <<[data |-> a, to |-> Head(pending)]>>
    BY <1>6, <2>1 DEF Respond
  <2>3. a \in Legal  BY <1>0, <2>1, <2>2
  <2>4. pending # <<>> /\ Head(pending) = a /\ Tail(pending) = Tail(peq) \o fifo
    BY <1>0, <2>1, <2>2, <2>3, TwoParts, ZenonT(40)
  <2>5. reply' # <<>> /\ reply'[1].data = a /\ reply'[1].to = a /\ Len(reply') = 1
    BY <2>2, <2>4
  <2>6. Fifos'  BY <1>0, <2>2, <2>4, <2>5 DEF Fifos
  <2>7. ASSUME NEW k \in Kinds
        PROVE  inside'[k] = CountIn(peq, OfKind(k))' + InReply(OfKind(k))'
    <3>1. CountIn(Tail(peq), OfKind(k))
            = CountIn(peq, OfKind(k)) - (IF a \in OfKind(k) THEN 1 ELSE 0)
      BY <1>0, <2>1, <2>2, CountTail
    <3>2. InReply(OfKind(k)) = 0  BY <2>2 DEF InReply
    <3>3. InReply(OfKind(k))' = (IF a \in OfKind(k) THEN 1 ELSE 0)  BY <2>5 DEF InReply
    <3>4. CountIn(peq, OfKind(k))' = CountIn(Tail(peq), OfKind(k))  BY <2>2
    <3>5. inside'[k] = inside[k]  BY <2>2
    <3> QED BY <1>a, <3>1, <3>2, <3>3, <3>4, <3>5
  <2>8. Limits'
    <3>1. Len(pending') = Len(pending) - 1  BY <1>0, <2>2, <2>4
    <3>2. Taken' = Taken  BY <1>0, <2>2, <2>5, <3>1 DEF Taken
    <3> QED BY <1>0, <1>a, <2>2, <2>7, <3>2 DEF Limits
  <2> QED BY <2>6, <2>8
<1>7. ASSUME Deliver PROVE Fifos' /\ Limits'
  <2>1. PICK a \in Legal : /\ a = reply[1].data /\ a = reply[1].to
                           /\ a.kind \in Kinds /\ inside[a.kind] >= 1
    BY <1>7, ReplyIsInside DEF Deliver
  <2>2. /\ reply # <<>> /\ reply' = <<>> /\ axi' = axi - 1 /\ arbiter' = Woken(arbiter)
        /\ inside' = [inside EXCEPT ![a.kind] = @ - 1]
        /\ UNCHANGED <<pending, fifo, peq, dropped>>
    BY <1>7, <2>1 DEF Deliver, Freed
  <2>3. Fifos'  BY <1>0, <2>2 DEF Fifos
  <2>4. ASSUME NEW k \in Kinds
        PROVE  /\ inside'[k] = CountIn(peq, OfKind(k))' + InReply(OfKind(k))'
               /\ inside'[k] <= DdrLimit(k)
    <3>1. InReply(OfKind(k)) = (IF a.kind = k THEN 1 ELSE 0)
      BY <2>1, <2>2 DEF InReply, OfKind
    <3>2. InReply(OfKind(k))' = 0  BY <2>2 DEF InReply
    <3>3. inside'[k] = inside[k] - (IF a.kind = k THEN 1 ELSE 0)
      <4>1. PICK j \in Kinds : j = a.kind  BY <2>1
      <4>2. inside' = [inside EXCEPT ![j] = @ - 1]  BY <2>2, <4>1
      <4>3. inside \in [Kinds -> Nat]  BY <1>0
      <4> QED BY <4>1, <4>2, <4>3
    <3>4. CountIn(peq, OfKind(k))' = CountIn(peq, OfKind(k))  BY <2>2
    <3>5. inside[k] \in Nat  BY <1>0
    <3> QED BY <1>a, <3>1, <3>2, <3>3, <3>4, <3>5
  <2>5. Limits'
    <3>1. reply \in Seq([data : Legal, to : Legal])  BY <1>0 DEF Types, DdrTypes
    <3>2. Len(reply) = 1 /\ Len(reply') = 0
      <4>1. Len(reply) = 1  BY <1>0, <2>2, <3>1, OneLong, Zenon
      <4>2. Len(reply') = Len(<<>>)  BY <2>2, Zenon
      <4>3. Len(<<>>) = 0  OBVIOUS
      <4> QED BY <4>1, <4>2, <4>3, Zenon
    <3>3. Taken' = Taken - 1  BY <1>0, <2>2, <3>2 DEF Taken
    <3>4. arbiter' = "bandwidth" <=> arbiter = "bandwidth"
      BY <1>0, <2>2 DEF Woken, Types, ArbiterTypes
    <3> QED BY <1>0, <2>2, <2>4, <3>3, <3>4 DEF Limits
  <2> QED BY <2>3, <2>5
<1>8. ASSUME NEW c \in Walkers, NEW w \in Walks[c], StartWalk(c, w) PROVE Fifos' /\ Limits'
  BY <1>1, <1>8 DEF StartWalk
<1>9. ASSUME NEW c \in Walkers, WalkAnswer(c) PROVE Fifos' /\ Limits'
  BY <1>1, <1>9 DEF WalkAnswer
<1>10. ASSUME NEW m \in MrifWrites, WriteMrif(m) PROVE Fifos' /\ Limits'
  BY <1>1, <1>10 DEF WriteMrif
<1>11. ASSUME NEW u \in Callers, Call(u) \/ Return(u) PROVE Fifos' /\ Limits'
  BY <1>1, <1>11 DEF Call, Return
<1>12. CASE UNCHANGED vars  BY <1>1, <1>12 DEF vars
<1> QED BY <1>2, <1>3, <1>4, <1>5, <1>6, <1>7, <1>8, <1>9, <1>10, <1>11, <1>12
        DEF Next, Walk, Arbiter, Ddr

\* And so is the one access of each walk.
LEMMA OneEachKept ==
  ASSUME IInv, [Next]_vars
  PROVE  OneEach'
<1> USE DEF fifos, walks, ddr, control
<1> SUFFICES ASSUME NEW c \in Walkers, NEW w \in Walks[c]
             PROVE  /\ InFlight(c, By(c, w))' = IF left'[w] > 0 THEN 1 ELSE 0
                    /\ left'[w] <= Steps[w] /\ (w \notin started' => left'[w] = 0)
  BY DEF OneEach
<1>0. /\ Types /\ Fifos
      /\ InFlight(c, By(c, w)) = IF left[w] > 0 THEN 1 ELSE 0
      /\ left[w] <= Steps[w] /\ (w \notin started => left[w] = 0)
      /\ By(c, w) \subseteq Of(c) /\ c \in Everyone /\ "mrif" # c /\ "ctrl" # c
      /\ w \in AllWalks /\ left \in [AllWalks -> Nat] /\ Steps[w] \in Nat \ {0}
  <2>1. w \in AllWalks  BY DEF AllWalks
  <2>2. Steps[w] \in Nat \ {0}  BY <2>1, DdrAssumption DEF AllWalks
  <2> QED BY <2>1, <2>2, Disjoint DEF IInv, OneEach, By, Types, WalkTypes
<1>1. ASSUME UNCHANGED <<req, pending, reply, rsp, left, started>>
      PROVE  /\ InFlight(c, By(c, w))' = IF left'[w] > 0 THEN 1 ELSE 0
             /\ left'[w] <= Steps[w] /\ (w \notin started' => left'[w] = 0)
  BY <1>0, <1>1 DEF InFlight, InReply, InAnswers
<1> DEFINE Goal == /\ InFlight(c, By(c, w))' = IF left'[w] > 0 THEN 1 ELSE 0
                   /\ left'[w] <= Steps[w] /\ (w \notin started' => left'[w] = 0)
<1>2. ASSUME NEW d \in Walkers, NEW v \in Walks[d], StartWalk(d, v) PROVE Goal
  <2>1. PICK a \in By(d, v) : Put(d, a)
    BY <1>0, <1>2, RequestsLegal DEF StartWalk
  <2>2. a \in Of(d) /\ d \in Everyone  BY <2>1, Disjoint DEF By
  <2>3. InFlight(c, By(c, w))'
          = InFlight(c, By(c, w)) + (IF d = c /\ a \in By(c, w) THEN 1 ELSE 0)
    BY <1>0, <1>2, <2>1, <2>2, PutMoves DEF StartWalk
  <2>4. /\ started' = started \cup {v} /\ left' = [left EXCEPT ![v] = Steps[v]]
        /\ v \notin started
    BY <1>2 DEF StartWalk
  <2>5. CASE w = v
    <3>1. d = c  BY <2>5, DdrAssumption
    <3>2. a \in By(c, w)  BY <2>1, <2>5, <3>1
    <3>3. left[w] = 0 /\ left'[w] = Steps[w]  BY <1>0, <2>4, <2>5
    <3> QED BY <1>0, <2>3, <2>4, <2>5, <3>1, <3>2, <3>3
  <2>6. CASE w # v
    <3>1. ~ (d = c /\ a \in By(c, w))  BY <2>1, <2>6 DEF By
    <3>2. left'[w] = left[w] /\ (w \in started' <=> w \in started)  BY <1>0, <2>4, <2>6
    <3>3. InFlight(c, By(c, w)) + 0 = InFlight(c, By(c, w))  BY <1>0
    <3> QED BY <1>0, <2>3, <3>1, <3>2, <3>3
  <2> QED BY <2>5, <2>6
<1>3. ASSUME NEW d \in Walkers, WalkAnswer(d) PROVE Goal
  <2>1. PICK r : r = Head(rsp[d])  OBVIOUS
  <2>2. PICK v : v = r.who  OBVIOUS
  <2>3. /\ r \in Answers(d) /\ v \in Walks[d] /\ v \in AllWalks /\ r.data \in By(d, v)
        /\ left[v] \in 1 .. Steps[v] /\ Next1(d, v) \in By(d, v)
    BY <1>3, <2>1, <2>2, AnswerIsOwed DEF WalkAnswer
  <2>4. InFlight(c, By(c, w))' = InFlight(c, By(c, w))
           - (IF c = d /\ r.data \in By(c, w) THEN 1 ELSE 0)
           + (IF c = d /\ left[v] # 1 /\ Next1(d, v) \in By(c, w) THEN 1 ELSE 0)
    <3>1. Next1(d, v) \in Of(d)  BY <2>3 DEF By
    <3> QED BY <1>0, <1>3, <2>1, <2>2, <3>1, AnswerMoves
  <2>5. left' = [left EXCEPT ![v] = @ - 1] /\ started' = started
    BY <1>3, <2>1, <2>2 DEF WalkAnswer
  <2>6. CASE w = v
    <3>1. d = c  BY <2>3, <2>6, DdrAssumption
    <3>2. left'[w] = left[w] - 1 /\ left[w] \in Nat /\ left[w] >= 1  BY <1>0, <2>3, <2>5, <2>6
    <3>3. InFlight(c, By(c, w)) = 1  BY <1>0, <3>2
    <3>4. InFlight(c, By(c, w))' = (IF left[w] # 1 THEN 1 ELSE 0)
      BY <2>3, <2>4, <2>6, <3>1, <3>3
    <3> QED BY <1>0, <2>5, <3>2, <3>4
  <2>7. CASE w # v
    <3>1. ~ (c = d /\ r.data \in By(c, w)) /\ ~ (c = d /\ Next1(d, v) \in By(c, w))
      BY <2>3, <2>7 DEF By
    <3>2. left'[w] = left[w]  BY <1>0, <2>5, <2>7
    <3>3. InFlight(c, By(c, w)) \in Nat  BY <1>0
    <3>4. InFlight(c, By(c, w))' = InFlight(c, By(c, w))  BY <2>4, <3>1, <3>3
    <3> QED BY <1>0, <2>5, <3>2, <3>4
  <2> QED BY <2>6, <2>7
<1>4. ASSUME NEW m \in MrifWrites, WriteMrif(m) PROVE Goal
  <2>1. PICK a \in Of("mrif") : Put("mrif", a)  BY <1>0, <1>4, RequestsLegal DEF WriteMrif
  <2>2. InFlight(c, By(c, w))' = InFlight(c, By(c, w)) + 0
    BY <1>0, <1>4, <2>1, PutMoves DEF WriteMrif, Everyone, Sources
  <2>3. left' = left /\ started \subseteq started'  BY <1>4 DEF WriteMrif
  <2> QED BY <1>0, <2>2, <2>3
<1>5. ASSUME NEW u \in Callers, Call(u) PROVE Goal
  <2>1. PICK a \in Of("ctrl") : Put("ctrl", a)
    <3>1. Nth(u, calls[u] + 1) \in Of("ctrl")  BY <1>0, RequestsLegal
    <3> QED BY <1>5, <3>1 DEF Call, Nth
  <2>2. InFlight(c, By(c, w))' = InFlight(c, By(c, w)) + 0
    BY <1>0, <1>5, <2>1, PutMoves DEF Call, Everyone
  <2>3. left' = left /\ started' = started  BY <1>5 DEF Call
  <2> QED BY <1>0, <2>2, <2>3
<1>6. ASSUME NEW s \in DOMAIN req, Send(s) PROVE Goal
  <2>1. s \in Everyone  BY <1>0 DEF Types, RequestTypes
  <2>2. InFlight(c, By(c, w))' = InFlight(c, By(c, w))  BY <1>0, <1>6, <2>1, SendMoves
  <2>3. left' = left /\ started' = started  BY <1>6 DEF Send
  <2> QED BY <1>0, <2>2, <2>3
<1>7. ASSUME Respond PROVE Goal
  <2>1. InFlight(c, By(c, w))' = InFlight(c, By(c, w))  BY <1>0, <1>7, RespondMoves
  <2>2. left' = left /\ started' = started  BY <1>7 DEF Respond
  <2> QED BY <1>0, <2>1, <2>2
<1>8. ASSUME Deliver PROVE Goal
  <2>1. InFlight(c, By(c, w))' = InFlight(c, By(c, w)) - 0  BY <1>0, <1>8, DeliverMoves
  <2>2. left' = left /\ started' = started  BY <1>8 DEF Deliver
  <2> QED BY <1>0, <2>1, <2>2
<1>9. ASSUME ArbiterTests \/ Count \/ Dispatch \/ (\E u \in Callers : Return(u)) \/ UNCHANGED vars
      PROVE  Goal
  <2>1. UNCHANGED <<req, pending, reply, rsp, left, started>>
    BY <1>9 DEF ArbiterTests, Count, Dispatch, Return, vars
  <2> QED BY <1>1, <2>1
<1> QED BY <1>2, <1>3, <1>4, <1>5, <1>6, <1>7, <1>8, <1>9 DEF Next, Walk, Arbiter, Ddr

LEMMA InitIInv == Init => IInv
<1> SUFFICES ASSUME Init PROVE IInv  OBVIOUS
<1>1. \A S : << >> \in Seq(S)  OBVIOUS
<1>2. Len(<< >>) = 0  OBVIOUS
<1>3. Types
  <2>1. RequestTypes
    <3>1. req = [s \in Everyone |-> << >>]  BY DEF Init, Everyone
    <3>2. ASSUME NEW s \in Everyone PROVE Depth(s) \in Nat  BY DdrAssumption DEF Depth
    <3>3. req \in [Everyone -> Seq(Legal)]  BY <1>1, <3>1
    <3>4. ASSUME NEW s \in Everyone PROVE req[s] \in Seq(Of(s)) /\ Len(req[s]) <= Depth(s)
      <4>1. req[s] = << >>  BY <3>1
      <4> QED BY <1>1, <1>2, <3>2, <4>1
    <3> QED BY <3>3, <3>4 DEF RequestTypes
  <2>2. AnswerTypes
    <3>1. rsp = [c \in Walkers |-> << >>] /\ RspDepth \in Nat  BY DdrAssumption DEF Init
    <3>2. rsp \in [Walkers -> Seq([who : AllWalks, data : Legal])]  BY <1>1, <3>1
    <3>3. ASSUME NEW c \in Walkers PROVE rsp[c] \in Seq(Answers(c)) /\ Len(rsp[c]) <= RspDepth
      <4>1. rsp[c] = << >>  BY <3>1
      <4> QED BY <1>1, <1>2, <3>1, <4>1
    <3> QED BY <3>2, <3>3 DEF AnswerTypes
  <2>3. WalkTypes  BY DEF Init, WalkTypes
  <2>4. ArbiterTypes  BY <1>1 DEF Init, ArbiterTypes, Sources
  <2>5. DdrTypes  BY <1>1, <1>2 DEF Init, DdrTypes, Kinds
  <2>6. ControlTypes
    <3>1. Nothing \in Access  BY DdrAssumption DEF Nothing, Access
    <3> QED BY <3>1, DdrAssumption DEF Init, ControlTypes
  <2> QED BY <2>1, <2>2, <2>3, <2>4, <2>5, <2>6 DEF Types
<1>4. Fifos
  <2>1. << >> \o << >> = << >>  BY EmptySeq, ConcatEmptySeq
  <2> QED BY <2>1 DEF Init, Fifos
<1>5. Limits
  <2>1. pending = << >> /\ reply = << >> /\ peq = << >> /\ axi = 0 /\ arbiter = "look"
        /\ inside = [k \in Kinds |-> 0]
    BY DEF Init, Kinds
  <2>2. \A X : CountIn(peq, X) = 0 /\ InReply(X) = 0  BY <2>1, CountEmpty DEF InReply
  <2>3. Taken = 0  BY <1>2, <2>1 DEF Taken
  <2>4. AXI_MASTER_1_MAX \in Nat /\ \A k \in Kinds : DdrLimit(k) \in Nat
    BY DdrAssumption DEF DdrLimit
  <2> QED BY <2>1, <2>2, <2>3, <2>4 DEF Limits
<1>6. OneEach
  <2> SUFFICES ASSUME NEW c \in Walkers, NEW w \in Walks[c]
               PROVE  /\ InFlight(c, By(c, w)) = 0 /\ left[w] = 0 /\ Steps[w] \in Nat
    BY DEF OneEach
  <2>1. InFlight(c, By(c, w)) = 0
    <3>1. req[c] = << >> /\ rsp[c] = << >> /\ pending = << >> /\ reply = << >>
      BY DEF Init, Sources
    <3>2. InReply(By(c, w)) = 0  BY <3>1 DEF InReply
    <3>3. \A X : CountIn(req[c], X) = 0 /\ CountIn(rsp[c], X) = 0 /\ CountIn(pending, X) = 0
      BY <3>1, CountEmpty
    <3>4. InAnswers(c, By(c, w)) = 0  BY <3>3 DEF InAnswers
    <3> QED BY <3>2, <3>3, <3>4 DEF InFlight
  <2>2. w \in AllWalks  BY DEF AllWalks
  <2>3. Steps[w] \in Nat  BY <2>2, DdrAssumption DEF AllWalks
  <2> QED BY <2>1, <2>2, <2>3 DEF Init
<1> QED BY <1>3, <1>4, <1>5, <1>6 DEF IInv

LEMMA IInvAlways == Spec => []IInv
<1>1. IInv /\ [Next]_vars => IInv'
  BY TypesKept, LimitsKept, OneEachKept DEF IInv
<1> QED BY InitIInv, <1>1, PTL DEF Spec

-----------------------------------------------------------------------------
(* The theorems.                                                            *)

\* The two counters of the DDR module are stated with the positions of a list.
LEMMA CountByPosition ==
  ASSUME Types, NEW k \in Kinds
  PROVE  /\ Cardinality({i \in DOMAIN peq : peq[i].kind = k}) = CountIn(peq, OfKind(k))
         /\ Cardinality({i \in DOMAIN reply : reply[i].data.kind = k}) = InReply(OfKind(k))
<1>1. /\ peq \in Seq(Legal) /\ reply \in Seq([data : Legal, to : Legal]) /\ Len(reply) <= 1
  BY DEF Types, DdrTypes
<1>2. {i \in DOMAIN peq : peq[i].kind = k} = {i \in DOMAIN peq : peq[i] \in OfKind(k)}
  <2>1. \A i \in DOMAIN peq : peq[i] \in Legal  BY <1>1, ElementOfSeq
  <2> QED BY <2>1 DEF OfKind
<1>3. Cardinality({i \in DOMAIN reply : reply[i].data.kind = k}) = InReply(OfKind(k))
  <2> DEFINE R == {i \in DOMAIN reply : reply[i].data.kind = k}
  <2>1. CASE reply = << >>
    <3>1. R = {}  BY <2>1
    <3>2. Cardinality(R) = 0  BY <3>1, FS_EmptySet, Zenon
    <3> QED BY <2>1, <3>2 DEF InReply
  <2>2. CASE reply # << >>
    <3>1. Len(reply) = 1  BY <1>1, <2>2, OneLong, Zenon
    <3>2. DOMAIN reply = {1}
      <4>1. DOMAIN reply = 1 .. Len(reply)  BY <1>1, LenProperties
      <4>2. DOMAIN reply = 1 .. 1  BY <3>1, <4>1, Zenon
      <4>3. 1 .. 1 = {1}  OBVIOUS
      <4> QED BY <4>2, <4>3
    <3>3. reply[1] \in [data : Legal, to : Legal]
      <4>1. 1 \in 1 .. Len(reply)  BY <3>1
      <4> QED BY <1>1, <4>1, ElementOfSeq
    <3>4. CASE reply[1].data.kind = k
      <4>1. R = {1}  BY <3>2, <3>4
      <4>2. Cardinality(R) = 1  BY <4>1, FS_Singleton, Zenon
      <4>3. reply[1].data \in OfKind(k)  BY <3>3, <3>4 DEF OfKind
      <4> QED BY <2>2, <4>2, <4>3 DEF InReply
    <3>5. CASE reply[1].data.kind # k
      <4>1. R = {}  BY <3>2, <3>5
      <4>2. Cardinality(R) = 0  BY <4>1, FS_EmptySet, Zenon
      <4>3. reply[1].data \notin OfKind(k)  BY <3>5 DEF OfKind
      <4> QED BY <2>2, <4>2, <4>3 DEF InReply
    <3> QED BY <3>4, <3>5
  <2> QED BY <2>1, <2>2
<1> QED BY <1>2, <1>3, Zenon DEF CountIn

\* The counters of the port (axi_master_1_to_cmn_rnd_outstanding, raised after
\* the bandwidth delay by ddr_arbiter_thread, lowered by ddr_nb_transport_bw)
\* and of the DDR module equal the accesses on their way, and no FIFO, list or
\* counter passes its limit, for any number of walks, callers and accesses.
THEOREM CountersRight == Spec => []CountersMatch
<1>1. IInv => CountersMatch
  <2> SUFFICES ASSUME IInv PROVE CountersMatch  OBVIOUS
  <2>1. Types /\ Fifos /\ Limits  BY DEF IInv
  <2>2. TypeOK
    <3>1. /\ req \in [Everyone -> Seq(Legal)] /\ \A s \in Everyone : Len(req[s]) <= Depth(s)
      BY <2>1 DEF Types, RequestTypes
    <3>2. Legal \subseteq Access  BY DEF Legal
    <3>3. \A s \in DOMAIN req : req[s] \in Seq(Access) /\ Len(req[s]) <= Depth(s)
      <4>1. Seq(Legal) \subseteq Seq(Access)  BY <3>2, SeqMonotone
      <4> QED BY <3>1, <4>1
    <3>4. /\ pending \in Seq(Access) /\ fifo \in Seq(Access) /\ peq \in Seq(Access)
      <4>1. Seq(Legal) \subseteq Seq(Access)  BY <3>2, SeqMonotone
      <4> QED BY <2>1, <4>1 DEF Types, ArbiterTypes, DdrTypes
    <3>5. \A c \in Walkers : Len(rsp[c]) <= RspDepth  BY <2>1 DEF Types, AnswerTypes
    <3>6. Len(pending) \in Nat /\ Len(reply) \in Nat /\ Len(reply) <= 1
      BY <2>1, LenProperties DEF Types, ArbiterTypes, DdrTypes
    <3>7. Len(pending) <= DDR_MAX_OUTSTANDING /\ axi \in -1 .. AXI_MASTER_1_MAX
      <4>1. AXI_MASTER_1_MAX \in Nat /\ DDR_MAX_OUTSTANDING \in Nat
            /\ AXI_MASTER_1_MAX <= DDR_MAX_OUTSTANDING
        BY DdrAssumption, DepthsAssumption
      <4>2. /\ Len(pending) + Len(reply) <= AXI_MASTER_1_MAX
            /\ axi = Len(pending) + Len(reply) - (IF arbiter = "bandwidth" THEN 1 ELSE 0)
        BY <2>1 DEF Limits, Taken
      <4> QED BY <3>6, <4>1, <4>2
    <3>8. \A k \in DOMAIN inside : inside[k] \in 0 .. DdrLimit(k)
      BY <2>1, DdrAssumption DEF Types, DdrTypes, Limits, DdrLimit
    <3>9. /\ left \in [AllWalks -> Nat] /\ started \subseteq AllWalks \cup MrifWrites
          /\ arbiter \in {"look", "again", "wait_pending", "test_slot", "wait_slot", "pick",
                          "bandwidth"}
          /\ last \in Sources /\ word \subseteq MrifWrites
          /\ dropped \subseteq Access
          /\ call \in [Callers -> {"idle", "wait", "woken"}]
          /\ calls \in [Callers -> 0..MaxCalls]
          /\ buf \in Access /\ got \in [Callers -> Access] /\ overlapped \subseteq Callers
      BY <2>1 DEF Types, WalkTypes, ArbiterTypes, DdrTypes, ControlTypes, Fifos
    <3> QED BY <3>3, <3>4, <3>5, <3>6, <3>7, <3>8, <3>9 DEF TypeOK
  <2>3. \A k \in DOMAIN inside :
          inside[k] = Cardinality({i \in DOMAIN peq : peq[i].kind = k})
                      + Cardinality({i \in DOMAIN reply : reply[i].data.kind = k})
    <3>1. DOMAIN inside = Kinds  BY <2>1 DEF Types, DdrTypes
    <3>2. \A k \in Kinds : inside[k] = CountIn(peq, OfKind(k)) + InReply(OfKind(k))
      BY <2>1 DEF Limits
    <3> QED BY <2>1, <3>1, <3>2, CountByPosition
  <2> QED BY <2>1, <2>2, <2>3 DEF CountersMatch, Limits, Taken
<1> QED BY IInvAlways, <1>1, PTL

\* The callback hands every answer to the module that asked although it takes
\* the front of ddr_pending_queue on trust: the queue is at every moment what
\* is inside the DDR, in its order, and nothing is dropped on the way in.
THEOREM AnswersReachTheirOwner == Spec => []RightOwner
<1>1. IInv => RightOwner
  <2> SUFFICES ASSUME IInv PROVE RightOwner  OBVIOUS
  <2>1. Types /\ Fifos  BY DEF IInv
  <2>2. ASSUME NEW c \in Walkers, NEW i \in DOMAIN rsp[c]
        PROVE  rsp[c][i].data.who = rsp[c][i].who
    <3>1. rsp[c] \in Seq(Answers(c))  BY <2>1 DEF Types, AnswerTypes
    <3>2. i \in 1 .. Len(rsp[c])  BY <3>1, LenProperties
    <3>3. rsp[c][i] \in Answers(c)  BY <3>1, <3>2, ElementOfSeq
    <3> QED BY <3>3 DEF Answers
  <2> QED BY <2>1, <2>2 DEF Fifos, RightOwner
<1> QED BY IInvAlways, <1>1, PTL

-----------------------------------------------------------------------------
(* The users of the control path.                                           *)

\* When the path is not in use, none of its accesses is on its way.
LEMMA PathFree ==
  ASSUME Types, Fifos, ~CtrlBusy, NEW X, X \subseteq Of("ctrl")
  PROVE  InFlight("ctrl", X) = 0
<1>1. \A a \in X : a.source = "ctrl"  BY DEF Of
<1>2. /\ req["ctrl"] = <<>>
      /\ \A i \in DOMAIN pending : pending[i].source # "ctrl"
      /\ reply # <<>> => reply[1].to.source # "ctrl"
  BY DEF CtrlBusy
<1>3. CountIn(req["ctrl"], X) = 0  BY <1>2, CountEmpty
<1>4. CountIn(pending, X) = 0
  <2>1. {i \in DOMAIN pending : pending[i] \in X} = {}  BY <1>1, <1>2
  <2> QED BY <2>1, FS_EmptySet, Zenon DEF CountIn
<1>5. InReply(X) = 0  BY <1>1, <1>2 DEF InReply, Fifos
<1>6. InAnswers("ctrl", X) = 0  BY Disjoint DEF InAnswers
<1> QED BY <1>3, <1>4, <1>5, <1>6 DEF InFlight

\* A caller stays alone, or joins the overlapped ones, whatever step is made.
LEMMA UserKept ==
  ASSUME NEW u \in Callers, IInv, UserInv(u), [Next]_vars
  PROVE  UserInv(u)'
<1> USE DEF fifos, walks, ddr, control
<1> DEFINE All == Of("ctrl")
           Only(n) == {Nth(u, n)}
<1>0. /\ Types /\ Fifos /\ "ctrl" \in Everyone /\ "ctrl" \notin Walkers
      /\ All \subseteq Of("ctrl") /\ \A n \in Nat : Only(n) \subseteq All
      /\ calls[u] \in Nat /\ call[u] \in {"idle", "wait", "woken"}
      /\ call \in [Callers -> {"idle", "wait", "woken"}]
      /\ calls \in [Callers -> 0 .. MaxCalls] /\ got \in [Callers -> Access]
  <2>1. Types /\ Fifos  BY DEF IInv
  <2>2. \A n \in Nat : Only(n) \subseteq Of("ctrl")  BY <2>1, RequestsLegal
  <2>3. calls[u] \in Nat  BY <2>1, DdrAssumption DEF Types, ControlTypes
  <2> QED BY <2>1, <2>2, <2>3, Disjoint DEF Everyone, Types, ControlTypes
<1>a. /\ u \notin overlapped /\ call[u] # "idle" => Active = {u}
      /\ u \notin overlapped /\ call[u] = "wait" =>
           InFlight("ctrl", All) = 1 /\ InFlight("ctrl", Only(calls[u])) = 1
      /\ u \notin overlapped /\ call[u] = "woken" =>
           InFlight("ctrl", All) = 0 /\ buf = Nth(u, calls[u])
      /\ u \notin overlapped /\ call[u] = "idle" /\ calls[u] > 0 => got[u] = Nth(u, calls[u])
  BY DEF UserInv, Alone
<1> HIDE DEF All, Only
\* Steps that move the accesses of the control path but do not end them.
<1>1. ASSUME /\ InFlight("ctrl", All)' = InFlight("ctrl", All)
             /\ InFlight("ctrl", Only(calls[u]))' = InFlight("ctrl", Only(calls[u]))
             /\ UNCHANGED <<call, calls, buf, got, overlapped>>
      PROVE  UserInv(u)'
  BY <1>a, <1>1 DEF UserInv, Alone, Active, Nth, All, Only
\* Steps of others that leave the call of u, which is over, alone.
<1>b. ASSUME call[u] = "idle", call'[u] = "idle", UNCHANGED <<calls>>, got'[u] = got[u],
             u \notin overlapped' => u \notin overlapped
      PROVE  UserInv(u)'
  BY <1>a, <1>b DEF UserInv, Alone, Nth
<1>2. ASSUME NEW p \in Everyone, p # "ctrl", NEW a \in Of(p), Put(p, a),
             UNCHANGED <<rsp, pending, reply>>, NEW X
      PROVE  InFlight("ctrl", X)' = InFlight("ctrl", X)
  <2>1. InFlight("ctrl", X)' = InFlight("ctrl", X) + 0  BY <1>0, <1>2, PutMoves
  <2>2. InFlight("ctrl", X) \in Nat  BY <1>0, FlightType DEF InFlight
  <2> QED BY <2>1, <2>2
<1>n. ASSUME UNCHANGED <<calls>>,
             \A X : X \subseteq Of("ctrl") => InFlight("ctrl", X)' = InFlight("ctrl", X)
      PROVE  /\ InFlight("ctrl", All)' = InFlight("ctrl", All)
             /\ InFlight("ctrl", Only(calls[u]))' = InFlight("ctrl", Only(calls[u]))
  <2>1. Only(calls[u]) \subseteq Of("ctrl")  BY <1>0 DEF All
  <2>2. Only(calls[u])' = Only(calls[u])  BY <1>n DEF Only, Nth
  <2>3. All' = All  BY DEF All
  <2> QED BY <1>0, <1>n, <2>1, <2>2, <2>3
<1>3. ASSUME NEW c \in Walkers, NEW w \in Walks[c], StartWalk(c, w) PROVE UserInv(u)'
  <2>1. PICK a \in Of(c) : Put(c, a)
    BY <1>0, <1>3, RequestsLegal DEF StartWalk, By
  <2>2. c \in Everyone /\ c # "ctrl"  BY Disjoint
  <2>3. \A X : InFlight("ctrl", X)' = InFlight("ctrl", X)
    BY <1>2, <1>3, <2>1, <2>2 DEF StartWalk
  <2>4. UNCHANGED <<call, calls, buf, got, overlapped>>  BY <1>3 DEF StartWalk
  <2> QED BY <1>1, <1>n, <2>3, <2>4
<1>4. ASSUME NEW c \in Walkers, WalkAnswer(c) PROVE UserInv(u)'
  <2>1. PICK r : r = Head(rsp[c])  OBVIOUS
  <2>2. Next1(c, r.who) \in Of(c)
    BY <1>4, <2>1, AnswerIsOwed DEF WalkAnswer, By
  <2>3. c \in Everyone /\ c # "ctrl"  BY Disjoint
  <2>4. ASSUME NEW X, X \subseteq Of("ctrl")
        PROVE  InFlight("ctrl", X)' = InFlight("ctrl", X)
    <3>1. InFlight("ctrl", X)' = InFlight("ctrl", X) - 0 + 0
      BY <1>0, <1>4, <2>1, <2>2, <2>3, <2>4, AnswerMoves
    <3>2. InFlight("ctrl", X) \in Nat  BY <1>0, FlightType DEF InFlight
    <3> QED BY <3>1, <3>2
  <2>5. UNCHANGED <<call, calls, buf, got, overlapped>>  BY <1>4 DEF WalkAnswer
  <2> QED BY <1>1, <1>n, <2>4, <2>5
<1>5. ASSUME NEW m \in MrifWrites, WriteMrif(m) PROVE UserInv(u)'
  <2>1. PICK a \in Of("mrif") : Put("mrif", a)  BY <1>0, <1>5, RequestsLegal DEF WriteMrif
  <2>2. "mrif" \in Everyone  BY DEF Everyone, Sources
  <2>3. \A X : InFlight("ctrl", X)' = InFlight("ctrl", X)
    BY <1>2, <1>5, <2>1, <2>2 DEF WriteMrif
  <2>4. UNCHANGED <<call, calls, buf, got, overlapped>>  BY <1>5 DEF WriteMrif
  <2> QED BY <1>1, <1>n, <2>3, <2>4
<1>6. ASSUME Call(u) PROVE UserInv(u)'
  <2>1. PICK k \in Nat : k = calls[u] + 1  BY <1>0
  <2>2. PICK a \in Of("ctrl") : a = Nth(u, k)  BY <1>0, RequestsLegal
  <2>3. Put("ctrl", a)  BY <1>6, <2>1, <2>2 DEF Call, Nth
  <2>4. /\ UNCHANGED <<rsp, pending, reply>>
        /\ call' = [call EXCEPT ![u] = "wait"] /\ calls'[u] = k
        /\ overlapped' = IF CtrlBusy THEN overlapped \cup Active \cup {u}
                                     ELSE overlapped \ {u}
    BY <1>0, <1>6, <2>1 DEF Call
  <2>5. \A X : InFlight("ctrl", X)' = InFlight("ctrl", X) + (IF a \in X THEN 1 ELSE 0)
    BY <1>0, <2>3, <2>4, PutMoves
  <2>6. CASE CtrlBusy
    <3>1. u \in overlapped'  BY <2>4, <2>6
    <3> QED BY <3>1 DEF UserInv
  <2>7. CASE ~CtrlBusy
    <3>1. Active' = {u}
      <4>1. \A v \in Callers : call[v] = "idle"  BY <2>7 DEF CtrlBusy, Active
      <4>2. \A v \in Callers : call'[v] = IF v = u THEN "wait" ELSE call[v]
        BY <1>0, <2>4
      <4> QED BY <4>1, <4>2 DEF Active
    <3>2. InFlight("ctrl", All)' = 1
      <4>1. InFlight("ctrl", All) = 0  BY <1>0, <2>7, PathFree
      <4> QED BY <2>2, <2>5, <4>1 DEF All
    <3>3. InFlight("ctrl", Only(k))' = 1
      <4>1. InFlight("ctrl", Only(k)) = 0  BY <1>0, <2>7, PathFree DEF All
      <4>2. a \in Only(k)  BY <2>2 DEF Only
      <4> QED BY <2>5, <4>1, <4>2
    <3>4. call'[u] = "wait"  BY <1>0, <2>4
    <3> QED BY <2>4, <3>1, <3>2, <3>3, <3>4 DEF UserInv, Alone, All, Only, Nth
  <2> QED BY <2>6, <2>7
<1>7. ASSUME NEW v \in Callers, v # u, Call(v) PROVE UserInv(u)'
  <2>1. /\ call' = [call EXCEPT ![v] = "wait"] /\ calls' = [calls EXCEPT ![v] = @ + 1]
        /\ got' = got
        /\ overlapped' = IF CtrlBusy THEN overlapped \cup Active \cup {v}
                                     ELSE overlapped \ {v}
    BY <1>7 DEF Call
  <2>2. CASE u \in overlapped'  BY <2>2 DEF UserInv
  <2>3. CASE u \notin overlapped'
    <3>1. u \notin overlapped /\ u \notin Active
      BY <1>7, <2>1, <2>3 DEF CtrlBusy
    <3>2. call[u] = "idle"  BY <3>1 DEF Active
    <3>3. call'[u] = "idle" /\ calls'[u] = calls[u] /\ got'[u] = got[u]
      BY <1>0, <1>7, <2>1, <3>2
    <3> QED BY <1>a, <3>1, <3>2, <3>3 DEF UserInv, Alone, Nth
  <2> QED BY <2>2, <2>3
<1>8. ASSUME Return(u) PROVE UserInv(u)'
  <2>1. /\ UNCHANGED <<calls, overlapped>>
        /\ call[u] = "woken" /\ call'[u] = "idle" /\ got'[u] = buf
    BY <1>0, <1>8 DEF Return
  <2> QED BY <1>a, <2>1 DEF UserInv, Alone, Nth
<1>9. ASSUME NEW v \in Callers, v # u, Return(v) PROVE UserInv(u)'
  <2>1. /\ UNCHANGED <<calls, overlapped>> /\ call[v] = "woken"
        /\ call'[u] = call[u] /\ got'[u] = got[u]
    BY <1>0, <1>9 DEF Return
  <2>2. CASE u \in overlapped  BY <2>1, <2>2 DEF UserInv
  <2>3. CASE u \notin overlapped
    <3>1. v \in Active  BY <2>1 DEF Active
    <3>2. call[u] = "idle"  BY <1>9, <1>a, <2>3, <3>1
    <3> QED BY <1>b, <2>1, <3>2
  <2> QED BY <2>2, <2>3
<1>10. ASSUME NEW s \in DOMAIN req, Send(s) PROVE UserInv(u)'
  <2>1. s \in Everyone  BY <1>0 DEF Types, RequestTypes
  <2>2. \A X : X \subseteq Of("ctrl") => InFlight("ctrl", X)' = InFlight("ctrl", X)
    BY <1>0, <1>10, <2>1, SendMoves
  <2>3. UNCHANGED <<call, calls, buf, got, overlapped>>  BY <1>10 DEF Send
  <2> QED BY <1>1, <1>n, <2>2, <2>3
<1>11. ASSUME Respond PROVE UserInv(u)'
  <2>1. \A X : InFlight("ctrl", X)' = InFlight("ctrl", X)  BY <1>0, <1>11, RespondMoves
  <2>2. UNCHANGED <<call, calls, buf, got, overlapped>>  BY <1>11 DEF Respond
  <2> QED BY <1>1, <1>n, <2>1, <2>2
<1>12. ASSUME Deliver PROVE UserInv(u)'
  <2>1. PICK a \in Legal : a = reply[1].data /\ a = reply[1].to
    BY <1>12, ReplyIsInside DEF Deliver
  <2>2. \A X : X \subseteq Of("ctrl") =>
          InFlight("ctrl", X)' = InFlight("ctrl", X) - (IF a \in X THEN 1 ELSE 0)
    BY <1>0, <1>12, <2>1, DeliverMoves
  <2>3. UNCHANGED <<calls, got, overlapped>> /\ reply # << >>  BY <1>12 DEF Deliver
  <2>4. CASE a.source # "ctrl"
    <3>1. a \notin Of("ctrl")  BY <2>4 DEF Of
    <3>2. call' = call /\ buf' = buf  BY <1>12, <2>1, <2>4 DEF Deliver, ToControl
    <3>3. ASSUME NEW X, X \subseteq Of("ctrl")
          PROVE  InFlight("ctrl", X)' = InFlight("ctrl", X)
      <4>1. a \notin X  BY <3>1, <3>3
      <4>2. InFlight("ctrl", X) \in Nat  BY <1>0, FlightType DEF InFlight
      <4> QED BY <2>2, <3>3, <4>1, <4>2
    <3> QED BY <1>1, <1>n, <2>3, <3>2, <3>3
  <2>5. CASE a.source = "ctrl"
    <3>1. a \in All  BY <1>0, <2>5, Disjoint DEF All
    <3>2. /\ buf' = a
          /\ call' = [v \in Callers |-> IF call[v] = "wait" THEN "woken" ELSE call[v]]
      BY <1>12, <2>1, <2>5 DEF Deliver, ToControl
    <3>3. InReply(All) = 1  BY <2>1, <2>3, <3>1 DEF InReply
    <3>4. InFlight("ctrl", All) >= 1  BY <1>0, <3>3, FlightType DEF InFlight
    <3>5. CASE u \in overlapped  BY <2>3, <3>5 DEF UserInv
    <3>6. CASE u \notin overlapped /\ call[u] = "idle"
      <4>1. call'[u] = "idle"  BY <3>2, <3>6
      <4> QED BY <1>b, <2>3, <3>6, <4>1
    <3>7. CASE u \notin overlapped /\ call[u] = "woken"
      BY <1>a, <3>4, <3>7
    <3>8. CASE u \notin overlapped /\ call[u] = "wait"
      <4>1. PICK k \in Nat : k = calls[u]  BY <1>0
      <4>2. InFlight("ctrl", All) = 1 /\ InFlight("ctrl", Only(k)) = 1
        BY <1>a, <3>8, <4>1
      <4>3. a = Nth(u, k)
        <5> SUFFICES ASSUME a # Nth(u, k) PROVE FALSE  OBVIOUS
        <5>1. InReply(Only(k)) = 0  BY <2>1 DEF InReply, Only
        <5>2. req["ctrl"] \in Seq(Legal) /\ pending \in Seq(Legal)
          BY <1>0 DEF Types, RequestTypes, ArbiterTypes
        <5>3. Only(k) \subseteq All  BY <1>0
        <5>4. CountIn(req["ctrl"], Only(k)) <= CountIn(req["ctrl"], All)
          BY <5>2, <5>3, CountMonotone
        <5>5. CountIn(pending, Only(k)) <= CountIn(pending, All)
          BY <5>2, <5>3, CountMonotone
        <5>6. \A X : InAnswers("ctrl", X) = 0  BY <1>0 DEF InAnswers
        <5>7. CountIn(req["ctrl"], All) + CountIn(pending, All) + 1 = 1
          BY <3>3, <4>2, <5>6, <1>0, FlightType DEF InFlight
        <5>8. CountIn(req["ctrl"], Only(k)) + CountIn(pending, Only(k)) = 1
          BY <4>2, <5>1, <5>6, <1>0, FlightType DEF InFlight
        <5> QED BY <5>4, <5>5, <5>7, <5>8, <1>0, FlightType
      <4>4. call'[u] = "woken" /\ buf' = Nth(u, k) /\ calls'[u] = k
        BY <2>3, <3>2, <3>8, <4>1, <4>3
      <4>5. InFlight("ctrl", All)' = 0
        <5>1. All' = All  BY DEF All
        <5> QED BY <1>0, <2>2, <3>1, <4>2, <5>1
      <4>6. Active' = {u}
        <5>1. Active = {u}  BY <1>a, <3>8
        <5>2. \A v \in Callers : call'[v] # "idle" <=> call[v] # "idle"  BY <3>2
        <5> QED BY <5>1, <5>2 DEF Active
      <4> QED BY <4>4, <4>5, <4>6 DEF UserInv, Alone, All, Nth
    <3> QED BY <1>0, <3>5, <3>6, <3>7, <3>8
  <2> QED BY <2>4, <2>5
<1>13. ASSUME ArbiterTests \/ Count \/ Dispatch \/ UNCHANGED vars PROVE UserInv(u)'
  <2>1. UNCHANGED <<req, rsp, pending, reply, call, calls, buf, got, overlapped>>
    BY <1>13 DEF ArbiterTests, Count, Dispatch, vars
  <2>2. \A X : InFlight("ctrl", X)' = InFlight("ctrl", X)
    BY <2>1 DEF InFlight, InReply, InAnswers
  <2> QED BY <1>1, <1>n, <2>1, <2>2
<1> QED BY <1>3, <1>4, <1>5, <1>6, <1>7, <1>8, <1>9, <1>10, <1>11, <1>12, <1>13
        DEF Next, Walk, Arbiter, Ddr

\* With any number of threads on the control path (command fetch, fault and
\* page-request records, MSIs, register accesses), calling as often as they
\* like, a call of read_memory_test that overlaps no other call and no access
\* a call left behind returns the data of its own read: never what an earlier
\* access left in ctrl_path_rsp_buf, and never by the wake-up for another.
THEOREM AloneGetsItsData == Spec => []OwnDataAlone
<1> DEFINE UsersInv == \A u \in Callers : UserInv(u)
<1>1. Init => UsersInv
  BY DEF Init, UserInv, Alone
<1>2. IInv /\ UsersInv /\ [Next]_vars => UsersInv'  BY UserKept
<1>3. UsersInv => OwnDataAlone
  BY DEF UserInv, Alone, OwnDataAlone, Returned, HasOwnData, Nth
<1> QED BY IInvAlways, <1>1, <1>2, <1>3, PTL DEF Spec
=============================================================================
