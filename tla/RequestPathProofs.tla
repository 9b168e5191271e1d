-------------------------- MODULE RequestPathProofs --------------------------
(***************************************************************************)
(* Proofs about RequestPath for every number of devices, queues, ports and *)
(* every value of the limits: the type invariant; that the outstanding     *)
(* counters count the tasks in flight, so that the limits hold; that each  *)
(* admitted task is in one place of the path, once; and that every step of *)
(* the path is a step of OrderedResponses, or leaves what the requester    *)
(* sees alone.                                                             *)
(***************************************************************************)
EXTENDS RequestPath, SequencesExt, FiniteSetTheorems, TLAPS

-----------------------------------------------------------------------------
(* Lemmas about lists.                                                      *)

\* Appending adds one element at the end, and keeps a sequence without
\* repetition so if the element is new.
LEMMA AppendSet ==
  ASSUME NEW S, NEW s \in Seq(S), NEW e \in S
  PROVE  /\ Append(s, e) \in Seq(S)
         /\ ToSet(Append(s, e)) = ToSet(s) \union {e}
         /\ IsInjective(s) /\ e \notin ToSet(s) => IsInjective(Append(s, e))
<1> DEFINE t == Append(s, e)
<1>1. /\ t \in Seq(S)
      /\ Len(t) = Len(s) + 1 /\ Len(s) \in Nat
      /\ DOMAIN s = 1 .. Len(s) /\ DOMAIN t = 1 .. (Len(s) + 1)
      /\ \A i \in 1 .. Len(s) : t[i] = s[i]
      /\ t[Len(s) + 1] = e
  OBVIOUS
<1> HIDE DEF t
<1>2. ToSet(t) = ToSet(s) \union {e}
  <2>1. ASSUME NEW i \in DOMAIN t PROVE t[i] \in ToSet(s) \union {e}
    <3>1. i \in 1 .. Len(s) \/ i = Len(s) + 1  BY <1>1
    <3> QED BY <3>1, <1>1 DEF ToSet
  <2>2. ASSUME NEW i \in DOMAIN s PROVE s[i] \in ToSet(t)
    <3>1. i \in DOMAIN t /\ t[i] = s[i]  BY <1>1
    <3> QED BY <3>1 DEF ToSet
  <2>3. e \in ToSet(t)
    <3>1. Len(s) + 1 \in DOMAIN t  BY <1>1
    <3> QED BY <3>1, <1>1 DEF ToSet
  <2> QED BY <2>1, <2>2, <2>3 DEF ToSet
<1>3. ASSUME IsInjective(s), e \notin ToSet(s) PROVE IsInjective(t)
  <2> SUFFICES ASSUME NEW i \in DOMAIN t, NEW j \in DOMAIN t, t[i] = t[j], i # j
               PROVE  FALSE
    BY DEF IsInjective
  <2>1. (i \in 1 .. Len(s) \/ i = Len(s) + 1) /\ (j \in 1 .. Len(s) \/ j = Len(s) + 1)
    BY <1>1
  <2>2. CASE i \in 1 .. Len(s) /\ j \in 1 .. Len(s)  BY <2>2, <1>1, <1>3 DEF IsInjective
  <2>3. CASE i = Len(s) + 1 /\ j \in 1 .. Len(s)  BY <2>3, <1>1, <1>3 DEF ToSet
  <2>4. CASE j = Len(s) + 1 /\ i \in 1 .. Len(s)  BY <2>4, <1>1, <1>3 DEF ToSet
  <2> QED BY <2>1, <2>2, <2>3, <2>4
<1> QED BY <1>1, <1>2, <1>3 DEF t

\* Taking the head off leaves the other elements, and takes the head with it
\* if the sequence has no repetition.
LEMMA TailSet ==
  ASSUME NEW S, NEW s \in Seq(S), s # << >>
  PROVE  /\ Tail(s) \in Seq(S) /\ Head(s) \in S
         /\ ToSet(s) = {Head(s)} \union ToSet(Tail(s))
         /\ IsInjective(s) => IsInjective(Tail(s)) /\ Head(s) \notin ToSet(Tail(s))
<1> DEFINE t == Tail(s)
<1>1. /\ t \in Seq(S) /\ Head(s) \in S
      /\ Len(s) \in Nat \ {0} /\ Len(t) = Len(s) - 1
      /\ DOMAIN s = 1 .. Len(s) /\ DOMAIN t = 1 .. (Len(s) - 1)
      /\ \A i \in 1 .. (Len(s) - 1) : t[i] = s[i + 1]
      /\ Head(s) = s[1]
  OBVIOUS
<1> HIDE DEF t
<1>2. ToSet(s) = {Head(s)} \union ToSet(t)
  <2>1. ASSUME NEW i \in DOMAIN s PROVE s[i] \in {Head(s)} \union ToSet(t)
    <3>1. CASE i = 1  BY <3>1, <1>1
    <3>2. CASE i # 1
      <4>1. i - 1 \in DOMAIN t /\ t[i - 1] = s[i]  BY <3>2, <1>1
      <4> QED BY <4>1 DEF ToSet
    <3> QED BY <3>1, <3>2
  <2>2. ASSUME NEW i \in DOMAIN t PROVE t[i] \in ToSet(s)
    <3>1. i + 1 \in DOMAIN s /\ t[i] = s[i + 1]  BY <1>1
    <3> QED BY <3>1 DEF ToSet
  <2>3. Head(s) \in ToSet(s)
    <3>1. 1 \in DOMAIN s  BY <1>1
    <3> QED BY <3>1, <1>1 DEF ToSet
  <2> QED BY <2>1, <2>2, <2>3 DEF ToSet
<1>3. ASSUME IsInjective(s) PROVE IsInjective(t) /\ Head(s) \notin ToSet(t)
  <2>1. IsInjective(t)
    <3> SUFFICES ASSUME NEW i \in DOMAIN t, NEW j \in DOMAIN t, t[i] = t[j] PROVE i = j
      BY DEF IsInjective
    <3>1. /\ i + 1 \in DOMAIN s /\ j + 1 \in DOMAIN s /\ i \in Int /\ j \in Int
          /\ s[i + 1] = s[j + 1]
      BY <1>1
    <3>2. i + 1 = j + 1  BY <3>1, <1>3 DEF IsInjective
    <3> QED BY <3>1, <3>2
  <2>2. ASSUME NEW i \in DOMAIN t, t[i] = Head(s) PROVE FALSE
    <3>1. i + 1 \in DOMAIN s /\ 1 \in DOMAIN s /\ i + 1 # 1 /\ s[i + 1] = s[1]
      BY <1>1, <2>2
    <3> QED BY <3>1, <1>3 DEF IsInjective
  <2> QED BY <2>1, <2>2 DEF ToSet
<1> QED BY <1>1, <1>2, <1>3 DEF t

\* A sequence of as many entries as a finite set has elements, which lists all
\* of them, has no repetition.
LEMMA ListsOnce ==
  ASSUME NEW B, IsFiniteSet(B), NEW s \in [1 .. Cardinality(B) -> B], ToSet(s) = B
  PROVE  IsInjective(s)
<1>1. Cardinality(B) \in Nat  BY FS_CardinalityType
<1>2. DOMAIN s = 1 .. Cardinality(B)  OBVIOUS
<1>3. s \in Surjection(1 .. Cardinality(B), B)
  BY <1>2 DEF Surjection, ToSet
<1>4. Cardinality(1 .. Cardinality(B)) = Cardinality(B) /\ IsFiniteSet(1 .. Cardinality(B))
  BY <1>1, FS_Interval
<1>5. s \in Injection(1 .. Cardinality(B), B)
  BY <1>3, <1>4, FS_SurjSameCardinalityImpliesInj
<1> QED BY <1>2, <1>5 DEF Injection, IsInjective

\* A sequence over a set is one over a larger set.
LEMMA SeqMonotone ==
  ASSUME NEW S, NEW T, S \subseteq T
  PROVE  Seq(S) \subseteq Seq(T)
OBVIOUS

\* A function on an interval from 1 is a sequence.
LEMMA FunctionIsSeq ==
  ASSUME NEW S, NEW n \in Nat, NEW s \in [1 .. n -> S]
  PROVE  s \in Seq(S) /\ Len(s) = n
OBVIOUS

LEMMA IntervalFinite == \A n \in Nat : IsFiniteSet(1 .. n)
BY FS_Interval

-----------------------------------------------------------------------------
(* Type correctness.                                                        *)

LEMMA RequestOfTask ==
  ASSUME TypeOK, NEW id \in Ids
  PROVE  /\ task[id] \in Request
         /\ task[id].dir \in Direction
         /\ WriteQueue(id) \in Queues
<1>1. task[id] \in Request  BY DEF TypeOK, Ids
<1>2. task[id].dir \in Direction /\ task[id].dev \in Devices  BY <1>1 DEF Request
<1> QED BY <1>1, <1>2, QueueAssumption DEF WriteQueue

LEMMA BatchFinite ==
  ASSUME TypeOK
  PROVE  Batch \subseteq DOMAIN reorder_buf /\ Batch \subseteq Ids /\ IsFiniteSet(Batch)
<1>1. ReadyReads \subseteq DOMAIN reorder_buf
  BY DEF ReadyReads
<1>2. ASSUME NEW q \in Queues PROVE ReadyWrites(q) \subseteq DOMAIN reorder_buf
  <2> SUFFICES ASSUME NEW i \in ReadyPrefix(q)
               PROVE  reorder_write_order[q][i] \in DOMAIN reorder_buf
    BY DEF ReadyWrites
  <2>1. reorder_write_order[q] \in Seq(Ids)  BY DEF TypeOK
  <2>2. i \in DOMAIN reorder_write_order[q] /\ \A j \in 1 .. i : Ready(reorder_write_order[q][j])
    BY DEF ReadyPrefix
  <2>3. i \in 1 .. i  BY <2>1, <2>2
  <2> QED BY <2>2, <2>3 DEF Ready
<1>3. Batch \subseteq DOMAIN reorder_buf  BY <1>1, <1>2 DEF Batch
<1>4. IsFiniteSet(Ids)
  <2>1. Len(task) \in Nat /\ Ids = 1 .. Len(task)  BY DEF TypeOK, Ids
  <2> QED BY <2>1, IntervalFinite
<1>5. Batch \subseteq Ids  BY <1>3 DEF TypeOK
<1> QED BY <1>3, <1>4, <1>5, FS_Subset

\* A FIFO of a family of FIFOs grows or shrinks and stays one.
LEMMA FifoTypes ==
  ASSUME NEW S, NEW D, NEW f \in [D -> Seq(S)], NEW d \in D, NEW e \in S
  PROVE  /\ [f EXCEPT ![d] = Append(@, e)] \in [D -> Seq(S)]
         /\ f[d] # << >> => /\ [f EXCEPT ![d] = Tail(@)] \in [D -> Seq(S)]
                            /\ Head(f[d]) \in S
<1>1. Append(f[d], e) \in Seq(S)  BY AppendSet
<1>2. f[d] # << >> => Tail(f[d]) \in Seq(S) /\ Head(f[d]) \in S  BY TailSet
<1> QED BY <1>1, <1>2

LEMMA TypeStep ==
  ASSUME TypeOK, [Next]_vars
  PROVE  TypeOK'
<1>0. Ids = 1 .. Len(task) /\ Len(task) \in Nat /\ NoTask = 0
  BY DEF Ids, NoTask, TypeOK
<1> USE DEF TypeOK
<1>1. ASSUME NEW p \in Ports, Gate(p) PROVE TypeOK'
  BY <1>1 DEF Gate, Ids, GateStates, inputVars, xlateVars, reorderVars, outputVars
<1>2. ASSUME NEW p \in Ports, NEW req \in Request, Offer(p, req) PROVE TypeOK'
  BY <1>2 DEF Offer, Ids, GateStates, inputVars, xlateVars, reorderVars, outputVars
<1>3. ASSUME NEW p \in Ports, Admit(p) PROVE TypeOK'
  <2> DEFINE req == port[p].req
             id == Len(task) + 1
  <2>1. req \in Request /\ req.dir \in Direction  BY DEF Request
  <2>2. /\ task' \in Seq(Request) /\ Ids' = 1 .. (Len(task) + 1)
        /\ Ids \subseteq Ids' /\ id \in Ids'
    BY <1>0, <1>3, <2>1 DEF Admit, Ids
  <2>3. input_delay_queue \in [Direction -> Seq(Ids')]
    <3>1. Seq(Ids) \subseteq Seq(Ids')  BY <2>2, SeqMonotone
    <3> QED BY <3>1
  <2>4. input_delay_queue' \in [Direction -> Seq(Ids')]
    BY <1>3, <2>1, <2>2, <2>3, FifoTypes DEF Admit
  <2>5. /\ port' \in [Ports -> [at : GateStates, req : Request]]
        /\ global_outstanding' \in Nat /\ outstanding' \in [Direction -> Nat]
    <3>1. NoCall \in [at : GateStates, req : Request]  BY <2>1 DEF NoCall, GateStates
    <3>2. port' \in [Ports -> [at : GateStates, req : Request]]
      BY <1>3, <3>1 DEF Admit
    <3>3. outstanding[req.dir] + 1 \in Nat  BY <2>1
    <3>4. outstanding' \in [Direction -> Nat]  BY <1>3, <3>3 DEF Admit
    <3>5. global_outstanding' \in Nat  BY <1>3 DEF Admit
    <3> QED BY <3>2, <3>4, <3>5
  <2>6. /\ inbound_fifo \in [Direction -> Seq(Ids')]
        /\ out_fifo \in [Exits -> Seq(Ids')]
        /\ reorder_write_order \in [Queues -> Seq(Ids')]
        /\ to_send \in Seq(Ids')
        /\ output_delay_queue \in Seq(Ids') /\ responses \in Seq(Ids')
    <3>1. Seq(Ids) \subseteq Seq(Ids')  BY <2>2, SeqMonotone
    <3> QED BY <3>1
  <2> QED BY <1>3, <2>2, <2>4, <2>5, <2>6 DEF Admit, xlateVars, reorderVars, outputVars
<1>4. ASSUME NEW dir \in Direction, InputDelayLine(dir) PROVE TypeOK'
  <2>1. Head(input_delay_queue[dir]) \in Ids
        /\ input_delay_queue' \in [Direction -> Seq(Ids)]
    BY <1>4, TailSet, <1>0 DEF InputDelayLine
  <2>2. inbound_fifo' \in [Direction -> Seq(Ids)]
    BY <1>4, <2>1, FifoTypes DEF InputDelayLine
  <2> QED BY <1>4, <2>1, <2>2
          DEF InputDelayLine, Ids, portVars, xlateVars, reorderVars, outputVars
<1>5. CASE ParserPop
  <2>1. PICK dir \in Direction :
          /\ inbound_fifo[dir] # << >>
          /\ parser_task' = Head(inbound_fifo[dir])
          /\ inbound_fifo' = [inbound_fifo EXCEPT ![dir] = Tail(@)]
    BY <1>5 DEF ParserPop, Opposite, Direction
  <2>2. parser_task' \in Ids /\ inbound_fifo' \in [Direction -> Seq(Ids)]
    BY <2>1, TailSet
  <2>3. /\ reorder_buf' \in [DOMAIN reorder_buf' -> BOOLEAN]
        /\ DOMAIN reorder_buf' \subseteq Ids
    BY <1>5, <2>1, <2>2 DEF ParserPop, RegisterTask
  <2>6. reorder_write_order' \in [Queues -> Seq(Ids)]
    <3> DEFINE id == parser_task'
               q == WriteQueue(id)
    <3>1. RegisterTask(id) /\ task' = task
      BY <1>5 DEF ParserPop, portVars
    <3>2. \/ reorder_write_order' = reorder_write_order
          \/ reorder_write_order' = [reorder_write_order EXCEPT ![q] = Append(@, id)]
      BY <3>1 DEF RegisterTask
    <3>3. reorder_write_order \in [Queues -> Seq(Ids)] /\ id \in Ids
      BY <2>2 DEF TypeOK
    <3>4. q \in Queues
      <4>1. \A i \in Ids : WriteQueue(i) \in Queues  BY RequestOfTask
      <4> QED BY <2>2, <4>1
    <3> HIDE DEF id, q
    <3>5. Append(reorder_write_order[q], id) \in Seq(Ids)
      <4>1. reorder_write_order[q] \in Seq(Ids)  BY <3>3, <3>4
      <4> QED BY <3>3, <4>1, AppendSet
    <3> QED BY <3>2, <3>3, <3>5, ZenonT(40)
  <2>7. prefer_read' \in BOOLEAN  BY <1>5 DEF ParserPop
  <2> QED BY <1>5, <2>2, <2>3, <2>6, <2>7
          DEF ParserPop, Ids, portVars, xlateVars, outputVars
<1>6. CASE ParserToCollector
  BY <1>6 DEF ParserToCollector, Ids, portVars, xlateVars, reorderVars, outputVars
<1>7. ASSUME NEW x \in Exits, ParserToExit(x) PROVE TypeOK'
  <2>1. out_fifo' \in [Exits -> Seq(Ids)]  BY <1>7, FifoTypes DEF ParserToExit
  <2> QED BY <1>7, <2>1 DEF ParserToExit, Ids, portVars, reorderVars, outputVars
<1>8. ASSUME NEW id \in translating, NEW x \in Exits, TranslationDone(id, x) PROVE TypeOK'
  <2>1. out_fifo' \in [Exits -> Seq(Ids)]  BY <1>8, FifoTypes DEF TranslationDone
  <2> QED BY <1>8, <2>1 DEF TranslationDone, Ids, portVars, inputVars, reorderVars, outputVars
<1>9. ASSUME NEW x \in Exits, ExitThread(x) PROVE TypeOK'
  <2> DEFINE id == Head(out_fifo[x])
  <2>1. id \in Ids /\ out_fifo' \in [Exits -> Seq(Ids)]
    BY <1>9, TailSet DEF ExitThread
  <2>2. /\ reorder_buf' \in [DOMAIN reorder_buf' -> BOOLEAN]
        /\ DOMAIN reorder_buf' \subseteq Ids
    BY <1>9, <2>1 DEF ExitThread, MarkReady
  <2>3. responses' \in Seq(Ids)
    <3>1. Append(responses, id) \in Seq(Ids)  BY <2>1, AppendSet
    <3>2. responses' = responses \/ responses' = Append(responses, id)
      BY <1>9 DEF ExitThread, MarkReady
    <3> QED BY <3>1, <3>2
  <2>4. /\ sender' \in {"collect", "asleep", "send", "bandwidth"}
        /\ sender' \in {"send", "bandwidth"} <=> to_send # << >>
    BY <1>9 DEF ExitThread, MarkReady
  <2> QED BY <1>9, <2>1, <2>2, <2>3, <2>4 DEF ExitThread, Ids, portVars, inputVars
<1>10. CASE Collect
  <2>1. PICK s \in [1 .. Cardinality(Batch) -> Batch] : to_send' = s
    BY <1>10 DEF Collect
  <2>2. Cardinality(Batch) \in Nat /\ (Cardinality(Batch) = 0 <=> Batch = {})
    BY BatchFinite, FS_CardinalityType, FS_EmptySet
  <2>3. to_send' \in Seq(Ids) /\ (to_send' = << >> <=> Batch = {})
    <3>1. s \in Seq(Batch) /\ Len(s) = Cardinality(Batch)  BY <2>2, FunctionIsSeq
    <3>2. s = << >> <=> Cardinality(Batch) = 0  BY <3>1
    <3> QED BY <2>1, <2>2, <3>1, <3>2, BatchFinite, SeqMonotone
  <2>4. /\ sender' \in {"collect", "asleep", "send", "bandwidth"}
        /\ sender' \in {"send", "bandwidth"} <=> to_send' # << >>
    BY <1>10, <2>3 DEF Collect
  <2>5. /\ reorder_buf' \in [DOMAIN reorder_buf' -> BOOLEAN]
        /\ DOMAIN reorder_buf' \subseteq Ids
    BY <1>10 DEF Collect
  <2>6. ASSUME NEW q \in Queues PROVE Cardinality(ReadyPrefix(q)) \in Nat
    <3>1. /\ Len(reorder_write_order[q]) \in Nat
          /\ ReadyPrefix(q) \subseteq 1 .. Len(reorder_write_order[q])
      BY DEF ReadyPrefix
    <3>2. IsFiniteSet(1 .. Len(reorder_write_order[q]))  BY <3>1, IntervalFinite
    <3> QED BY <3>1, <3>2, FS_Subset, FS_CardinalityType
  <2>7. ASSUME NEW q \in Queues, NEW n \in Nat
        PROVE  SubSeq(reorder_write_order[q], n + 1, Len(reorder_write_order[q])) \in Seq(Ids)
    OBVIOUS
  <2>8. reorder_write_order' \in [Queues -> Seq(Ids)]
    BY <1>10, <2>6, <2>7 DEF Collect
  <2> QED BY <1>10, <2>3, <2>4, <2>5, <2>8
          DEF Collect, Ids, portVars, inputVars, xlateVars, outputVars
<1>11. CASE Launch
  <2>1. Head(to_send) \in Ids  BY <1>11, TailSet DEF Launch
  <2>2. output_delay_queue' \in Seq(Ids)  BY <1>11, <2>1, AppendSet DEF Launch
  <2>3. sender' = "bandwidth" /\ sender = "send" /\ to_send' = to_send  BY <1>11 DEF Launch
  <2> QED BY <1>11, <2>2, <2>3 DEF Launch, Ids, portVars, inputVars, xlateVars
<1>12. CASE Release
  <2>1. Head(to_send) \in Ids /\ to_send' \in Seq(Ids)  BY <1>12, TailSet DEF Release
  <2>2. task[Head(to_send)].dir \in Direction  BY <2>1, RequestOfTask
  <2>3. port' \in [Ports -> [at : GateStates, req : Request]]
    <3>1. ASSUME NEW p \in Ports
          PROVE  /\ port[p] \in [at : GateStates, req : Request]
                 /\ [at |-> "gate", req |-> port[p].req] \in [at : GateStates, req : Request]
      BY DEF GateStates
    <3>2. PICK d : port' = [p \in Ports |-> IF Woken(p, d)
                                           THEN [at |-> "gate", req |-> port[p].req]
                                           ELSE port[p]]
      BY <1>12 DEF Release
    <3> QED BY <3>1, <3>2
  <2>4. global_outstanding' \in Nat /\ outstanding' \in [Direction -> Nat]
    <3>1. global_outstanding' \in Nat  BY <1>12 DEF Release
    <3>2. PICK d \in Direction :
            outstanding' = [outstanding EXCEPT ![d] = IF @ > 0 THEN @ - 1 ELSE @]
      BY <1>12, <2>2 DEF Release
    <3>3. (IF outstanding[d] > 0 THEN outstanding[d] - 1 ELSE outstanding[d]) \in Nat
      OBVIOUS
    <3> QED BY <3>1, <3>2, <3>3
  <2>5. /\ sender' = IF to_send' = << >> THEN "collect" ELSE "send"
        /\ UNCHANGED <<task, inputVars, xlateVars, reorder_buf, reorder_write_order,
                       outputVars>>
    BY <1>12 DEF Release
  <2> QED BY <2>1, <2>3, <2>4, <2>5 DEF Ids, inputVars, xlateVars, outputVars
<1>13. CASE SendResponse
  <2>1. /\ Head(output_delay_queue) \in Ids
        /\ output_delay_queue' \in Seq(Ids)
    BY <1>13, TailSet DEF SendResponse
  <2>2. responses' \in Seq(Ids)  BY <1>13, <2>1, AppendSet DEF SendResponse
  <2> QED BY <1>13, <2>1, <2>2 DEF SendResponse, Ids, portVars, inputVars, xlateVars, reorderVars
<1>14. CASE UNCHANGED vars
  BY <1>14 DEF vars, Ids, portVars, inputVars, xlateVars, reorderVars, outputVars
<1> QED
  BY <1>1, <1>2, <1>3, <1>4, <1>5, <1>6, <1>7, <1>8, <1>9, <1>10, <1>11, <1>12,
     <1>13, <1>14 DEF Next, PortNext, InputNext, TranslateNext, OutputNext

LEMMA InitTypes ==
  ASSUME Init
  PROVE  TypeOK
<1>1. NoCall \in [at : GateStates, req : Request]
  <2>1. PICK dev \in Devices : TRUE  BY RequestAssumption
  <2>2. [dir |-> "READ", dev |-> dev] \in Request  BY DEF Request, Direction
  <2> QED BY <2>2 DEF NoCall, GateStates
<1>2. task \in Seq(Request) /\ Ids = {}
  BY DEF Init, Ids
<1> QED BY <1>1, <1>2 DEF Init, TypeOK, NoTask

\* The type invariant is inductive: every action keeps the queues, counters and
\* flags of the path within their types, the output thread's batch included.
THEOREM TypeCorrect == Spec => []TypeOK
<1>1. Init => TypeOK  BY InitTypes
<1>2. TypeOK /\ [Next]_vars => TypeOK'  BY TypeStep
<1> QED BY <1>1, <1>2, PTL DEF Spec

-----------------------------------------------------------------------------
(* The counters.                                                            *)
(*                                                                          *)
(* CountersMatchTasks is not inductive: a release subtracts one for the     *)
(* task at the head of the batch, which leaves InFlight only if that task   *)
(* is nowhere else on the path.  Placement says that the places of a task   *)
(* before its release exclude each other.                                   *)

Placement ==
  /\ \A dir \in Direction :
       /\ \A id \in AtInput(dir) : task[id].dir = dir
       /\ IsInjective(input_delay_queue[dir]) /\ IsInjective(inbound_fifo[dir])
       /\ ToSet(input_delay_queue[dir]) \intersect ToSet(inbound_fifo[dir]) = {}
       /\ AtInput(dir) \intersect AtReorder = {}
  /\ IsInjective(to_send)
  /\ DOMAIN reorder_buf \intersect ToSet(to_send) = {}

AllInFlight == InFlight("READ") \union InFlight("WRITE")

CInv == TypeOK /\ Placement /\ CountersMatchTasks

\* Most actions leave the places before the release as they are.
LEMMA PlacesUnchanged ==
  ASSUME Placement, UNCHANGED <<task, input_delay_queue, inbound_fifo, to_send>>,
         DOMAIN reorder_buf' = DOMAIN reorder_buf
  PROVE  /\ Placement'
         /\ \A dir \in Direction : InFlight(dir)' = InFlight(dir)
<1>1. /\ \A dir \in Direction : AtInput(dir)' = AtInput(dir)
      /\ AtReorder' = AtReorder
  BY DEF AtInput, AtReorder, ToSet
<1>2. Placement'
  BY <1>1 DEF Placement, IsInjective, ToSet
<1>3. ASSUME NEW dir \in Direction PROVE InFlight(dir)' = InFlight(dir)
  BY <1>1 DEF InFlight
<1> QED BY <1>2, <1>3

\* A task that moves on before its release stays in flight.
LEMMA CountersUnchanged ==
  ASSUME CountersMatchTasks, UNCHANGED <<global_outstanding, outstanding>>,
         \A dir \in Direction : InFlight(dir)' = InFlight(dir)
  PROVE  CountersMatchTasks'
<1>1. InFlight("READ")' = InFlight("READ") /\ InFlight("WRITE")' = InFlight("WRITE")
  BY DEF Direction
<1> QED BY <1>1 DEF CountersMatchTasks, DirMax

LEMMA ElemsTyped ==
  ASSUME NEW S, NEW s \in Seq(S)
  PROVE  ToSet(s) \subseteq S
BY DEF ToSet

\* What is in flight, by place.
LEMMA InFlightByPlace ==
  ASSUME TypeOK, NEW dir \in Direction
  PROVE  /\ AtInput(dir) \union AtReorder \subseteq Ids
         /\ InFlight(dir) \subseteq Ids /\ IsFiniteSet(InFlight(dir))
         /\ IsFiniteSet(AllInFlight)
<1>1. AtInput(dir) \subseteq Ids /\ AtReorder \subseteq Ids
  <2>1. /\ ToSet(input_delay_queue[dir]) \subseteq Ids
        /\ ToSet(inbound_fifo[dir]) \subseteq Ids
        /\ ToSet(to_send) \subseteq Ids
    BY ElemsTyped DEF TypeOK
  <2> QED BY <2>1 DEF TypeOK, AtInput, AtReorder
<1>3. Ids = 1 .. Len(task) /\ Len(task) \in Nat  BY DEF TypeOK, Ids
<1>4. \A S \in SUBSET Ids : IsFiniteSet(S)  BY <1>3, IntervalFinite, FS_Subset
<1>5. InFlight(dir) \subseteq Ids  BY <1>1 DEF InFlight
<1>6. AllInFlight \subseteq Ids
  <2>1. \A e \in Direction : AtInput(e) \subseteq Ids
    <3>1. ASSUME NEW e \in Direction
          PROVE  ToSet(input_delay_queue[e]) \subseteq Ids /\ ToSet(inbound_fifo[e]) \subseteq Ids
      BY ElemsTyped DEF TypeOK
    <3> QED BY <3>1 DEF AtInput
  <2> QED BY <1>1, <2>1 DEF AllInFlight, InFlight, Direction
<1> QED BY <1>1, <1>4, <1>5, <1>6

LEMMA AdmitStep ==
  ASSUME CInv, TypeOK', NEW p \in Ports, Admit(p)
  PROVE  CInv'
<1>a. PICK id : id = Len(task) + 1  OBVIOUS
<1>b. PICK d : d = port[p].req.dir  OBVIOUS
<1>1. /\ d \in Direction /\ task' = Append(task, port[p].req)
      /\ Ids = 1 .. Len(task) /\ Len(task) \in Nat
      /\ id \notin Ids /\ Ids' = Ids \union {id}
      /\ task'[id].dir = d /\ \A i \in Ids : task'[i] = task[i]
  <2>1. port[p].req \in Request /\ d \in Direction  BY <1>b DEF CInv, TypeOK, Request
  <2>2. task \in Seq(Request) /\ task' = Append(task, port[p].req)
    BY DEF CInv, TypeOK, Admit
  <2> QED BY <2>1, <2>2, <1>a, <1>b DEF Ids
<1>2. ASSUME NEW e \in Direction
      PROVE  /\ AtInput(e) \subseteq Ids /\ AtReorder \subseteq Ids
             /\ IsFiniteSet(InFlight(e)) /\ InFlight(e) \subseteq Ids
    BY InFlightByPlace DEF CInv
<1>3. /\ inbound_fifo' = inbound_fifo /\ reorder_buf' = reorder_buf /\ to_send' = to_send
      /\ input_delay_queue' = [input_delay_queue EXCEPT ![d] = Append(@, id)]
      /\ input_delay_queue \in [Direction -> Seq(Ids)]
  BY <1>a, <1>b DEF Admit, reorderVars, CInv, TypeOK
<1>4. /\ ToSet(input_delay_queue'[d]) = ToSet(input_delay_queue[d]) \union {id}
      /\ IsInjective(input_delay_queue'[d])
  <2>1. input_delay_queue[d] \in Seq(Nat)  BY <1>1, <1>3, SeqMonotone
  <2>2. IsInjective(input_delay_queue[d]) /\ id \notin ToSet(input_delay_queue[d])
    BY <1>1, <1>2 DEF CInv, Placement, AtInput
  <2>3. input_delay_queue'[d] = Append(input_delay_queue[d], id)  BY <1>1, <1>3
  <2>4. id \in Nat  BY <1>a, <1>1
  <2> QED BY <2>1, <2>2, <2>3, <2>4, AppendSet
<1>5. \A e \in Direction \ {d} : input_delay_queue'[e] = input_delay_queue[e]
  BY <1>3
<1>6. /\ AtReorder' = AtReorder
      /\ AtInput(d)' = AtInput(d) \union {id}
      /\ \A e \in Direction \ {d} : AtInput(e)' = AtInput(e)
  <2>1. AtReorder' = AtReorder  BY <1>3 DEF AtReorder, ToSet
  <2>2. AtInput(d)' = AtInput(d) \union {id}
    BY <1>3, <1>4 DEF AtInput, ToSet
  <2>3. ASSUME NEW e \in Direction \ {d} PROVE AtInput(e)' = AtInput(e)
    BY <1>3, <1>5 DEF AtInput, ToSet
  <2> QED BY <2>1, <2>2, <2>3
<1>7. Placement'
  <2>1. ASSUME NEW e \in Direction
        PROVE  /\ \A i \in AtInput(e)' : task'[i].dir = e
               /\ IsInjective(input_delay_queue'[e]) /\ IsInjective(inbound_fifo'[e])
               /\ ToSet(input_delay_queue'[e]) \intersect ToSet(inbound_fifo'[e]) = {}
               /\ AtInput(e)' \intersect AtReorder' = {}
    <3>1. CASE e = d
      <4>1. /\ id \notin AtInput(d) /\ id \notin AtReorder
            /\ id \notin ToSet(inbound_fifo[d])
        BY <1>1, <1>2 DEF AtInput
      <4>2. /\ ToSet(input_delay_queue[d]) \intersect ToSet(inbound_fifo[d]) = {}
            /\ AtInput(d) \intersect AtReorder = {} /\ IsInjective(inbound_fifo[d])
            /\ \A i \in AtInput(d) : task[i].dir = d
        BY <1>1 DEF CInv, Placement
      <4>3. \A i \in AtInput(d)' : task'[i].dir = d
        BY <1>1, <1>2, <1>6, <4>2
      <4>4. IsInjective(input_delay_queue'[d]) /\ IsInjective(inbound_fifo'[d])
        BY <1>3, <1>4, <4>2
      <4>5. ToSet(input_delay_queue'[d]) \intersect ToSet(inbound_fifo'[d]) = {}
        BY <1>3, <1>4, <4>1, <4>2
      <4>6. AtInput(d)' \intersect AtReorder' = {}  BY <1>6, <4>1, <4>2
      <4> QED BY <3>1, <4>3, <4>4, <4>5, <4>6
    <3>2. CASE e # d
      BY <3>2, <1>1, <1>2, <1>3, <1>5, <1>6 DEF CInv, Placement
    <3> QED BY <3>1, <3>2
  <2>2. IsInjective(to_send)' /\ (DOMAIN reorder_buf \intersect ToSet(to_send) = {})'
    BY <1>3 DEF CInv, Placement, IsInjective, ToSet
  <2> QED BY <2>1, <2>2 DEF Placement, IsInjective, ToSet, AtInput, AtReorder
<1>8. /\ InFlight(d)' = InFlight(d) \union {id} /\ id \notin InFlight(d)
      /\ \A e \in Direction \ {d} : InFlight(e)' = InFlight(e) /\ id \notin InFlight(e)
  <2>1. InFlight(d)' = InFlight(d) \union {id}
    BY <1>1, <1>2, <1>6 DEF InFlight
  <2>2. ASSUME NEW e \in Direction \ {d} PROVE InFlight(e)' = InFlight(e)
    <3>1. AtInput(e)' = AtInput(e) /\ AtReorder' = AtReorder  BY <1>6
    <3>2. \A i \in AtInput(e) \union AtReorder : task'[i] = task[i]  BY <1>1, <1>2
    <3> QED BY <3>1, <3>2 DEF InFlight
  <2> QED BY <1>1, <1>2, <2>1, <2>2
<1>9. CountersMatchTasks'
  <2>1. /\ ~DirFull(d) /\ ~GlobalFull
        /\ global_outstanding' = global_outstanding + 1
        /\ outstanding' = [outstanding EXCEPT ![d] = @ + 1]
    BY <1>b DEF Admit
  <2>2. global_outstanding \in Nat /\ outstanding \in [Direction -> Nat]
    BY DEF CInv, TypeOK
  <2>3. Cardinality(InFlight(d)') = outstanding[d] + 1
    <3>1. Cardinality(InFlight(d) \union {id}) = Cardinality(InFlight(d)) + 1
      BY <1>1, <1>2, <1>8, FS_AddElement
    <3> QED BY <1>1, <1>8, <3>1 DEF CInv, CountersMatchTasks
  <2>4. AllInFlight' = AllInFlight \union {id} /\ id \notin AllInFlight
    <3>1. Direction = {"READ", "WRITE"} /\ d \in {"READ", "WRITE"}  BY <1>1 DEF Direction
    <3>2. CASE d = "READ"  BY <1>8, <3>1, <3>2 DEF AllInFlight
    <3>3. CASE d = "WRITE"  BY <1>8, <3>1, <3>3 DEF AllInFlight
    <3> QED BY <3>1, <3>2, <3>3
  <2>5. Cardinality(AllInFlight') = global_outstanding + 1
    BY <1>1, <2>4, InFlightByPlace, FS_AddElement DEF CInv, CountersMatchTasks, AllInFlight
  <2>6. global_outstanding + 1 <= GLOBAL_MAX /\ outstanding[d] + 1 <= DirMax(d)
    BY <1>1, <2>1, <2>2, LimitsAssumption DEF DirFull, GlobalFull, DirMax
  <2>7. \A e \in Direction : /\ outstanding'[e] = Cardinality(InFlight(e)')
                             /\ outstanding'[e] <= DirMax(e)
    <3> TAKE e \in Direction
    <3>1. CASE e = d  BY <3>1, <2>1, <2>2, <2>3, <2>6, <1>1
    <3>2. CASE e # d
      BY <3>2, <1>1, <1>8, <2>1, <2>2 DEF CInv, CountersMatchTasks
    <3> QED BY <3>1, <3>2
  <2> QED BY <2>1, <2>5, <2>6, <2>7 DEF CountersMatchTasks, AllInFlight, DirMax
<1> QED BY <1>7, <1>9 DEF CInv

\* The task under the parser's hand moves from the delay line to the FIFO, or
\* from the FIFO to the reorder buffer.
LEMMA InputStep ==
  ASSUME CInv, NEW dir \in Direction, InputDelayLine(dir)
  PROVE  Placement' /\ CountersMatchTasks'
<1> DEFINE id == Head(input_delay_queue[dir])
<1>1. /\ UNCHANGED <<task, reorder_buf, to_send, global_outstanding, outstanding>>
      /\ inbound_fifo' = [inbound_fifo EXCEPT ![dir] = Append(@, id)]
      /\ input_delay_queue' = [input_delay_queue EXCEPT ![dir] = Tail(@)]
      /\ input_delay_queue[dir] # << >>
      /\ input_delay_queue \in [Direction -> Seq(Ids)]
      /\ inbound_fifo \in [Direction -> Seq(Ids)]
  BY DEF InputDelayLine, portVars, reorderVars, CInv, TypeOK
<1>2. /\ IsInjective(input_delay_queue[dir]) /\ IsInjective(inbound_fifo[dir])
      /\ ToSet(input_delay_queue[dir]) \intersect ToSet(inbound_fifo[dir]) = {}
  BY DEF CInv, Placement
<1>3. /\ ToSet(input_delay_queue[dir]) = {id} \union ToSet(input_delay_queue'[dir])
      /\ IsInjective(input_delay_queue'[dir]) /\ id \notin ToSet(input_delay_queue'[dir])
      /\ id \in Ids
  BY <1>1, <1>2, TailSet
<1>4. /\ ToSet(inbound_fifo'[dir]) = ToSet(inbound_fifo[dir]) \union {id}
      /\ IsInjective(inbound_fifo'[dir])
  <2>1. id \notin ToSet(inbound_fifo[dir])  BY <1>2, <1>3
  <2> QED BY <1>1, <1>2, <1>3, <2>1, AppendSet
<1>5. /\ \A e \in Direction : AtInput(e)' = AtInput(e)
      /\ AtReorder' = AtReorder
  <2>1. AtInput(dir)' = AtInput(dir)
    BY <1>3, <1>4 DEF AtInput, ToSet
  <2>2. \A e \in Direction \ {dir} : AtInput(e)' = AtInput(e)
    BY <1>1 DEF AtInput, ToSet
  <2>3. AtReorder' = AtReorder  BY <1>1 DEF AtReorder, ToSet
  <2> QED BY <2>1, <2>2, <2>3
<1>6. Placement'
  <2>1. ASSUME NEW e \in Direction
        PROVE  /\ \A i \in AtInput(e)' : task'[i].dir = e
               /\ IsInjective(input_delay_queue'[e]) /\ IsInjective(inbound_fifo'[e])
               /\ ToSet(input_delay_queue'[e]) \intersect ToSet(inbound_fifo'[e]) = {}
               /\ AtInput(e)' \intersect AtReorder' = {}
    <3>1. CASE e = dir
      BY <3>1, <1>1, <1>2, <1>3, <1>4, <1>5 DEF CInv, Placement
    <3>2. CASE e # dir
      BY <3>2, <1>1, <1>5 DEF CInv, Placement
    <3> QED BY <3>1, <3>2
  <2>2. IsInjective(to_send)' /\ (DOMAIN reorder_buf \intersect ToSet(to_send) = {})'
    BY <1>1 DEF CInv, Placement, IsInjective, ToSet
  <2> QED BY <2>1, <2>2 DEF Placement, IsInjective, ToSet, AtInput, AtReorder
<1>7. \A e \in Direction : InFlight(e)' = InFlight(e)
  BY <1>1, <1>5 DEF InFlight
<1> QED BY <1>1, <1>6, <1>7, CountersUnchanged DEF CInv

LEMMA ParserPopStep ==
  ASSUME CInv, ParserPop
  PROVE  Placement' /\ CountersMatchTasks'
<1>1. PICK dir \in Direction :
        /\ inbound_fifo[dir] # << >>
        /\ inbound_fifo' = [inbound_fifo EXCEPT ![dir] = Tail(@)]
        /\ RegisterTask(Head(inbound_fifo[dir]))
  BY DEF ParserPop, Opposite, Direction
<1>a. PICK id : id = Head(inbound_fifo[dir])  OBVIOUS
<1>2. /\ UNCHANGED <<task, input_delay_queue, to_send, global_outstanding, outstanding>>
      /\ DOMAIN reorder_buf' = DOMAIN reorder_buf \union {id}
      /\ inbound_fifo \in [Direction -> Seq(Ids)]
  BY <1>1, <1>a DEF ParserPop, RegisterTask, portVars, CInv, TypeOK
<1>3. /\ ToSet(inbound_fifo[dir]) = {id} \union ToSet(inbound_fifo'[dir])
      /\ IsInjective(inbound_fifo'[dir]) /\ id \notin ToSet(inbound_fifo'[dir])
      /\ id \notin ToSet(input_delay_queue[dir])
      /\ ToSet(input_delay_queue[dir]) \intersect ToSet(inbound_fifo'[dir]) = {}
  <2>1. /\ IsInjective(inbound_fifo[dir])
        /\ ToSet(input_delay_queue[dir]) \intersect ToSet(inbound_fifo[dir]) = {}
    BY DEF CInv, Placement
  <2> QED BY <1>1, <1>2, <1>a, <2>1, TailSet
<1>4. /\ id \in AtInput(dir) /\ id \notin AtInput(dir)'
      /\ AtInput(dir)' = AtInput(dir) \ {id}
      /\ \A e \in Direction \ {dir} : AtInput(e)' = AtInput(e)
      /\ AtReorder' = AtReorder \union {id}
  <2>1. AtInput(dir)' = ToSet(input_delay_queue[dir]) \union ToSet(inbound_fifo'[dir])
    BY <1>2 DEF AtInput, ToSet
  <2>2. \A e \in Direction \ {dir} : AtInput(e)' = AtInput(e)
    BY <1>1, <1>2 DEF AtInput, ToSet
  <2>3. AtReorder' = AtReorder \union {id}  BY <1>2 DEF AtReorder, ToSet
  <2> QED BY <1>3, <2>1, <2>2, <2>3 DEF AtInput
<1>5. /\ task[id].dir = dir /\ id \notin AtReorder
      /\ \A e \in Direction \ {dir} : id \notin AtInput(e)
  BY <1>4 DEF CInv, Placement
<1>6. Placement'
  <2>1. ASSUME NEW e \in Direction
        PROVE  /\ \A i \in AtInput(e)' : task'[i].dir = e
               /\ IsInjective(input_delay_queue'[e]) /\ IsInjective(inbound_fifo'[e])
               /\ ToSet(input_delay_queue'[e]) \intersect ToSet(inbound_fifo'[e]) = {}
               /\ AtInput(e)' \intersect AtReorder' = {}
    <3>1. CASE e = dir
      BY <3>1, <1>2, <1>3, <1>4, <1>5 DEF CInv, Placement
    <3>2. CASE e # dir
      BY <3>2, <1>1, <1>2, <1>4, <1>5 DEF CInv, Placement
    <3> QED BY <3>1, <3>2
  <2>2. IsInjective(to_send)' /\ DOMAIN reorder_buf' \intersect ToSet(to_send') = {}
    BY <1>2, <1>5 DEF CInv, Placement, IsInjective, ToSet, AtReorder
  <2> QED BY <2>1, <2>2 DEF Placement, IsInjective, ToSet, AtInput, AtReorder
<1>7. ASSUME NEW e \in Direction PROVE InFlight(e)' = InFlight(e)
  <2>1. CASE e = dir  BY <2>1, <1>2, <1>4, <1>5 DEF InFlight
  <2>2. CASE e # dir  BY <2>2, <1>2, <1>4, <1>5 DEF InFlight
  <2> QED BY <2>1, <2>2
<1> QED BY <1>2, <1>6, <1>7, CountersUnchanged DEF CInv

LEMMA CollectStep ==
  ASSUME CInv, Collect
  PROVE  Placement' /\ CountersMatchTasks'
<1>1. PICK s \in [1 .. Cardinality(Batch) -> Batch] : ToSet(s) = Batch /\ to_send' = s
  BY DEF Collect
<1>2. /\ UNCHANGED <<task, input_delay_queue, inbound_fifo, global_outstanding, outstanding>>
      /\ DOMAIN reorder_buf' = DOMAIN reorder_buf \ Batch
      /\ Batch \subseteq DOMAIN reorder_buf
  BY BatchFinite DEF Collect, Erased, portVars, inputVars, CInv
<1>3. IsInjective(to_send') /\ ToSet(to_send') = Batch
  BY <1>1, BatchFinite, ListsOnce DEF CInv
<1>4. to_send = << >> /\ ToSet(to_send) = {}
  BY DEF Collect, CInv, TypeOK, ToSet
<1>5. /\ AtReorder' = AtReorder
      /\ \A e \in Direction : AtInput(e)' = AtInput(e)
  BY <1>2, <1>3, <1>4 DEF AtReorder, AtInput, ToSet
<1>6. Placement'
  <2>1. \A e \in Direction :
          /\ \A i \in AtInput(e)' : task'[i].dir = e
          /\ IsInjective(input_delay_queue'[e]) /\ IsInjective(inbound_fifo'[e])
          /\ ToSet(input_delay_queue'[e]) \intersect ToSet(inbound_fifo'[e]) = {}
          /\ AtInput(e)' \intersect AtReorder' = {}
    BY <1>2, <1>5 DEF CInv, Placement
  <2>2. DOMAIN reorder_buf' \intersect ToSet(to_send') = {}
    BY <1>2, <1>3
  <2> QED BY <1>3, <2>1, <2>2 DEF Placement, IsInjective, ToSet, AtInput, AtReorder
<1>7. \A e \in Direction : InFlight(e)' = InFlight(e)
  BY <1>2, <1>5 DEF InFlight
<1> QED BY <1>2, <1>6, <1>7, CountersUnchanged DEF CInv

\* The released task was in flight once, so it can be counted off once.
LEMMA ReleaseStep ==
  ASSUME CInv, Release
  PROVE  Placement' /\ CountersMatchTasks'
<1>a. PICK id : id = Head(to_send)  OBVIOUS
<1>b. PICK d : d = task[id].dir  OBVIOUS
<1>1. /\ UNCHANGED <<task, input_delay_queue, inbound_fifo, reorder_buf>>
      /\ to_send' = Tail(to_send) /\ to_send # << >> /\ to_send \in Seq(Ids)
      /\ id \in Ids /\ d \in Direction
  <2>1. to_send # << >> /\ to_send \in Seq(Ids)  BY DEF Release, CInv, TypeOK
  <2>2. id \in Ids  BY <1>a, <2>1, TailSet
  <2>3. d \in Direction  BY <1>b, <2>2, RequestOfTask DEF CInv
  <2> QED BY <2>1, <2>2, <2>3 DEF Release, inputVars
<1>2. /\ ToSet(to_send) = {id} \union ToSet(to_send')
      /\ IsInjective(to_send') /\ id \notin ToSet(to_send')
  BY <1>1, <1>a, TailSet DEF CInv, Placement
<1>3. /\ AtReorder' = AtReorder \ {id} /\ id \in AtReorder
      /\ \A e \in Direction : AtInput(e)' = AtInput(e) /\ id \notin AtInput(e)
  <2>1. id \notin DOMAIN reorder_buf  BY <1>2 DEF CInv, Placement
  <2>2. AtReorder' = AtReorder \ {id} /\ id \in AtReorder
    BY <1>1, <1>2, <2>1 DEF AtReorder, ToSet
  <2>3. \A e \in Direction : AtInput(e)' = AtInput(e)  BY <1>1 DEF AtInput, ToSet
  <2> QED BY <2>2, <2>3 DEF CInv, Placement
<1>4. Placement'
  <2>1. \A e \in Direction :
          /\ \A i \in AtInput(e)' : task'[i].dir = e
          /\ IsInjective(input_delay_queue'[e]) /\ IsInjective(inbound_fifo'[e])
          /\ ToSet(input_delay_queue'[e]) \intersect ToSet(inbound_fifo'[e]) = {}
          /\ AtInput(e)' \intersect AtReorder' = {}
    BY <1>1, <1>3, ZenonT(40) DEF CInv, Placement
  <2>2. DOMAIN reorder_buf' \intersect ToSet(to_send') = {}
    BY <1>1, <1>2 DEF CInv, Placement
  <2> QED BY <1>2, <2>1, <2>2 DEF Placement, IsInjective, ToSet, AtInput, AtReorder
<1>5. /\ InFlight(d)' = InFlight(d) \ {id} /\ id \in InFlight(d)
      /\ \A e \in Direction \ {d} : InFlight(e)' = InFlight(e) /\ id \notin InFlight(e)
  BY <1>1, <1>3, <1>b DEF InFlight
<1>6. AllInFlight' = AllInFlight \ {id} /\ id \in AllInFlight
  <2>1. Direction = {"READ", "WRITE"} /\ d \in {"READ", "WRITE"}  BY <1>1 DEF Direction
  <2>2. CASE d = "READ"  BY <1>5, <2>1, <2>2 DEF AllInFlight
  <2>3. CASE d = "WRITE"  BY <1>5, <2>1, <2>3 DEF AllInFlight
  <2> QED BY <2>1, <2>2, <2>3
<1>7. CountersMatchTasks'
  <2>1. /\ global_outstanding \in Nat /\ outstanding \in [Direction -> Nat]
        /\ GLOBAL_MAX \in Nat /\ DirMax(d) \in Nat
    BY LimitsAssumption DEF CInv, TypeOK, DirMax
  <2>2. /\ outstanding[d] = Cardinality(InFlight(d)) /\ outstanding[d] <= DirMax(d)
        /\ global_outstanding = Cardinality(AllInFlight) /\ global_outstanding <= GLOBAL_MAX
    BY <1>1 DEF CInv, CountersMatchTasks, AllInFlight
  <2>3. IsFiniteSet(InFlight(d)) /\ IsFiniteSet(AllInFlight)
    BY <1>1, InFlightByPlace DEF CInv
  <2>4. Cardinality(InFlight(d) \ {id}) = outstanding[d] - 1
    BY <1>5, <2>2, <2>3, FS_RemoveElement
  <2>5. Cardinality(AllInFlight \ {id}) = global_outstanding - 1
    BY <1>6, <2>2, <2>3, FS_RemoveElement
  <2>6. Cardinality(InFlight(d) \ {id}) \in Nat /\ Cardinality(AllInFlight \ {id}) \in Nat
    BY <2>3, FS_RemoveElement, FS_CardinalityType
  <2>7. outstanding[d] > 0 /\ global_outstanding > 0
    BY <1>1, <2>1, <2>4, <2>5, <2>6
  <2>8. /\ global_outstanding' = global_outstanding - 1
        /\ outstanding' = [outstanding EXCEPT ![d] = @ - 1]
    BY <1>a, <1>b, <2>7 DEF Release
  <2>9. \A e \in Direction : /\ outstanding'[e] = Cardinality(InFlight(e)')
                             /\ outstanding'[e] <= DirMax(e)
    <3> TAKE e \in Direction
    <3>1. CASE e = d  BY <3>1, <1>5, <2>1, <2>2, <2>4, <2>8
    <3>2. CASE e # d  BY <3>2, <1>5, <2>1, <2>8 DEF CInv, CountersMatchTasks
    <3> QED BY <3>1, <3>2
  <2>10. /\ global_outstanding' = Cardinality(AllInFlight')
         /\ global_outstanding' <= GLOBAL_MAX
    BY <1>6, <2>1, <2>2, <2>5, <2>8
  <2> QED BY <2>9, <2>10 DEF CountersMatchTasks, AllInFlight, DirMax
<1> QED BY <1>4, <1>7

\* The placement and the counters together are inductive.
LEMMA CInvAlways == Spec => []CInv
<1>1. Init => CInv
  <2> SUFFICES ASSUME Init PROVE CInv
    OBVIOUS
  <2>1. TypeOK  BY InitTypes
  <2>2. \A dir \in Direction : AtInput(dir) = {} /\ AtReorder = {}
    BY DEF Init, AtInput, AtReorder, ToSet
  <2>3. Placement
    BY <2>2 DEF Init, Placement, IsInjective, ToSet
  <2>4. \A dir \in Direction : InFlight(dir) = {}  BY <2>2 DEF InFlight
  <2>5. InFlight("READ") \union InFlight("WRITE") = {}  BY <2>4 DEF Direction
  <2>6. Cardinality({}) = 0  BY FS_EmptySet
  <2>7. CountersMatchTasks
    <3>1. global_outstanding = 0 /\ outstanding = [dir \in Direction |-> 0]  BY DEF Init
    <3>2. 0 <= GLOBAL_MAX /\ 0 <= READ_MAX /\ 0 <= WRITE_MAX  BY LimitsAssumption
    <3>3. \A dir \in Direction : /\ outstanding[dir] = Cardinality(InFlight(dir))
                                 /\ outstanding[dir] <= DirMax(dir)
      BY <2>4, <2>6, <3>1, <3>2 DEF DirMax
    <3> QED BY <2>5, <2>6, <3>1, <3>2, <3>3 DEF CountersMatchTasks
  <2> QED BY <2>1, <2>3, <2>7 DEF CInv
<1>2. CInv /\ [Next]_vars => CInv'
  <2> SUFFICES ASSUME CInv, [Next]_vars PROVE Placement' /\ CountersMatchTasks'
    BY TypeStep DEF CInv
  <2>0. TypeOK'  BY TypeStep DEF CInv
  <2>1. ASSUME /\ UNCHANGED <<task, input_delay_queue, inbound_fifo, to_send,
                              global_outstanding, outstanding>>
               /\ DOMAIN reorder_buf' = DOMAIN reorder_buf
        PROVE  Placement' /\ CountersMatchTasks'
    <3>1. Placement' /\ \A dir \in Direction : InFlight(dir)' = InFlight(dir)
      BY <2>1, PlacesUnchanged DEF CInv
    <3> QED BY <2>1, <3>1, CountersUnchanged DEF CInv
  <2>2. ASSUME NEW p \in Ports, Gate(p) PROVE Placement' /\ CountersMatchTasks'
    BY <2>1, <2>2 DEF Gate, inputVars, reorderVars
  <2>3. ASSUME NEW p \in Ports, NEW req \in Request, Offer(p, req)
        PROVE  Placement' /\ CountersMatchTasks'
    BY <2>1, <2>3 DEF Offer, inputVars, reorderVars
  <2>4. ASSUME NEW p \in Ports, Admit(p) PROVE Placement' /\ CountersMatchTasks'
    BY <2>0, <2>4, AdmitStep DEF CInv
  <2>5. ASSUME NEW dir \in Direction, InputDelayLine(dir)
        PROVE  Placement' /\ CountersMatchTasks'
    BY <2>5, InputStep
  <2>6. CASE ParserPop  BY <2>6, ParserPopStep
  <2>7. CASE ParserToCollector
    BY <2>1, <2>7 DEF ParserToCollector, portVars, reorderVars
  <2>8. ASSUME NEW x \in Exits, ParserToExit(x) PROVE Placement' /\ CountersMatchTasks'
    BY <2>1, <2>8 DEF ParserToExit, portVars, reorderVars
  <2>9. ASSUME NEW id \in translating, NEW x \in Exits, TranslationDone(id, x)
        PROVE  Placement' /\ CountersMatchTasks'
    BY <2>1, <2>9 DEF TranslationDone, portVars, inputVars, reorderVars
  <2>10. ASSUME NEW x \in Exits, ExitThread(x) PROVE Placement' /\ CountersMatchTasks'
    BY <2>1, <2>10 DEF ExitThread, MarkReady, portVars, inputVars
  <2>11. CASE Collect  BY <2>11, CollectStep
  <2>12. CASE Launch  BY <2>1, <2>12 DEF Launch, portVars, inputVars
  <2>13. CASE Release  BY <2>13, ReleaseStep
  <2>14. CASE SendResponse
    BY <2>1, <2>14 DEF SendResponse, portVars, inputVars, reorderVars
  <2>15. CASE UNCHANGED vars
    BY <2>1, <2>15 DEF vars, portVars, inputVars, reorderVars
  <2> QED
    BY <2>2, <2>3, <2>4, <2>5, <2>6, <2>7, <2>8, <2>9, <2>10, <2>11, <2>12, <2>13,
       <2>14, <2>15 DEF Next, PortNext, InputNext, TranslateNext, OutputNext
<1> QED BY <1>1, <1>2, PTL DEF Spec

\* The counters of the port admission and of the output thread always agree
\* with the tasks in flight, for every limit, FIFO depth and assignment of
\* ports and queues; so neither a direction nor the IOMMU exceeds its limit.
THEOREM CountersCorrect == Spec => []CountersMatchTasks
<1>1. CInv => CountersMatchTasks  BY DEF CInv
<1> QED BY <1>1, CInvAlways, PTL

-----------------------------------------------------------------------------
(* The places of the path, and the tasks at each of them.                   *)

PlaceNames == {"delay_read", "delay_write", "inbound_read", "inbound_write", "parser",
               "translating", "pt", "msipt", "fault", "ready", "unlaunched", "output",
               "answered"}
DelayOf(dir) == IF dir = "READ" THEN "delay_read" ELSE "delay_write"
InboundOf(dir) == IF dir = "READ" THEN "inbound_read" ELSE "inbound_write"

At == [pl \in PlaceNames |->
         CASE pl = "delay_read"    -> ToSet(input_delay_queue["READ"])
           [] pl = "delay_write"   -> ToSet(input_delay_queue["WRITE"])
           [] pl = "inbound_read"  -> ToSet(inbound_fifo["READ"])
           [] pl = "inbound_write" -> ToSet(inbound_fifo["WRITE"])
           [] pl = "parser"        -> {parser_task} \ {NoTask}
           [] pl = "translating"   -> translating
           [] pl = "pt"            -> ToSet(out_fifo["pt"])
           [] pl = "msipt"         -> ToSet(out_fifo["msipt"])
           [] pl = "fault"         -> ToSet(out_fifo["fault"])
           [] pl = "ready"         -> {id \in DOMAIN reorder_buf : reorder_buf[id]}
           [] pl = "unlaunched"    -> Unlaunched
           [] pl = "output"        -> ToSet(output_delay_queue)
           [] pl = "answered"      -> ToSet(responses)]

\* No task is at two places.
Apart(at) == \A p, q \in PlaceNames : p # q => at[p] \intersect at[q] = {}

\* The inductive invariant: the places are apart, every task is at one, the
\* lists hold it once, and the reorder buffer knows it from the parser on
\* until the output thread collects it.
OneInv ==
  /\ Apart(At)
  /\ \A id \in Ids : \E pl \in PlaceNames : id \in At[pl]
  /\ \A x \in Exits : IsInjective(out_fifo[x])
  /\ IsInjective(output_delay_queue) /\ IsInjective(responses)
  /\ DOMAIN reorder_buf = At["parser"] \union At["translating"] \union At["pt"]
                          \union At["msipt"] \union At["fault"] \union At["ready"]

AtIs ==
  /\ At["delay_read"] = ToSet(input_delay_queue["READ"])
  /\ At["delay_write"] = ToSet(input_delay_queue["WRITE"])
  /\ At["inbound_read"] = ToSet(inbound_fifo["READ"])
  /\ At["inbound_write"] = ToSet(inbound_fifo["WRITE"])
  /\ At["parser"] = {parser_task} \ {NoTask}
  /\ At["translating"] = translating
  /\ \A x \in Exits : At[x] = ToSet(out_fifo[x])
  /\ At["ready"] = {id \in DOMAIN reorder_buf : reorder_buf[id]}
  /\ At["unlaunched"] = Unlaunched
  /\ At["output"] = ToSet(output_delay_queue)
  /\ At["answered"] = ToSet(responses)
  /\ DOMAIN At = PlaceNames
LEMMA AtValues == AtIs
BY DEF AtIs, At, PlaceNames, Exits
LEMMA AtNext == AtIs'
BY DEF AtIs, At, PlaceNames, Exits

LEMMA AtDirection ==
  ASSUME NEW dir \in Direction
  PROVE  /\ At[DelayOf(dir)] = ToSet(input_delay_queue[dir])
         /\ At'[DelayOf(dir)] = ToSet(input_delay_queue'[dir])
         /\ At[InboundOf(dir)] = ToSet(inbound_fifo[dir])
         /\ At'[InboundOf(dir)] = ToSet(inbound_fifo'[dir])
         /\ DelayOf(dir) \in {"delay_read", "delay_write"}
         /\ InboundOf(dir) \in {"inbound_read", "inbound_write"}
<1>1. CASE dir = "READ"  BY <1>1, AtValues, AtNext DEF AtIs, ToSet, DelayOf, InboundOf
<1>2. CASE dir = "WRITE"  BY <1>2, AtValues, AtNext DEF AtIs, ToSet, DelayOf, InboundOf
<1> QED BY <1>1, <1>2 DEF Direction

\* Tasks that go from one place to another leave the places apart, and every
\* task at a place.
LEMMA Moved ==
  ASSUME NEW at, NEW at1, Apart(at),
         NEW p \in PlaceNames, NEW q \in PlaceNames, p # q,
         NEW M, M \subseteq at[p],
         at1[p] = at[p] \ M, at1[q] = at[q] \union M,
         \A r \in PlaceNames \ {p, q} : at1[r] = at[r]
  PROVE  /\ Apart(at1)
         /\ \A id : (\E r \in PlaceNames : id \in at[r]) => \E r \in PlaceNames : id \in at1[r]
<1>1. ASSUME NEW r \in PlaceNames, NEW s \in PlaceNames, r # s
      PROVE  at1[r] \intersect at1[s] = {}
  <2>1. at[r] \intersect at[s] = {}  BY <1>1 DEF Apart
  <2>2. CASE r = p \/ s = p
    <3>1. at1[p] \subseteq at[p] /\ at1[p] \intersect M = {}  OBVIOUS
    <3> QED BY <1>1, <2>1, <2>2, <3>1 DEF Apart
  <2>3. CASE r # p /\ s # p
    <3>1. CASE r = q /\ s # q
      <4>1. at[s] \intersect M = {}  BY <2>3, <3>1 DEF Apart
      <4> QED BY <2>1, <2>3, <3>1, <4>1
    <3>2. CASE s = q /\ r # q
      <4>1. at[r] \intersect M = {}  BY <2>3, <3>2 DEF Apart
      <4> QED BY <2>1, <2>3, <3>2, <4>1
    <3>3. CASE r # q /\ s # q  BY <2>1, <2>3, <3>3
    <3> QED BY <1>1, <3>1, <3>2, <3>3
  <2> QED BY <2>2, <2>3
<1>2. ASSUME NEW id, NEW r \in PlaceNames, id \in at[r]
      PROVE  \E s \in PlaceNames : id \in at1[s]
  <2>1. CASE id \in M  BY <2>1
  <2>2. CASE id \notin M  BY <1>2, <2>2
  <2> QED BY <2>1, <2>2
<1> QED BY <1>1, <1>2 DEF Apart

-----------------------------------------------------------------------------
(* One lemma for each action that moves a task.                             *)

\* The steps that move none.
LEMMA StillStep ==
  ASSUME OneInv, Unlaunched' = Unlaunched,
         UNCHANGED <<task, input_delay_queue, inbound_fifo, parser_task, translating,
                     out_fifo, reorder_buf, output_delay_queue, responses>>
  PROVE  OneInv'
<1>1. At' = At  BY DEF At
<1> QED BY <1>1 DEF OneInv, Apart, Ids, IsInjective

LEMMA AtIsIds ==
  ASSUME TypeOK, NEW pl \in PlaceNames
  PROVE  At[pl] \subseteq Ids
<1>1. ASSUME NEW s \in Seq(Ids) PROVE ToSet(s) \subseteq Ids  BY DEF ToSet
<1>2. to_send # << >> => Tail(to_send) \in Seq(Ids)  BY TailSet DEF TypeOK
<1>3. Unlaunched \subseteq Ids
  <2>1. ToSet(to_send) \subseteq Ids  BY <1>1 DEF TypeOK
  <2>2. sender = "bandwidth" => ToSet(Tail(to_send)) \subseteq Ids
    BY <1>1, <1>2 DEF TypeOK
  <2> QED BY <2>1, <2>2 DEF Unlaunched
<1>4. \A dir \in Direction : /\ ToSet(input_delay_queue[dir]) \subseteq Ids
                             /\ ToSet(inbound_fifo[dir]) \subseteq Ids
  BY <1>1 DEF TypeOK
<1>5. \A x \in Exits : ToSet(out_fifo[x]) \subseteq Ids
  BY <1>1 DEF TypeOK
<1>6. ToSet(output_delay_queue) \subseteq Ids /\ ToSet(responses) \subseteq Ids
  BY <1>1 DEF TypeOK
<1> QED BY <1>3, <1>4, <1>5, <1>6, AtValues
        DEF TypeOK, AtIs, PlaceNames, Exits, Direction, NoTask

LEMMA AdmitPlaces ==
  ASSUME CInv, OneInv, NEW p \in Ports, Admit(p)
  PROVE  OneInv'
<1> DEFINE id == Len(task) + 1
           d == port[p].req.dir
<1>1. /\ UNCHANGED <<inbound_fifo, parser_task, translating, out_fifo, reorder_buf,
                     sender, to_send, output_delay_queue, responses>>
      /\ input_delay_queue' = [input_delay_queue EXCEPT ![d] = Append(@, id)]
      /\ input_delay_queue \in [Direction -> Seq(Ids)]
      /\ task' = Append(task, port[p].req) /\ task \in Seq(Request)
      /\ d \in Direction
  BY DEF Admit, CInv, TypeOK, xlateVars, reorderVars, outputVars, Request
<1>2. Ids' = Ids \union {id} /\ id \notin Ids /\ Ids \subseteq Nat /\ id \in Nat
  BY <1>1 DEF Ids
<1> HIDE DEF id, d
<1>3. At'[DelayOf(d)] = At[DelayOf(d)] \union {id}
  <2>1. input_delay_queue[d] \in Seq(Nat)
    BY <1>1, <1>2, SeqMonotone
  <2>2. input_delay_queue'[d] = Append(input_delay_queue[d], id)
    BY <1>1
  <2>3. ToSet(Append(input_delay_queue[d], id)) = ToSet(input_delay_queue[d]) \union {id}
    BY <1>2, <2>1, AppendSet
  <2>4. /\ At[DelayOf(d)] = ToSet(input_delay_queue[d])
        /\ At'[DelayOf(d)] = ToSet(input_delay_queue'[d])
    BY <1>1, AtDirection
  <2> QED BY <2>2, <2>3, <2>4
<1>4. \A pl \in PlaceNames \ {DelayOf(d)} : At'[pl] = At[pl]
  <2>1. /\ \A x \in Exits : At'[x] = At[x]
        /\ At'["parser"] = At["parser"] /\ At'["translating"] = At["translating"]
        /\ At'["ready"] = At["ready"] /\ At'["unlaunched"] = At["unlaunched"]
        /\ At'["output"] = At["output"] /\ At'["answered"] = At["answered"]
    <3>1. Unlaunched' = Unlaunched  BY <1>1 DEF Unlaunched
    <3> QED BY <1>1, <3>1, AtValues, AtNext DEF AtIs
  <2>2. \A dir \in Direction :
          /\ At'[InboundOf(dir)] = At[InboundOf(dir)]
          /\ dir # d => At'[DelayOf(dir)] = At[DelayOf(dir)]
    BY <1>1, AtDirection
  <2> QED BY <2>1, <2>2, <1>1 DEF PlaceNames, DelayOf, InboundOf, Direction, Exits
<1>5. \A pl \in PlaceNames : id \notin At[pl]
  BY <1>2, AtIsIds DEF CInv
<1>6. Apart(At')
  BY <1>3, <1>4, <1>5 DEF OneInv, Apart
<1>7. \A i \in Ids' : \E pl \in PlaceNames : i \in At'[pl]
  <2>1. DelayOf(d) \in PlaceNames  BY <1>1, AtDirection DEF PlaceNames
  <2> QED BY <1>2, <1>3, <1>4, <2>1 DEF OneInv
<1>8. DelayOf(d) \in {"delay_read", "delay_write"}  BY <1>1, AtDirection
<1>9. \A pl \in {"parser", "translating", "pt", "msipt", "fault", "ready"} : At'[pl] = At[pl]
  BY <1>4, <1>8 DEF PlaceNames
<1> QED BY <1>1, <1>6, <1>7, <1>9 DEF OneInv, IsInjective

LEMMA MovedStep ==
  ASSUME OneInv, NEW p \in PlaceNames, NEW q \in PlaceNames, p # q,
         NEW M, M \subseteq At[p], task' = task,
         At'[p] = At[p] \ M, At'[q] = At[q] \union M,
         \A r \in PlaceNames \ {p, q} : At'[r] = At[r]
  PROVE  Apart(At') /\ \A id \in Ids' : \E pl \in PlaceNames : id \in At'[pl]
BY Moved DEF OneInv, Ids

\* Taking the head of a list without repetition takes it out of the list's
\* set; appending a task of another place puts it in.
LEMMA ListMove ==
  ASSUME NEW s \in Seq(Ids), s # << >>, IsInjective(s)
  PROVE  /\ ToSet(Tail(s)) = ToSet(s) \ {Head(s)} /\ IsInjective(Tail(s))
         /\ Head(s) \in ToSet(s) /\ Head(s) \in Ids /\ Tail(s) \in Seq(Ids)
BY TailSet

LEMMA InputPlaces ==
  ASSUME CInv, OneInv, NEW dir \in Direction, InputDelayLine(dir)
  PROVE  OneInv'
<1> DEFINE id == Head(input_delay_queue[dir])
           p == DelayOf(dir)
           q == InboundOf(dir)
<1>1. /\ UNCHANGED <<task, parser_task, translating, out_fifo, reorder_buf,
                     sender, to_send, output_delay_queue, responses>>
      /\ input_delay_queue' = [input_delay_queue EXCEPT ![dir] = Tail(@)]
      /\ inbound_fifo' = [inbound_fifo EXCEPT ![dir] = Append(@, id)]
      /\ input_delay_queue \in [Direction -> Seq(Ids)]
      /\ inbound_fifo \in [Direction -> Seq(Ids)]
      /\ input_delay_queue[dir] # << >> /\ IsInjective(input_delay_queue[dir])
  BY DEF InputDelayLine, CInv, TypeOK, Placement, portVars, xlateVars, reorderVars, outputVars
<1>2. /\ p \in {"delay_read", "delay_write"} /\ q \in {"inbound_read", "inbound_write"}
      /\ At[p] = ToSet(input_delay_queue[dir]) /\ At'[p] = ToSet(input_delay_queue'[dir])
      /\ At[q] = ToSet(inbound_fifo[dir]) /\ At'[q] = ToSet(inbound_fifo'[dir])
  BY AtDirection
<1>3. id \in At[p] /\ id \in Ids /\ At'[p] = At[p] \ {id}
  BY <1>1, <1>2, ListMove
<1>4. At'[q] = At[q] \union {id}
  BY <1>1, <1>2, <1>3, AppendSet
<1> HIDE DEF id
<1>5. \A r \in PlaceNames \ {p, q} : At'[r] = At[r]
  <2>1. /\ \A x \in Exits : At'[x] = At[x]
        /\ At'["parser"] = At["parser"] /\ At'["translating"] = At["translating"]
        /\ At'["ready"] = At["ready"] /\ At'["unlaunched"] = At["unlaunched"]
        /\ At'["output"] = At["output"] /\ At'["answered"] = At["answered"]
    <3>1. Unlaunched' = Unlaunched  BY <1>1 DEF Unlaunched
    <3> QED BY <1>1, <3>1, AtValues, AtNext DEF AtIs
  <2>2. \A d \in Direction : d # dir => /\ At'[InboundOf(d)] = At[InboundOf(d)]
                                        /\ At'[DelayOf(d)] = At[DelayOf(d)]
    BY <1>1, AtDirection
  <2> QED BY <2>1, <2>2, <1>1 DEF PlaceNames, DelayOf, InboundOf, Direction, Exits
<1> HIDE DEF p, q
<1>6. Apart(At') /\ \A i \in Ids' : \E pl \in PlaceNames : i \in At'[pl]
  <2>1. p \in PlaceNames /\ q \in PlaceNames /\ p # q  BY <1>2 DEF PlaceNames
  <2>2. {id} \subseteq At[p] /\ task' = task  BY <1>1, <1>3
  <2> QED BY <1>3, <1>4, <1>5, <2>1, <2>2, MovedStep
<1>7. \A pl \in {"parser", "translating", "pt", "msipt", "fault", "ready"} : At'[pl] = At[pl]
  BY <1>2, <1>5 DEF PlaceNames
<1> QED BY <1>1, <1>6, <1>7 DEF OneInv, IsInjective

\* The task the parser takes is registered, and not ready.
LEMMA ParserPopPlaces ==
  ASSUME CInv, OneInv, ParserPop
  PROVE  OneInv'
<1>1. PICK dir \in Direction :
        /\ inbound_fifo[dir] # << >>
        /\ parser_task' = Head(inbound_fifo[dir])
        /\ inbound_fifo' = [inbound_fifo EXCEPT ![dir] = Tail(@)]
        /\ RegisterTask(Head(inbound_fifo[dir]))
  BY DEF ParserPop, Opposite, Direction
<1>a. PICK id : id = Head(inbound_fifo[dir])  OBVIOUS
<1> DEFINE p == InboundOf(dir)
<1>2. /\ UNCHANGED <<task, input_delay_queue, translating, out_fifo,
                     sender, to_send, output_delay_queue, responses>>
      /\ parser_task = NoTask /\ parser_task' = id
      /\ inbound_fifo \in [Direction -> Seq(Ids)] /\ IsInjective(inbound_fifo[dir])
      /\ reorder_buf' = [i \in DOMAIN reorder_buf \union {id} |->
                            IF i = id THEN FALSE ELSE reorder_buf[i]]
  BY <1>1, <1>a DEF ParserPop, RegisterTask, CInv, TypeOK, Placement,
                    portVars, xlateVars, outputVars
<1>3. /\ p \in {"inbound_read", "inbound_write"}
      /\ At[p] = ToSet(inbound_fifo[dir]) /\ At'[p] = ToSet(inbound_fifo'[dir])
  BY AtDirection
<1>4. id \in At[p] /\ id \in Ids /\ At'[p] = At[p] \ {id}
  BY <1>1, <1>2, <1>3, <1>a, ListMove
<1>5. id # NoTask  BY <1>4 DEF Ids, NoTask, CInv, TypeOK
<1>6. At["parser"] = {} /\ At'["parser"] = {id}
  BY <1>2, <1>5, AtValues, AtNext DEF AtIs
<1>7. id \notin At["ready"]
  <2>1. p \in PlaceNames /\ "ready" \in PlaceNames /\ p # "ready"  BY <1>3 DEF PlaceNames
  <2> QED BY <1>4, <2>1 DEF OneInv, Apart
<1>8. At'["ready"] = At["ready"]
  <2>1. At["ready"] = {i \in DOMAIN reorder_buf : reorder_buf[i]}
    BY AtValues DEF AtIs
  <2>2. At'["ready"] = {i \in DOMAIN reorder_buf' : reorder_buf'[i]}
    BY AtNext DEF AtIs
  <2> QED BY <1>2, <1>7, <2>1, <2>2
<1>9. \A r \in PlaceNames \ {p, "parser"} : At'[r] = At[r]
  <2>1. /\ \A x \in Exits : At'[x] = At[x]
        /\ At'["translating"] = At["translating"]
        /\ At'["unlaunched"] = At["unlaunched"]
        /\ At'["output"] = At["output"] /\ At'["answered"] = At["answered"]
    <3>1. Unlaunched' = Unlaunched  BY <1>2 DEF Unlaunched
    <3> QED BY <1>2, <3>1, AtValues, AtNext DEF AtIs
  <2>2. \A d \in Direction : /\ At'[DelayOf(d)] = At[DelayOf(d)]
                             /\ d # dir => At'[InboundOf(d)] = At[InboundOf(d)]
    BY <1>1, <1>2, AtDirection
  <2> QED BY <2>1, <2>2, <1>8 DEF PlaceNames, DelayOf, InboundOf, Direction, Exits
<1> HIDE DEF p
<1>10. Apart(At') /\ \A i \in Ids' : \E pl \in PlaceNames : i \in At'[pl]
  <2>1. p \in PlaceNames /\ "parser" \in PlaceNames /\ p # "parser"  BY <1>3 DEF PlaceNames
  <2>2. At'["parser"] = At["parser"] \union {id}  BY <1>6
  <2>3. {id} \subseteq At[p]  BY <1>4
  <2> QED BY <1>2, <1>4, <1>9, <2>1, <2>2, <2>3, MovedStep
<1>11. \A pl \in {"translating", "pt", "msipt", "fault", "ready"} : At'[pl] = At[pl]
  BY <1>3, <1>9 DEF PlaceNames
<1>12. DOMAIN reorder_buf' = DOMAIN reorder_buf \union {id}  BY <1>2
<1> QED BY <1>2, <1>6, <1>10, <1>11, <1>12 DEF OneInv, IsInjective

\* What a step leaves alone when it touches neither the delay lines nor the
\* inbound FIFOs.
LEMMA InputAlone ==
  ASSUME UNCHANGED <<input_delay_queue, inbound_fifo>>
  PROVE  \A pl \in {"delay_read", "delay_write", "inbound_read", "inbound_write"} :
           At'[pl] = At[pl]
BY AtValues, AtNext DEF AtIs

\* The parser's task goes to an exit or to the collector.
LEMMA ParserPlaces ==
  ASSUME CInv, OneInv, ParserToCollector \/ \E x \in Exits : ParserToExit(x)
  PROVE  OneInv'
<1> DEFINE id == parser_task
<1>1. /\ UNCHANGED <<task, input_delay_queue, inbound_fifo, reorder_buf, sender, to_send,
                     output_delay_queue, responses>>
      /\ id # NoTask /\ parser_task' = NoTask /\ id \in Ids
      /\ out_fifo \in [Exits -> Seq(Ids)]
  BY DEF ParserToCollector, ParserToExit, CInv, TypeOK, portVars, reorderVars, outputVars
<1>2. At["parser"] = {id} /\ At'["parser"] = {}
  BY <1>1, AtValues, AtNext DEF AtIs
<1>3. /\ At'["ready"] = At["ready"] /\ At'["unlaunched"] = At["unlaunched"]
      /\ At'["output"] = At["output"] /\ At'["answered"] = At["answered"]
  <2>1. Unlaunched' = Unlaunched  BY <1>1 DEF Unlaunched
  <2> QED BY <1>1, <2>1, AtValues, AtNext DEF AtIs
<1>4. \A pl \in {"delay_read", "delay_write", "inbound_read", "inbound_write"} :
        At'[pl] = At[pl]
  BY <1>1, InputAlone
<1>5. CASE ParserToCollector
  <2>1. translating' = translating \union {id} /\ out_fifo' = out_fifo
    BY <1>5 DEF ParserToCollector
  <2>2. At'["translating"] = At["translating"] \union {id} /\ \A x \in Exits : At'[x] = At[x]
    BY <2>1, AtValues, AtNext DEF AtIs
  <2>3. \A r \in PlaceNames \ {"parser", "translating"} : At'[r] = At[r]
    BY <1>3, <1>4, <2>2 DEF PlaceNames, Exits
  <2>4. /\ "parser" \in PlaceNames /\ "translating" \in PlaceNames /\ "parser" # "translating"
        /\ At'["parser"] = At["parser"] \ {id} /\ {id} \subseteq At["parser"]
    BY <1>2 DEF PlaceNames
  <2>5. Apart(At') /\ \A i \in Ids' : \E pl \in PlaceNames : i \in At'[pl]
    BY <1>1, <2>2, <2>3, <2>4, MovedStep
  <2>6. \A x \in Exits : x \in PlaceNames \ {"parser", "translating"}  BY DEF PlaceNames, Exits
  <2> QED BY <1>1, <1>2, <1>3, <2>1, <2>2, <2>5 DEF OneInv, IsInjective, Exits
<1>6. ASSUME NEW x \in Exits, ParserToExit(x) PROVE OneInv'
  <2>1. out_fifo' = [out_fifo EXCEPT ![x] = Append(@, id)] /\ translating' = translating
    BY <1>6 DEF ParserToExit
  <2>2. x \in PlaceNames /\ x \notin {"parser", "translating"} /\ "parser" \in PlaceNames
    BY DEF PlaceNames, Exits
  <2>3. id \notin At[x]  BY <1>2, <2>2 DEF OneInv, Apart
  <2>4. /\ At'[x] = At[x] \union {id}
        /\ IsInjective(out_fifo'[x])
        /\ \A y \in Exits \ {x} : At'[y] = At[y] /\ out_fifo'[y] = out_fifo[y]
        /\ At'["translating"] = At["translating"]
    <3>1. /\ At[x] = ToSet(out_fifo[x]) /\ At'[x] = ToSet(out_fifo'[x])
          /\ At'["translating"] = At["translating"]
          /\ \A y \in Exits : At[y] = ToSet(out_fifo[y]) /\ At'[y] = ToSet(out_fifo'[y])
      BY <2>1, AtValues, AtNext DEF AtIs
    <3>2. \A y \in Exits \ {x} : out_fifo'[y] = out_fifo[y]
      BY <1>1, <2>1
    <3>3. out_fifo'[x] = Append(out_fifo[x], id) /\ out_fifo[x] \in Seq(Ids)
      BY <1>1, <2>1
    <3>4. IsInjective(out_fifo[x])  BY DEF OneInv
    <3> QED BY <1>1, <2>3, <3>1, <3>2, <3>3, <3>4, AppendSet
  <2>5. \A r \in PlaceNames \ {"parser", x} : At'[r] = At[r]
    BY <1>3, <1>4, <2>4 DEF PlaceNames, Exits
  <2>6. Apart(At') /\ \A i \in Ids' : \E pl \in PlaceNames : i \in At'[pl]
    <3>1. At'["parser"] = At["parser"] \ {id} /\ {id} \subseteq At["parser"]  BY <1>2
    <3> QED BY <1>1, <2>2, <2>4, <2>5, <3>1, MovedStep
  <2>7. \A y \in Exits : IsInjective(out_fifo'[y])
    BY <2>4 DEF OneInv
  <2>8. DOMAIN reorder_buf' = At'["parser"] \union At'["translating"] \union At'["pt"]
                          \union At'["msipt"] \union At'["fault"] \union At'["ready"]
    BY <1>1, <1>2, <1>3, <2>4 DEF OneInv, Exits
  <2> QED BY <1>1, <2>6, <2>7, <2>8 DEF OneInv, IsInjective
<1> QED BY <1>5, <1>6

LEMMA TranslationPlaces ==
  ASSUME CInv, OneInv, NEW id \in translating, NEW x \in Exits, TranslationDone(id, x)
  PROVE  OneInv'
<1>1. /\ UNCHANGED <<task, input_delay_queue, inbound_fifo, parser_task, reorder_buf,
                     sender, to_send, output_delay_queue, responses>>
      /\ translating' = translating \ {id} /\ id \in Ids
      /\ out_fifo \in [Exits -> Seq(Ids)]
      /\ out_fifo' = [out_fifo EXCEPT ![x] = Append(@, id)]
  BY DEF TranslationDone, CInv, TypeOK, portVars, inputVars, reorderVars, outputVars
<1>2. /\ At'["parser"] = At["parser"] /\ At["translating"] = translating
      /\ At'["translating"] = translating'
      /\ At'["ready"] = At["ready"] /\ At'["unlaunched"] = At["unlaunched"]
      /\ At'["output"] = At["output"] /\ At'["answered"] = At["answered"]
      /\ \A y \in Exits : At[y] = ToSet(out_fifo[y]) /\ At'[y] = ToSet(out_fifo'[y])
  <2>1. Unlaunched' = Unlaunched  BY <1>1 DEF Unlaunched
  <2> QED BY <1>1, <2>1, AtValues, AtNext DEF AtIs
<1>3. \A pl \in {"delay_read", "delay_write", "inbound_read", "inbound_write"} :
        At'[pl] = At[pl]
  BY <1>1, InputAlone
<1>4. x \in PlaceNames /\ x # "translating" /\ "translating" \in PlaceNames
  BY DEF PlaceNames, Exits
<1>5. id \in At["translating"] /\ id \notin At[x]
  BY <1>2, <1>4 DEF OneInv, Apart
<1>6. /\ At'["translating"] = At["translating"] \ {id}
      /\ At'[x] = At[x] \union {id} /\ IsInjective(out_fifo'[x])
      /\ \A y \in Exits \ {x} : At'[y] = At[y] /\ out_fifo'[y] = out_fifo[y]
  <2>1. \A y \in Exits \ {x} : out_fifo'[y] = out_fifo[y]  BY <1>1
  <2>2. out_fifo'[x] = Append(out_fifo[x], id) /\ out_fifo[x] \in Seq(Ids)  BY <1>1
  <2>3. IsInjective(out_fifo[x])  BY DEF OneInv
  <2> QED BY <1>1, <1>2, <1>5, <2>1, <2>2, <2>3, AppendSet
<1>7. \A r \in PlaceNames \ {"translating", x} : At'[r] = At[r]
  BY <1>2, <1>3, <1>6 DEF PlaceNames, Exits
<1>8. Apart(At') /\ \A i \in Ids' : \E pl \in PlaceNames : i \in At'[pl]
  <2>1. {id} \subseteq At["translating"] /\ task' = task  BY <1>1, <1>5
  <2> QED BY <1>4, <1>6, <1>7, <2>1, MovedStep
<1>9. DOMAIN reorder_buf' = At'["parser"] \union At'["translating"] \union At'["pt"]
                        \union At'["msipt"] \union At'["fault"] \union At'["ready"]
  BY <1>1, <1>2, <1>5, <1>6 DEF OneInv, Exits
<1>10. \A y \in Exits : IsInjective(out_fifo'[y])
  BY <1>6 DEF OneInv
<1> QED BY <1>1, <1>8, <1>9, <1>10 DEF OneInv, IsInjective

\* An exit thread only ever meets a task that is registered and not ready, so
\* it marks it ready and answers none itself.
LEMMA ExitRegistered ==
  ASSUME CInv, OneInv, NEW x \in Exits, ExitThread(x)
  PROVE  /\ Head(out_fifo[x]) \in DOMAIN reorder_buf /\ ~reorder_buf[Head(out_fifo[x])]
         /\ reorder_buf' = [reorder_buf EXCEPT ![Head(out_fifo[x])] = TRUE]
         /\ responses' = responses
<1> DEFINE id == Head(out_fifo[x])
<1>1. out_fifo[x] \in Seq(Ids) /\ out_fifo[x] # << >> /\ IsInjective(out_fifo[x])
  BY DEF ExitThread, CInv, TypeOK, OneInv
<1>2. id \in ToSet(out_fifo[x])  BY <1>1, ListMove
<1>3. At[x] = ToSet(out_fifo[x]) /\ At["ready"] = {i \in DOMAIN reorder_buf : reorder_buf[i]}
  BY AtValues DEF AtIs
<1>4. id \in DOMAIN reorder_buf
  BY <1>2, <1>3 DEF OneInv, Exits
<1>5. id \notin At["ready"]
  <2>1. x \in PlaceNames /\ "ready" \in PlaceNames /\ x # "ready"  BY DEF PlaceNames, Exits
  <2>2. At[x] \intersect At["ready"] = {}  BY <2>1 DEF OneInv, Apart
  <2> QED BY <1>2, <1>3, <2>2
<1> QED BY <1>3, <1>4, <1>5 DEF ExitThread, MarkReady

LEMMA ExitPlaces ==
  ASSUME CInv, OneInv, NEW x \in Exits, ExitThread(x)
  PROVE  OneInv'
<1>a. PICK id : id = Head(out_fifo[x])  OBVIOUS
<1>1. /\ UNCHANGED <<task, input_delay_queue, inbound_fifo, parser_task, translating,
                     to_send, output_delay_queue, responses>>
      /\ out_fifo \in [Exits -> Seq(Ids)] /\ out_fifo[x] # << >>
      /\ out_fifo' = [out_fifo EXCEPT ![x] = Tail(@)]
      /\ id \in DOMAIN reorder_buf /\ reorder_buf' = [reorder_buf EXCEPT ![id] = TRUE]
      /\ (sender' = "bandwidth" <=> sender = "bandwidth")
  BY <1>a, ExitRegistered DEF ExitThread, MarkReady, CInv, TypeOK, portVars, inputVars
<1>2. /\ At'["parser"] = At["parser"] /\ At'["translating"] = At["translating"]
      /\ At'["unlaunched"] = At["unlaunched"]
      /\ At'["output"] = At["output"] /\ At'["answered"] = At["answered"]
      /\ \A y \in Exits : At[y] = ToSet(out_fifo[y]) /\ At'[y] = ToSet(out_fifo'[y])
  <2>1. Unlaunched' = Unlaunched  BY <1>1 DEF Unlaunched
  <2> QED BY <1>1, <2>1, AtValues, AtNext DEF AtIs
<1>3. \A pl \in {"delay_read", "delay_write", "inbound_read", "inbound_write"} :
        At'[pl] = At[pl]
  BY <1>1, InputAlone
<1>4. At'["ready"] = At["ready"] \union {id}
  <2>1. At["ready"] = {i \in DOMAIN reorder_buf : reorder_buf[i]}
    BY AtValues DEF AtIs
  <2>2. At'["ready"] = {i \in DOMAIN reorder_buf' : reorder_buf'[i]}
    BY AtNext DEF AtIs
  <2>3. reorder_buf \in [DOMAIN reorder_buf -> BOOLEAN]  BY DEF CInv, TypeOK
  <2> QED BY <1>1, <2>1, <2>2, <2>3
<1>5. /\ At'[x] = At[x] \ {id} /\ id \in At[x] /\ IsInjective(out_fifo'[x])
      /\ \A y \in Exits \ {x} : At'[y] = At[y] /\ out_fifo'[y] = out_fifo[y]
  <2>1. \A y \in Exits \ {x} : out_fifo'[y] = out_fifo[y]  BY <1>1
  <2>2. out_fifo'[x] = Tail(out_fifo[x]) /\ out_fifo[x] \in Seq(Ids)  BY <1>1
  <2>3. IsInjective(out_fifo[x])  BY DEF OneInv
  <2> QED BY <1>a, <1>1, <1>2, <2>1, <2>2, <2>3, ListMove
<1>6. x \in PlaceNames /\ x # "ready" /\ "ready" \in PlaceNames
  BY DEF PlaceNames, Exits
<1>7. \A r \in PlaceNames \ {x, "ready"} : At'[r] = At[r]
  BY <1>2, <1>3, <1>5 DEF PlaceNames, Exits
<1>8. Apart(At') /\ \A i \in Ids' : \E pl \in PlaceNames : i \in At'[pl]
  <2>1. {id} \subseteq At[x] /\ task' = task  BY <1>1, <1>5
  <2> QED BY <1>4, <1>5, <1>6, <1>7, <2>1, MovedStep
<1>9. DOMAIN reorder_buf' = At'["parser"] \union At'["translating"] \union At'["pt"]
                        \union At'["msipt"] \union At'["fault"] \union At'["ready"]
  <2>1. DOMAIN reorder_buf' = DOMAIN reorder_buf  BY <1>1
  <2>2. At["pt"] \union At["msipt"] \union At["fault"] =
          At'["pt"] \union At'["msipt"] \union At'["fault"] \union {id}
    BY <1>5 DEF Exits
  <2> QED BY <1>2, <1>4, <2>1, <2>2 DEF OneInv
<1>10. \A y \in Exits : IsInjective(out_fifo'[y])
  BY <1>5 DEF OneInv
<1> QED BY <1>1, <1>8, <1>9, <1>10 DEF OneInv, IsInjective

\* What the output thread's steps leave alone.
LEMMA FrontAlone ==
  ASSUME UNCHANGED <<inputVars, xlateVars>>
  PROVE  \A pl \in PlaceNames \ {"ready", "unlaunched", "output", "answered"} : At'[pl] = At[pl]
<1>1. UNCHANGED <<input_delay_queue, inbound_fifo, parser_task, translating, out_fifo>>
  BY DEF inputVars, xlateVars
<1>2. /\ At'["parser"] = At["parser"] /\ At'["translating"] = At["translating"]
      /\ \A y \in Exits : At'[y] = At[y]
  BY <1>1, AtValues, AtNext DEF AtIs
<1> QED BY <1>1, <1>2, InputAlone DEF PlaceNames, Exits

LEMMA BatchReady ==
  ASSUME TypeOK
  PROVE  Batch \subseteq {id \in DOMAIN reorder_buf : reorder_buf[id]}
<1>1. ASSUME NEW q \in Queues, NEW i \in ReadyPrefix(q)
      PROVE  Ready(reorder_write_order[q][i])
  <2>1. reorder_write_order[q] \in Seq(Ids) /\ i \in DOMAIN reorder_write_order[q]
        /\ \A j \in 1 .. i : Ready(reorder_write_order[q][j])
    BY DEF TypeOK, ReadyPrefix
  <2>2. i \in 1 .. i  BY <2>1
  <2> QED BY <2>1, <2>2
<1> QED BY <1>1 DEF Batch, ReadyReads, ReadyWrites, Ready

LEMMA CollectPlaces ==
  ASSUME CInv, OneInv, Collect
  PROVE  OneInv'
<1>1. /\ UNCHANGED <<task, out_fifo, output_delay_queue, responses>>
      /\ UNCHANGED <<inputVars, xlateVars>>
      /\ reorder_buf' = [id \in DOMAIN reorder_buf \ Batch |-> reorder_buf[id]]
      /\ ToSet(to_send') = Batch
      /\ to_send = << >> /\ sender # "bandwidth" /\ sender' # "bandwidth"
  BY DEF Collect, Erased, CInv, TypeOK, portVars, xlateVars, outputVars
<1>2. At["unlaunched"] = {} /\ At'["unlaunched"] = Batch
  <2>1. ToSet(to_send) = {}  BY <1>1 DEF ToSet
  <2> QED BY <1>1, <2>1, AtValues, AtNext DEF AtIs, Unlaunched
<1>3. At'["ready"] = At["ready"] \ Batch /\ Batch \subseteq At["ready"]
  <2>1. At["ready"] = {i \in DOMAIN reorder_buf : reorder_buf[i]}
    BY AtValues DEF AtIs
  <2>2. At'["ready"] = {i \in DOMAIN reorder_buf' : reorder_buf'[i]}
    BY AtNext DEF AtIs
  <2> QED BY <1>1, <2>1, <2>2, BatchReady DEF CInv
<1>4. At'["output"] = At["output"] /\ At'["answered"] = At["answered"]
  BY <1>1, AtValues, AtNext DEF AtIs
<1>5. \A r \in PlaceNames \ {"ready", "unlaunched"} : At'[r] = At[r]
  BY <1>1, <1>4, FrontAlone
<1>6. "ready" \in PlaceNames /\ "unlaunched" \in PlaceNames /\ "ready" # "unlaunched"
  BY DEF PlaceNames
<1>7. Apart(At') /\ \A i \in Ids' : \E pl \in PlaceNames : i \in At'[pl]
  <2>1. At'["unlaunched"] = At["unlaunched"] \union Batch  BY <1>2
  <2> QED BY <1>1, <1>3, <1>5, <1>6, <2>1, MovedStep
<1>8. /\ \A pl \in {"parser", "translating", "pt", "msipt", "fault"} :
           At'[pl] = At[pl] /\ At[pl] \intersect At["ready"] = {}
  BY <1>5 DEF PlaceNames, OneInv, Apart
<1>9. DOMAIN reorder_buf' = At'["parser"] \union At'["translating"] \union At'["pt"]
                        \union At'["msipt"] \union At'["fault"] \union At'["ready"]
  <2>1. DOMAIN reorder_buf' = DOMAIN reorder_buf \ Batch  BY <1>1
  <2> QED BY <1>3, <1>8, <2>1 DEF OneInv
<1> QED BY <1>1, <1>7, <1>9 DEF OneInv, IsInjective

LEMMA LaunchPlaces ==
  ASSUME CInv, OneInv, Launch
  PROVE  OneInv'
<1>a. PICK id : id = Head(to_send)  OBVIOUS
<1>1. /\ UNCHANGED <<task, out_fifo, reorder_buf, to_send, responses>>
      /\ UNCHANGED <<inputVars, xlateVars>>
      /\ to_send \in Seq(Ids) /\ to_send # << >> /\ IsInjective(to_send)
      /\ output_delay_queue \in Seq(Ids)
      /\ output_delay_queue' = Append(output_delay_queue, id)
      /\ sender = "send" /\ sender' = "bandwidth"
  BY <1>a DEF Launch, CInv, TypeOK, Placement, portVars, xlateVars
<1>2. ToSet(Tail(to_send)) = ToSet(to_send) \ {id} /\ id \in ToSet(to_send) /\ id \in Ids
  BY <1>1, <1>a, ListMove
<1>3. At["unlaunched"] = ToSet(to_send) /\ At'["unlaunched"] = ToSet(to_send) \ {id}
  BY <1>1, <1>2, AtValues, AtNext DEF AtIs, Unlaunched
<1>4. "unlaunched" \in PlaceNames /\ "output" \in PlaceNames /\ "unlaunched" # "output"
  BY DEF PlaceNames
<1>5. id \notin At["output"]  BY <1>2, <1>3, <1>4 DEF OneInv, Apart
<1>6. At'["output"] = At["output"] \union {id} /\ IsInjective(output_delay_queue')
  <2>1. At["output"] = ToSet(output_delay_queue) /\ At'["output"] = ToSet(output_delay_queue')
    BY AtValues, AtNext DEF AtIs
  <2>2. IsInjective(output_delay_queue)  BY DEF OneInv
  <2> QED BY <1>1, <1>2, <1>5, <2>1, <2>2, AppendSet
<1>7. \A r \in PlaceNames \ {"unlaunched", "output"} : At'[r] = At[r]
  <2>1. At'["ready"] = At["ready"] /\ At'["answered"] = At["answered"]
    BY <1>1, AtValues, AtNext DEF AtIs
  <2> QED BY <1>1, <2>1, FrontAlone
<1>8. Apart(At') /\ \A i \in Ids' : \E pl \in PlaceNames : i \in At'[pl]
  <2>1. {id} \subseteq At["unlaunched"] /\ At'["unlaunched"] = At["unlaunched"] \ {id}
    BY <1>2, <1>3
  <2> QED BY <1>1, <1>4, <1>6, <1>7, <2>1, MovedStep
<1>9. \A pl \in {"parser", "translating", "pt", "msipt", "fault", "ready"} : At'[pl] = At[pl]
  BY <1>7 DEF PlaceNames
<1> QED BY <1>1, <1>6, <1>8, <1>9 DEF OneInv, IsInjective

\* The released task was launched before, so it is no longer among the
\* unlaunched ones.
LEMMA ReleasePlaces ==
  ASSUME CInv, OneInv, Release
  PROVE  OneInv'
<1>1. Unlaunched' = Unlaunched  BY DEF Release, Unlaunched
<1> QED BY <1>1, StillStep DEF Release, inputVars, xlateVars, outputVars

LEMMA SendPlaces ==
  ASSUME CInv, OneInv, SendResponse
  PROVE  OneInv'
<1>a. PICK id : id = Head(output_delay_queue)  OBVIOUS
<1>1. /\ UNCHANGED <<task, out_fifo, reorder_buf, to_send, sender>>
      /\ UNCHANGED <<inputVars, xlateVars>>
      /\ output_delay_queue \in Seq(Ids) /\ output_delay_queue # << >>
      /\ IsInjective(output_delay_queue)
      /\ output_delay_queue' = Tail(output_delay_queue)
      /\ responses \in Seq(Ids) /\ responses' = Append(responses, id)
  BY <1>a DEF SendResponse, CInv, TypeOK, OneInv, portVars, xlateVars, reorderVars
<1>2. /\ At["output"] = ToSet(output_delay_queue) /\ At'["output"] = ToSet(output_delay_queue')
      /\ At["answered"] = ToSet(responses) /\ At'["answered"] = ToSet(responses')
      /\ At'["ready"] = At["ready"]
  BY <1>1, AtValues, AtNext DEF AtIs
<1>3. /\ At'["output"] = At["output"] \ {id} /\ id \in At["output"] /\ id \in Ids
      /\ IsInjective(output_delay_queue')
  BY <1>1, <1>2, <1>a, ListMove
<1>4. "output" \in PlaceNames /\ "answered" \in PlaceNames /\ "output" # "answered"
  BY DEF PlaceNames
<1>5. id \notin At["answered"]  BY <1>3, <1>4 DEF OneInv, Apart
<1>6. At'["answered"] = At["answered"] \union {id} /\ IsInjective(responses')
  <2>1. IsInjective(responses)  BY DEF OneInv
  <2> QED BY <1>1, <1>2, <1>3, <1>5, <2>1, AppendSet
<1>7. \A r \in PlaceNames \ {"output", "answered"} : At'[r] = At[r]
  <2>1. At'["unlaunched"] = At["unlaunched"]
    <3>1. Unlaunched' = Unlaunched  BY <1>1 DEF Unlaunched
    <3> QED BY <3>1, AtValues, AtNext DEF AtIs
  <2> QED BY <1>1, <1>2, <2>1, FrontAlone
<1>8. Apart(At') /\ \A i \in Ids' : \E pl \in PlaceNames : i \in At'[pl]
  <2>1. {id} \subseteq At["output"]  BY <1>3
  <2> QED BY <1>1, <1>3, <1>4, <1>6, <1>7, <2>1, MovedStep
<1>9. \A pl \in {"parser", "translating", "pt", "msipt", "fault", "ready"} : At'[pl] = At[pl]
  BY <1>7 DEF PlaceNames
<1> QED BY <1>1, <1>3, <1>6, <1>8, <1>9 DEF OneInv, IsInjective

-----------------------------------------------------------------------------
(* The theorem.                                                             *)

LEMMA CountOnce ==
  ASSUME NEW s \in Seq(Ids), IsInjective(s), NEW id
  PROVE  Cardinality({i \in DOMAIN s : s[i] = id}) = IF id \in ToSet(s) THEN 1 ELSE 0
<1>1. CASE id \in ToSet(s)
  <2>1. PICK j \in DOMAIN s : s[j] = id  BY <1>1 DEF ToSet
  <2>2. {i \in DOMAIN s : s[i] = id} = {j}  BY <2>1 DEF IsInjective
  <2> QED BY <1>1, <2>2, FS_Singleton
<1>2. CASE id \notin ToSet(s)
  <2>1. {i \in DOMAIN s : s[i] = id} = {}  BY <1>2 DEF ToSet
  <2> QED BY <1>2, <2>1, FS_EmptySet
<1> QED BY <1>1, <1>2

LEMMA OneInvStep ==
  ASSUME CInv, OneInv, [Next]_vars
  PROVE  OneInv'
<1>1. ASSUME NEW p \in Ports, Gate(p) PROVE OneInv'
  BY <1>1, StillStep DEF Gate, inputVars, xlateVars, reorderVars, outputVars, Unlaunched
<1>2. ASSUME NEW p \in Ports, NEW req \in Request, Offer(p, req) PROVE OneInv'
  BY <1>2, StillStep DEF Offer, inputVars, xlateVars, reorderVars, outputVars, Unlaunched
<1>3. ASSUME NEW p \in Ports, Admit(p) PROVE OneInv'  BY <1>3, AdmitPlaces
<1>4. ASSUME NEW dir \in Direction, InputDelayLine(dir) PROVE OneInv'  BY <1>4, InputPlaces
<1>5. CASE ParserPop  BY <1>5, ParserPopPlaces
<1>6. CASE ParserToCollector \/ \E x \in Exits : ParserToExit(x)  BY <1>6, ParserPlaces
<1>7. ASSUME NEW id \in translating, NEW x \in Exits, TranslationDone(id, x) PROVE OneInv'
  BY <1>7, TranslationPlaces
<1>8. ASSUME NEW x \in Exits, ExitThread(x) PROVE OneInv'  BY <1>8, ExitPlaces
<1>9. CASE Collect  BY <1>9, CollectPlaces
<1>10. CASE Launch  BY <1>10, LaunchPlaces
<1>11. CASE Release  BY <1>11, ReleasePlaces
<1>12. CASE SendResponse  BY <1>12, SendPlaces
<1>13. CASE UNCHANGED vars
  BY <1>13, StillStep
     DEF vars, portVars, inputVars, xlateVars, reorderVars, outputVars, Unlaunched
<1> QED
  BY <1>1, <1>2, <1>3, <1>4, <1>5, <1>6, <1>7, <1>8, <1>9, <1>10, <1>11, <1>12, <1>13
     DEF Next, PortNext, InputNext, TranslateNext, OutputNext

LEMMA OneInvInit ==
  ASSUME Init
  PROVE  OneInv
<1>1. \A pl \in PlaceNames : At[pl] = {}
  BY AtValues DEF AtIs, Init, ToSet, Unlaunched, PlaceNames, Direction, Exits
<1>2. Ids = {}  BY DEF Ids, Init
<1>3. DOMAIN reorder_buf = {}  BY DEF Init
<1>4. Apart(At)  BY <1>1 DEF Apart
<1>5. /\ \A x \in Exits : IsInjective(out_fifo[x])
      /\ IsInjective(output_delay_queue) /\ IsInjective(responses)
  BY DEF Init, IsInjective
<1> QED BY <1>1, <1>2, <1>3, <1>4, <1>5 DEF OneInv, PlaceNames

LEMMA OneInvAlways == Spec => [](CInv /\ OneInv)
<1>1. Init => OneInv  BY OneInvInit
<1>2. CInv /\ OneInv /\ [Next]_vars => OneInv'  BY OneInvStep
<1> QED BY <1>1, <1>2, CInvAlways, PTL DEF Spec

\* The sum of Places counts the places a task is at.
LEMMA PlacesAreOne ==
  ASSUME CInv, OneInv
  PROVE  OnePlaceEach
<1> SUFFICES ASSUME NEW id \in Ids PROVE Places(id) = 1
  BY DEF OnePlaceEach
<1> DEFINE In(s) == {i \in DOMAIN s : s[i] = id}
           B(pl) == IF id \in At[pl] THEN 1 ELSE 0
<1>1. /\ \A dir \in Direction : /\ input_delay_queue[dir] \in Seq(Ids)
                                /\ inbound_fifo[dir] \in Seq(Ids)
                                /\ IsInjective(input_delay_queue[dir])
                                /\ IsInjective(inbound_fifo[dir])
      /\ \A x \in Exits : out_fifo[x] \in Seq(Ids) /\ IsInjective(out_fifo[x])
      /\ output_delay_queue \in Seq(Ids) /\ IsInjective(output_delay_queue)
      /\ responses \in Seq(Ids) /\ IsInjective(responses)
  BY DEF CInv, TypeOK, Placement, OneInv
<1>a. \A s \in Seq(Ids) :
        IsInjective(s) => Cardinality(In(s)) = IF id \in ToSet(s) THEN 1 ELSE 0
  BY CountOnce
<1> HIDE DEF In
<1>2. /\ Cardinality(In(input_delay_queue["READ"])) = B("delay_read")
      /\ Cardinality(In(input_delay_queue["WRITE"])) = B("delay_write")
      /\ Cardinality(In(inbound_fifo["READ"])) = B("inbound_read")
      /\ Cardinality(In(inbound_fifo["WRITE"])) = B("inbound_write")
  BY <1>1, <1>a, AtValues DEF AtIs, Direction
<1>3. /\ Cardinality(In(out_fifo["pt"])) = B("pt")
      /\ Cardinality(In(out_fifo["msipt"])) = B("msipt")
      /\ Cardinality(In(out_fifo["fault"])) = B("fault")
  BY <1>1, <1>a, AtValues DEF AtIs, Exits
<1>4. /\ Cardinality(In(output_delay_queue)) = B("output")
      /\ Cardinality(In(responses)) = B("answered")
  BY <1>1, <1>a, AtValues DEF AtIs
<1>5. /\ id = parser_task <=> id \in At["parser"]
      /\ id \in translating <=> id \in At["translating"]
      /\ Ready(id) <=> id \in At["ready"]
      /\ id \in Unlaunched <=> id \in At["unlaunched"]
  <2>1. id # NoTask  BY DEF Ids, NoTask, CInv, TypeOK
  <2>2. reorder_buf \in [DOMAIN reorder_buf -> BOOLEAN]  BY DEF CInv, TypeOK
  <2> QED BY <2>1, <2>2, AtValues DEF AtIs, Ready
<1>6. PICK pl \in PlaceNames : id \in At[pl]  BY DEF OneInv
<1>7. \A q \in PlaceNames : q # pl => id \notin At[q]
  BY <1>6 DEF OneInv, Apart
<1>8. Places(id) = B("delay_read") + B("delay_write") + B("inbound_read") + B("inbound_write")
                   + (IF id \in At["parser"] \/ id \in At["translating"] THEN 1 ELSE 0)
                   + B("pt") + B("msipt") + B("fault") + B("ready") + B("unlaunched")
                   + B("output") + B("answered")
  BY <1>2, <1>3, <1>4, <1>5 DEF Places, In
<1> QED BY <1>6, <1>7, <1>8 DEF PlaceNames

\* Every admitted task is in one place of the path, once, whatever the limits,
\* the depths and the number of ports, devices and write queues: none is
\* answered or freed twice, and none is lost.
THEOREM OnePlace == Spec => []OnePlaceEach
<1>1. CInv /\ OneInv => OnePlaceEach  BY PlacesAreOne
<1> QED BY <1>1, OneInvAlways, PTL

-----------------------------------------------------------------------------
(* The order of the writes of a queue.  A set of tasks is closed when it    *)
(* holds, with a write, the earlier writes of its queue; a list is ordered  *)
(* when it has the writes of a queue in the order of their ids.             *)

SameQ(t, a, b) == /\ t[a].dir = "WRITE" /\ t[b].dir = "WRITE"
                  /\ QueueOf[t[a].dev] = QueueOf[t[b].dev]
Closed(t, X) == \A b \in X, a \in DOMAIN t : a < b /\ SameQ(t, a, b) => a \in X
Ordered(t, s) == \A i, j \in DOMAIN s : i < j /\ SameQ(t, s[i], s[j]) => s[i] < s[j]

\* The tasks that have come to a point of the path or beyond it.
Out == ToSet(responses) \union ToSet(output_delay_queue)
Collected == Out \union Unlaunched
Registered == Collected \union DOMAIN reorder_buf
Received == Registered \union ToSet(inbound_fifo["WRITE"])

Increasing(s) == \A i, j \in DOMAIN s : i < j => s[i] < s[j]
RegisteredWrites(q) == {id \in DOMAIN reorder_buf : IsWrite(id) /\ WriteQueue(id) = q}

\* At every point of the path a write has behind it none of the earlier writes
\* of its queue, and the lists between the points keep their order.
OrderInv ==
  /\ Closed(task, ToSet(responses)) /\ Closed(task, Out) /\ Closed(task, Collected)
  /\ Closed(task, Registered) /\ Closed(task, Received)
  /\ Ordered(task, input_delay_queue["WRITE"]) /\ Ordered(task, inbound_fifo["WRITE"])
  /\ Ordered(task, to_send) /\ Ordered(task, output_delay_queue)
  /\ \A q \in Queues : /\ Increasing(reorder_write_order[q])
                       /\ ToSet(reorder_write_order[q]) = RegisteredWrites(q)

\* What is taken off the front of an ordered list may join a closed set that
\* the list makes a larger closed one of.
LEMMA ClosedHead ==
  ASSUME NEW t \in Seq(Request), NEW s \in Seq(DOMAIN t), s # << >>, Ordered(t, s),
         NEW X, Closed(t, X), Closed(t, X \union ToSet(s))
  PROVE  Closed(t, X \union {Head(s)})
<1> SUFFICES ASSUME NEW a \in DOMAIN t, a < Head(s), SameQ(t, a, Head(s)), a \notin X
             PROVE  FALSE
  BY DEF Closed
<1>1. /\ DOMAIN s = 1 .. Len(s) /\ Len(s) \in Nat \ {0} /\ Head(s) = s[1]
      /\ \A i \in DOMAIN s : s[i] \in Nat
      /\ DOMAIN t \subseteq Nat
  OBVIOUS
<1>2. Head(s) \in ToSet(s)
  <2>1. 1 \in DOMAIN s  BY <1>1
  <2> QED BY <1>1, <2>1 DEF ToSet
<1>3. a \in ToSet(s)  BY <1>2 DEF Closed
<1>4. PICK i \in DOMAIN s : s[i] = a  BY <1>3 DEF ToSet
<1>5. i # 1  BY <1>1, <1>4
<1>6. SameQ(t, s[1], s[i]) /\ 1 \in DOMAIN s /\ 1 < i  BY <1>1, <1>4, <1>5 DEF SameQ
<1>7. s[1] < s[i]  BY <1>6 DEF Ordered
<1> QED BY <1>1, <1>4, <1>7

\* A read may join any closed set.
LEMMA ClosedRead ==
  ASSUME NEW t, NEW X, Closed(t, X), NEW id, t[id].dir # "WRITE"
  PROVE  Closed(t, X \union {id})
BY DEF Closed, SameQ

\* A task that is not in a closed set may join the end of an ordered list of
\* members of that set.
LEMMA OrderedAppend ==
  ASSUME NEW t \in Seq(Request), NEW s \in Seq(DOMAIN t), Ordered(t, s),
         NEW X, Closed(t, X), ToSet(s) \subseteq X, NEW id \in DOMAIN t, id \notin X
  PROVE  Ordered(t, Append(s, id))
<1> DEFINE u == Append(s, id)
<1>1. /\ DOMAIN s = 1 .. Len(s) /\ DOMAIN u = 1 .. (Len(s) + 1) /\ Len(s) \in Nat
      /\ \A i \in 1 .. Len(s) : u[i] = s[i] /\ s[i] \in DOMAIN t
      /\ u[Len(s) + 1] = id /\ DOMAIN t \subseteq Nat
  OBVIOUS
<1> HIDE DEF u
<1> SUFFICES ASSUME NEW i \in DOMAIN u, NEW j \in DOMAIN u, i < j, SameQ(t, u[i], u[j])
             PROVE  u[i] < u[j]
  BY DEF Ordered, u
<1>2. CASE j = Len(s) + 1
  <2>1. i \in DOMAIN s /\ u[i] = s[i] /\ u[j] = id  BY <1>1, <1>2
  <2>2. s[i] \in X  BY <2>1 DEF ToSet
  <2>3. SameQ(t, id, s[i])  BY <2>1 DEF SameQ
  <2>4. ~(id < s[i])  BY <1>1, <2>1, <2>2, <2>3 DEF Closed
  <2> QED BY <1>1, <2>1, <2>2, <2>4
<1>3. CASE j # Len(s) + 1
  <2>1. i \in DOMAIN s /\ j \in DOMAIN s /\ u[i] = s[i] /\ u[j] = s[j]  BY <1>1, <1>3
  <2> QED BY <2>1 DEF Ordered
<1> QED BY <1>2, <1>3

LEMMA OrderedTail ==
  ASSUME NEW S, NEW t, NEW s \in Seq(S), s # << >>, Ordered(t, s)
  PROVE  Ordered(t, Tail(s))
<1> DEFINE u == Tail(s)
<1>1. /\ DOMAIN s = 1 .. Len(s) /\ DOMAIN u = 1 .. (Len(s) - 1) /\ Len(s) \in Nat \ {0}
      /\ \A i \in 1 .. (Len(s) - 1) : u[i] = s[i + 1]
  OBVIOUS
<1> HIDE DEF u
<1> SUFFICES ASSUME NEW i \in DOMAIN u, NEW j \in DOMAIN u, i < j, SameQ(t, u[i], u[j])
             PROVE  u[i] < u[j]
  BY DEF Ordered, u
<1>2. i + 1 \in DOMAIN s /\ j + 1 \in DOMAIN s /\ i + 1 < j + 1 /\ u[i] = s[i + 1] /\ u[j] = s[j + 1]
  BY <1>1
<1> QED BY <1>2 DEF Ordered

\* A queue's ready prefix is an initial segment of it.
LEMMA PrefixIsSegment ==
  ASSUME TypeOK, NEW q \in Queues
  PROVE  /\ Cardinality(ReadyPrefix(q)) \in 0 .. Len(reorder_write_order[q])
         /\ ReadyPrefix(q) = 1 .. Cardinality(ReadyPrefix(q))
<1> DEFINE w == reorder_write_order[q]
           P == ReadyPrefix(q)
           c == Cardinality(P)
<1>1. Len(w) \in Nat /\ DOMAIN w = 1 .. Len(w)  BY DEF TypeOK
<1>2. P \subseteq 1 .. Len(w) /\ \A i \in P : 1 .. i \subseteq P
  <2>1. P \subseteq 1 .. Len(w)  BY <1>1 DEF ReadyPrefix
  <2>2. ASSUME NEW i \in P, NEW j \in 1 .. i PROVE j \in P
    <3>1. i \in 1 .. Len(w) /\ \A k \in 1 .. i : Ready(w[k])  BY <2>1 DEF ReadyPrefix
    <3>2. j \in 1 .. Len(w) /\ \A k \in 1 .. j : k \in 1 .. i  BY <3>1, <1>1
    <3> QED BY <1>1, <3>1, <3>2 DEF ReadyPrefix
  <2> QED BY <2>1, <2>2
<1> HIDE DEF P
<1>3. IsFiniteSet(P) /\ c \in Nat /\ c <= Len(w)
  <2>1. IsFiniteSet(1 .. Len(w)) /\ Cardinality(1 .. Len(w)) = Len(w)  BY <1>1, FS_Interval
  <2>2. P \in SUBSET (1 .. Len(w))  BY <1>2
  <2> QED BY <2>1, <2>2, FS_Subset, FS_CardinalityType
<1>4. P \subseteq 1 .. c
  <2> SUFFICES ASSUME NEW i \in P PROVE i <= c
    BY <1>1, <1>2
  <2>1. i \in Nat \ {0}  BY <1>1, <1>2
  <2>2. Cardinality(1 .. i) = i  BY <2>1, FS_Interval
  <2>3. Cardinality(1 .. i) <= c
    <3>1. 1 .. i \in SUBSET P  BY <1>2
    <3> QED BY <1>3, <3>1, FS_Subset
  <2> QED BY <2>2, <2>3
<1>5. IsFiniteSet(1 .. c) /\ Cardinality(1 .. c) = c  BY <1>3, FS_Interval
<1>6. P = 1 .. c
  <2>1. P \in SUBSET (1 .. c)  BY <1>4
  <2> QED BY <1>5, <2>1, FS_Subset
<1> QED BY <1>1, <1>3, <1>6 DEF P

LEMMA PointPlaces ==
  ASSUME OneInv
  PROVE  /\ ToSet(responses) = At["answered"]
         /\ Out = At["answered"] \union At["output"]
         /\ Collected = Out \union At["unlaunched"]
         /\ Registered = Collected \union At["parser"] \union At["translating"] \union At["pt"]
                         \union At["msipt"] \union At["fault"] \union At["ready"]
         /\ Received = Registered \union At["inbound_write"]
BY AtValues DEF AtIs, Out, Collected, Registered, Received, OneInv

LEMMA WritesReceived ==
  ASSUME CInv, OneInv, NEW id \in Ids, IsWrite(id)
  PROVE  id \in Received \union ToSet(input_delay_queue["WRITE"])
<1>1. PICK pl \in PlaceNames : id \in At[pl]  BY DEF OneInv
<1>2. pl \notin {"delay_read", "inbound_read"}
  <2>1. "READ" \in Direction  BY DEF Direction
  <2>2. \A i \in AtInput("READ") : task[i].dir = "READ"  BY <2>1 DEF CInv, Placement
  <2>3. At["delay_read"] \subseteq AtInput("READ") /\ At["inbound_read"] \subseteq AtInput("READ")
    BY AtValues DEF AtIs, AtInput
  <2> QED BY <1>1, <2>2, <2>3 DEF IsWrite
<1>3. At["delay_write"] = ToSet(input_delay_queue["WRITE"])  BY AtValues DEF AtIs
<1> QED BY <1>1, <1>2, <1>3, PointPlaces DEF PlaceNames

\* The steps that pass no point of the path.
LEMMA StillOrder ==
  ASSUME OrderInv, DOMAIN reorder_buf' = DOMAIN reorder_buf, Unlaunched' = Unlaunched,
         UNCHANGED <<task, reorder_write_order, to_send, output_delay_queue, responses>>,
         input_delay_queue'["WRITE"] = input_delay_queue["WRITE"],
         inbound_fifo'["WRITE"] = inbound_fifo["WRITE"]
  PROVE  OrderInv'
<1>1. Out' = Out /\ Collected' = Collected /\ Registered' = Registered /\ Received' = Received
  BY DEF Out, Collected, Registered, Received
<1>2. \A q \in Queues : RegisteredWrites(q)' = RegisteredWrites(q)
  BY DEF RegisteredWrites, IsWrite, WriteQueue
<1> QED BY <1>1, <1>2 DEF OrderInv

LEMMA OrderTypes ==
  ASSUME CInv
  PROVE  /\ task \in Seq(Request) /\ Ids = DOMAIN task /\ Ids \subseteq Nat
         /\ input_delay_queue["WRITE"] \in Seq(Ids) /\ inbound_fifo["WRITE"] \in Seq(Ids)
         /\ to_send \in Seq(Ids) /\ output_delay_queue \in Seq(Ids) /\ responses \in Seq(Ids)
         /\ \A q \in Queues : reorder_write_order[q] \in Seq(Ids)
BY DEF CInv, TypeOK, Ids, Direction

\* A new task comes after all others.
LEMMA AdmitOrder ==
  ASSUME CInv, CInv', OneInv, OrderInv, NEW p \in Ports, Admit(p)
  PROVE  OrderInv'
<1> DEFINE id == Len(task) + 1
           d == port[p].req.dir
<1>1. /\ UNCHANGED <<inbound_fifo, reorder_buf, reorder_write_order,
                     sender, to_send, output_delay_queue, responses>>
      /\ input_delay_queue' = [input_delay_queue EXCEPT ![d] = Append(@, id)]
      /\ input_delay_queue \in [Direction -> Seq(Ids)]
      /\ task' = Append(task, port[p].req) /\ task \in Seq(Request)
      /\ d \in Direction
  BY DEF Admit, CInv, TypeOK, xlateVars, reorderVars, outputVars, Request
<1>2. /\ DOMAIN task' = Ids \union {id} /\ id \notin Ids /\ Ids = 1 .. Len(task) /\ id \in Nat
      /\ \A i \in Ids : task'[i] = task[i] /\ i < id
      /\ Len(task) \in Nat
  BY <1>1 DEF Ids
<1> HIDE DEF id
<1>3. ASSUME NEW X, X \subseteq Ids, Closed(task, X) PROVE Closed(task', X)
  BY <1>2, <1>3 DEF Closed, SameQ, Ids
<1>4. ASSUME NEW s \in Seq(Ids), Ordered(task, s) PROVE Ordered(task', s)
  <2>1. \A i \in DOMAIN s : s[i] \in Ids  OBVIOUS
  <2> QED BY <1>2, <1>4, <2>1 DEF Ordered, SameQ
<1>5. Out' = Out /\ Collected' = Collected /\ Registered' = Registered /\ Received' = Received
  <2>1. Unlaunched' = Unlaunched  BY <1>1 DEF Unlaunched
  <2> QED BY <1>1, <2>1 DEF Out, Collected, Registered, Received
<1>6. /\ ToSet(responses) \subseteq Ids /\ Out \subseteq Ids /\ Collected \subseteq Ids
      /\ Registered \subseteq Ids /\ Received \subseteq Ids
  <2>1. \A pl \in PlaceNames : At[pl] \subseteq Ids  BY AtIsIds DEF CInv
  <2> QED BY <2>1, PointPlaces DEF PlaceNames
<1>7. /\ Closed(task', ToSet(responses)) /\ Closed(task', Out) /\ Closed(task', Collected)
      /\ Closed(task', Registered) /\ Closed(task', Received)
  BY <1>3, <1>6 DEF OrderInv
<1>8. /\ Ordered(task', inbound_fifo["WRITE"]) /\ Ordered(task', to_send)
      /\ Ordered(task', output_delay_queue) /\ Ordered(task', input_delay_queue["WRITE"])
  BY <1>4, OrderTypes DEF OrderInv
<1>9. Ordered(task', input_delay_queue'["WRITE"])
  <2>1. CASE d # "WRITE"
    <3>1. input_delay_queue'["WRITE"] = input_delay_queue["WRITE"]  BY <1>1, <2>1 DEF Direction
    <3> QED BY <1>8, <3>1
  <2>2. CASE d = "WRITE"
    <3> DEFINE s == input_delay_queue["WRITE"]
               u == Append(s, id)
    <3>1. /\ s \in Seq(Ids) /\ input_delay_queue'["WRITE"] = u
      BY <1>1, <2>2 DEF Direction
    <3>2. /\ DOMAIN s = 1 .. Len(s) /\ DOMAIN u = 1 .. (Len(s) + 1) /\ Len(s) \in Nat
          /\ \A i \in 1 .. Len(s) : u[i] = s[i] /\ s[i] \in Ids
          /\ u[Len(s) + 1] = id
      BY <3>1
    <3> HIDE DEF s, u
    <3>3. ASSUME NEW i \in DOMAIN u, NEW j \in DOMAIN u, i < j, SameQ(task', u[i], u[j])
          PROVE  u[i] < u[j]
      <4>1. CASE j = Len(s) + 1
        <5>1. i \in 1 .. Len(s)  BY <3>2, <3>3, <4>1
        <5> QED BY <1>2, <3>2, <4>1, <5>1
      <4>2. CASE j # Len(s) + 1
        <5>1. i \in DOMAIN s /\ j \in DOMAIN s /\ u[i] = s[i] /\ u[j] = s[j]
          BY <3>2, <3>3, <4>2
        <5> QED BY <1>8, <3>3, <5>1 DEF Ordered, s
      <4> QED BY <4>1, <4>2
    <3> QED BY <3>1, <3>3 DEF Ordered
  <2> QED BY <2>1, <2>2
<1>10. \A q \in Queues : RegisteredWrites(q)' = RegisteredWrites(q)
  <2>1. DOMAIN reorder_buf \subseteq Ids  BY DEF CInv, TypeOK
  <2> QED BY <1>1, <1>2, <2>1 DEF RegisteredWrites, IsWrite, WriteQueue
<1>11. \A q \in Queues : /\ Increasing(reorder_write_order'[q])
                        /\ ToSet(reorder_write_order'[q]) = RegisteredWrites(q)'
  BY <1>1, <1>10 DEF OrderInv
<1> QED BY <1>1, <1>5, <1>7, <1>8, <1>9, <1>11 DEF OrderInv

LEMMA InputOrder ==
  ASSUME CInv, OneInv, OrderInv, NEW dir \in Direction, InputDelayLine(dir)
  PROVE  OrderInv'
<1> DEFINE s == input_delay_queue["WRITE"]
           id == Head(s)
<1>1. /\ UNCHANGED <<task, reorder_buf, reorder_write_order,
                     sender, to_send, output_delay_queue, responses>>
      /\ input_delay_queue' = [input_delay_queue EXCEPT ![dir] = Tail(@)]
      /\ inbound_fifo' = [inbound_fifo EXCEPT ![dir] = Append(@, Head(input_delay_queue[dir]))]
      /\ input_delay_queue \in [Direction -> Seq(Ids)]
      /\ inbound_fifo \in [Direction -> Seq(Ids)] /\ input_delay_queue[dir] # << >>
  BY DEF InputDelayLine, CInv, TypeOK, portVars, reorderVars, outputVars
<1>2. Unlaunched' = Unlaunched  BY <1>1 DEF Unlaunched
<1>3. CASE dir # "WRITE"
  BY <1>1, <1>2, <1>3, StillOrder DEF Direction
<1>4. CASE dir = "WRITE"
  <2>1. /\ s # << >> /\ s \in Seq(Ids) /\ inbound_fifo["WRITE"] \in Seq(Ids)
        /\ input_delay_queue'["WRITE"] = Tail(s)
        /\ inbound_fifo'["WRITE"] = Append(inbound_fifo["WRITE"], id)
    BY <1>1, <1>4 DEF Direction
  <2>2. /\ task \in Seq(Request) /\ Ids = DOMAIN task
        /\ id \in Ids /\ id \in ToSet(s)
    BY <2>1, OrderTypes, TailSet
  <2>3. Closed(task, Received \union ToSet(s))
    BY WritesReceived, OrderTypes DEF Closed, SameQ, IsWrite, Ids
  <2>4. Closed(task, Received \union {id})
    BY <2>1, <2>2, <2>3, ClosedHead DEF OrderInv
  <2>5. Out' = Out /\ Collected' = Collected /\ Registered' = Registered
    BY <1>1, <1>2 DEF Out, Collected, Registered
  <2>6. Received' = Received \union {id}
    <3>1. ToSet(inbound_fifo'["WRITE"]) = ToSet(inbound_fifo["WRITE"]) \union {id}
      BY <2>1, <2>2, AppendSet
    <3> QED BY <2>5, <3>1 DEF Received
  <2>7. id \notin Received
    <3>1. id \in At["delay_write"]  BY <2>2, AtValues DEF AtIs
    <3>2. \A pl \in PlaceNames \ {"delay_write"} : id \notin At[pl]
      BY <3>1 DEF OneInv, Apart, PlaceNames
    <3> QED BY <3>2, PointPlaces DEF PlaceNames
  <2>8. Ordered(task, inbound_fifo'["WRITE"])
    <3>1. ToSet(inbound_fifo["WRITE"]) \subseteq Received /\ Closed(task, Received)
      BY DEF Received, OrderInv
    <3> QED BY <2>1, <2>2, <2>7, <3>1, OrderedAppend DEF OrderInv
  <2>9. Ordered(task, input_delay_queue'["WRITE"])
    BY <2>1, OrderedTail DEF OrderInv
  <2>10. \A q \in Queues : RegisteredWrites(q)' = RegisteredWrites(q)
    BY <1>1 DEF RegisteredWrites, IsWrite, WriteQueue
  <2> QED BY <1>1, <2>4, <2>5, <2>6, <2>8, <2>9, <2>10 DEF OrderInv
<1> QED BY <1>3, <1>4

LEMMA ParserPopOrder ==
  ASSUME CInv, OneInv, OrderInv, ParserPop
  PROVE  OrderInv'
<1>1. PICK dir \in Direction :
        /\ inbound_fifo[dir] # << >>
        /\ inbound_fifo' = [inbound_fifo EXCEPT ![dir] = Tail(@)]
        /\ RegisterTask(Head(inbound_fifo[dir]))
  BY DEF ParserPop, Opposite, Direction
<1>a. PICK id : id = Head(inbound_fifo[dir])  OBVIOUS
<1> DEFINE s == inbound_fifo["WRITE"]
<1>2. /\ UNCHANGED <<task, input_delay_queue, sender, to_send, output_delay_queue, responses>>
      /\ inbound_fifo \in [Direction -> Seq(Ids)]
      /\ DOMAIN reorder_buf' = DOMAIN reorder_buf \union {id}
      /\ reorder_write_order' =
           IF IsWrite(id) THEN [reorder_write_order EXCEPT ![WriteQueue(id)] = Append(@, id)]
                          ELSE reorder_write_order
      /\ reorder_write_order \in [Queues -> Seq(Ids)]
  BY <1>1, <1>a DEF ParserPop, RegisterTask, CInv, TypeOK, portVars, outputVars
<1>3. /\ id \in Ids /\ id \in ToSet(inbound_fifo[dir])
      /\ task \in Seq(Request) /\ Ids = DOMAIN task /\ Ids \subseteq Nat
  BY <1>1, <1>2, <1>a, TailSet, OrderTypes
<1>4. id \in AtInput(dir) /\ task[id].dir = dir /\ id \in At[InboundOf(dir)]
  BY <1>3, AtDirection DEF AtInput, CInv, Placement
<1>5. id \notin Registered
  <2>1. \A pl \in PlaceNames \ {"inbound_read", "inbound_write"} : id \notin At[pl]
    BY <1>4, AtDirection DEF OneInv, Apart, PlaceNames
  <2> QED BY <2>1, PointPlaces DEF PlaceNames
<1>6. Out' = Out /\ Collected' = Collected /\ Registered' = Registered \union {id}
  <2>1. Unlaunched' = Unlaunched  BY <1>2 DEF Unlaunched
  <2> QED BY <1>2, <2>1 DEF Out, Collected, Registered
<1>7. /\ Closed(task, Registered \union {id}) /\ Closed(task, Received')
      /\ Ordered(task, inbound_fifo'["WRITE"])
  <2>1. CASE dir # "WRITE"
    <3>1. task[id].dir # "WRITE"  BY <1>4, <2>1
    <3>2. inbound_fifo'["WRITE"] = s  BY <1>1, <1>2, <2>1 DEF Direction
    <3>3. Received' = Received \union {id}  BY <1>6, <3>2 DEF Received
    <3> QED BY <3>1, <3>2, <3>3, ClosedRead DEF OrderInv
  <2>2. CASE dir = "WRITE"
    <3>1. /\ s # << >> /\ s \in Seq(Ids) /\ id = Head(s)
          /\ inbound_fifo'["WRITE"] = Tail(s)
      BY <1>1, <1>2, <1>a, <2>2 DEF Direction
    <3>2. Closed(task, Registered \union ToSet(s))  BY DEF OrderInv, Received
    <3>3. Closed(task, Registered \union {id})
      BY <1>3, <3>1, <3>2, ClosedHead DEF OrderInv
    <3>4. Received' = Received
      <4>1. ToSet(s) = {id} \union ToSet(Tail(s))  BY <3>1, TailSet
      <4> QED BY <1>6, <3>1, <4>1 DEF Received
    <3> QED BY <3>1, <3>3, <3>4, OrderedTail DEF OrderInv
  <2> QED BY <2>1, <2>2
<1>8. ASSUME NEW q \in Queues
      PROVE  /\ Increasing(reorder_write_order'[q])
             /\ ToSet(reorder_write_order'[q]) = RegisteredWrites(q)'
  <2> DEFINE w == reorder_write_order[q]
             u == Append(w, id)
  <2>1. w \in Seq(Ids) /\ Increasing(w) /\ ToSet(w) = RegisteredWrites(q)
    BY <1>2 DEF OrderInv
  <2>2. RegisteredWrites(q)' = IF IsWrite(id) /\ WriteQueue(id) = q
                               THEN RegisteredWrites(q) \union {id} ELSE RegisteredWrites(q)
    BY <1>2 DEF RegisteredWrites, IsWrite, WriteQueue
  <2>3. CASE ~(IsWrite(id) /\ WriteQueue(id) = q)
    <3>1. reorder_write_order'[q] = w
      <4>1. IsWrite(id) => WriteQueue(id) \in Queues
        BY <1>3, RequestOfTask DEF CInv
      <4> QED BY <1>2, <2>3, <4>1
    <3> QED BY <2>1, <2>2, <2>3, <3>1
  <2>4. CASE IsWrite(id) /\ WriteQueue(id) = q
    <3>1. reorder_write_order'[q] = u  BY <1>2, <2>4
    <3>2. ToSet(u) = ToSet(w) \union {id}  BY <1>3, <2>1, AppendSet
    <3>3. \A i \in DOMAIN w : w[i] < id
      <4> SUFFICES ASSUME NEW i \in DOMAIN w, ~(w[i] < id) PROVE FALSE
        OBVIOUS
      <4>1. w[i] \in RegisteredWrites(q)  BY <2>1 DEF ToSet
      <4>2. w[i] \in Registered /\ SameQ(task, id, w[i]) /\ w[i] \in Ids
        BY <2>1, <2>4, <4>1 DEF RegisteredWrites, Registered, SameQ, IsWrite, WriteQueue
      <4>3. id < w[i]  BY <1>3, <1>5, <4>2
      <4> QED BY <1>3, <1>5, <4>2, <4>3 DEF OrderInv, Closed
    <3>4. Increasing(u)
      <4>1. /\ DOMAIN w = 1 .. Len(w) /\ DOMAIN u = 1 .. (Len(w) + 1) /\ Len(w) \in Nat
            /\ \A i \in 1 .. Len(w) : u[i] = w[i]
            /\ u[Len(w) + 1] = id
        BY <2>1
      <4> HIDE DEF u
      <4> SUFFICES ASSUME NEW i \in DOMAIN u, NEW j \in DOMAIN u, i < j PROVE u[i] < u[j]
        BY DEF Increasing
      <4>2. i \in DOMAIN w /\ u[i] = w[i]  BY <4>1
      <4>3. CASE j = Len(w) + 1  BY <3>3, <4>1, <4>2, <4>3
      <4>4. CASE j # Len(w) + 1
        <5>1. j \in DOMAIN w /\ u[j] = w[j]  BY <4>1, <4>4
        <5> QED BY <2>1, <4>2, <5>1 DEF Increasing
      <4> QED BY <4>3, <4>4
    <3> QED BY <2>1, <2>2, <2>4, <3>1, <3>2, <3>4
  <2> QED BY <2>3, <2>4
<1> QED BY <1>2, <1>6, <1>7, <1>8 DEF OrderInv

\* What is collected of a write queue is a prefix of it, so no collected write
\* has an earlier one of its queue behind it.
LEMMA CollectOrder ==
  ASSUME CInv, OneInv, OrderInv, Collect
  PROVE  OrderInv'
<1>1. PICK s \in [1 .. Cardinality(Batch) -> Batch] :
        /\ ToSet(s) = Batch
        /\ \A i, j \in DOMAIN s : i < j => SentBefore(s[i], s[j])
        /\ to_send' = s
  BY DEF Collect
<1>2. /\ UNCHANGED <<task, input_delay_queue, inbound_fifo, output_delay_queue, responses>>
      /\ DOMAIN reorder_buf' = DOMAIN reorder_buf \ Batch
      /\ Batch \subseteq DOMAIN reorder_buf /\ Batch \subseteq Ids
      /\ reorder_write_order' = [q \in Queues |->
           SubSeq(reorder_write_order[q], Cardinality(ReadyPrefix(q)) + 1,
                  Len(reorder_write_order[q]))]
      /\ to_send = << >> /\ sender # "bandwidth" /\ sender' # "bandwidth"
  BY BatchFinite DEF Collect, Erased, CInv, TypeOK, portVars, inputVars, outputVars
<1>3. /\ task \in Seq(Request) /\ Ids = DOMAIN task /\ Ids \subseteq Nat
  BY OrderTypes
<1>4. /\ Out' = Out /\ Collected = Out /\ Collected' = Out \union Batch
      /\ Registered' = Registered /\ Received' = Received
  <2>1. Unlaunched = {} /\ Unlaunched' = Batch
    BY <1>1, <1>2 DEF Unlaunched, ToSet
  <2>2. Out' = Out /\ Collected = Out /\ Collected' = Out \union Batch
    BY <1>2, <2>1 DEF Out, Collected
  <2>3. Registered' = Registered  BY <1>2, <2>2 DEF Registered
  <2> QED BY <1>2, <2>2, <2>3 DEF Received
<1>5. ASSUME NEW q \in Queues
      PROVE  /\ ReadyPrefix(q) = 1 .. Cardinality(ReadyPrefix(q))
             /\ Cardinality(ReadyPrefix(q)) \in 0 .. Len(reorder_write_order[q])
             /\ reorder_write_order[q] \in Seq(Ids)
             /\ Increasing(reorder_write_order[q])
             /\ ToSet(reorder_write_order[q]) = RegisteredWrites(q)
  BY PrefixIsSegment, OrderTypes DEF CInv, OrderInv
<1>6. ASSUME NEW a \in Batch, IsWrite(a)
      PROVE  /\ WriteQueue(a) \in Queues
             /\ \E i \in ReadyPrefix(WriteQueue(a)) : reorder_write_order[WriteQueue(a)][i] = a
  <2>1. PICK q \in Queues : a \in ReadyWrites(q)  BY <1>6 DEF Batch, ReadyReads
  <2>2. PICK i \in ReadyPrefix(q) : reorder_write_order[q][i] = a  BY <2>1 DEF ReadyWrites
  <2>3. i \in DOMAIN reorder_write_order[q]  BY <2>2 DEF ReadyPrefix
  <2>4. a \in RegisteredWrites(q)  BY <1>5, <2>2, <2>3 DEF ToSet
  <2> QED BY <2>2, <2>4 DEF RegisteredWrites
<1>7. Ordered(task, to_send')
  <2> SUFFICES ASSUME NEW i \in DOMAIN s, NEW j \in DOMAIN s, i < j, SameQ(task, s[i], s[j])
               PROVE  s[i] < s[j]
    BY <1>1 DEF Ordered
  <2>1. /\ IsWrite(s[i]) /\ IsWrite(s[j]) /\ WriteQueue(s[i]) = WriteQueue(s[j])
        /\ s[i] \in Batch /\ SentBefore(s[i], s[j])
    BY <1>1 DEF SameQ, IsWrite, WriteQueue
  <2>2. WriteQueue(s[i]) \in Nat  BY <1>6, <2>1, QueueAssumption
  <2>3. PICK m, n \in DOMAIN reorder_write_order[WriteQueue(s[i])] :
          /\ m < n
          /\ reorder_write_order[WriteQueue(s[i])][m] = s[i]
          /\ reorder_write_order[WriteQueue(s[i])][n] = s[j]
    BY <2>1, <2>2 DEF SentBefore
  <2> QED BY <1>5, <1>6, <2>1, <2>3 DEF Increasing
<1>8. Closed(task, Out \union Batch)
  <2> SUFFICES ASSUME NEW b \in Batch, NEW a \in DOMAIN task, a < b, SameQ(task, a, b),
                      a \notin Out
               PROVE  a \in Batch
    BY <1>4 DEF OrderInv, Closed
  <2> DEFINE q == WriteQueue(b)
             w == reorder_write_order[q]
  <2>1. /\ IsWrite(a) /\ IsWrite(b) /\ WriteQueue(a) = q
    BY DEF SameQ, IsWrite, WriteQueue
  <2>2. q \in Queues  BY <1>6, <2>1
  <2>3. PICK j \in ReadyPrefix(q) : w[j] = b  BY <1>6, <2>1
  <2>4. a \in DOMAIN reorder_buf
    <3>1. b \in Registered  BY <1>2 DEF Registered
    <3>2. a \in Registered  BY <3>1 DEF OrderInv, Closed
    <3> QED BY <1>4, <3>2 DEF Registered
  <2>5. a \in ToSet(w)  BY <1>5, <2>1, <2>2, <2>4 DEF RegisteredWrites
  <2>6. PICK i \in DOMAIN w : w[i] = a  BY <2>5 DEF ToSet
  <2>7. /\ i \in Nat \ {0} /\ j \in Nat /\ j \in DOMAIN w /\ w \in Seq(Ids)
        /\ j \in 1 .. Cardinality(ReadyPrefix(q)) /\ DOMAIN w = 1 .. Len(w)
    <3>1. w \in Seq(Ids) /\ ReadyPrefix(q) = 1 .. Cardinality(ReadyPrefix(q))
      BY <1>5, <2>2
    <3>2. j \in DOMAIN w  BY <2>3 DEF ReadyPrefix
    <3>3. j \in 1 .. Cardinality(ReadyPrefix(q))  BY <2>3, <3>1
    <3>4. DOMAIN w = 1 .. Len(w) /\ Len(w) \in Nat  BY <3>1
    <3>5. i \in Nat \ {0} /\ j \in Nat  BY <2>6, <3>2, <3>4
    <3> QED BY <3>1, <3>2, <3>3, <3>4, <3>5
  <2>8. ~(j <= i)
    <3>1. CASE i = j  BY <1>3, <2>3, <2>6, <3>1
    <3>2. CASE j < i
      <4>1. w[j] < w[i]  BY <1>5, <2>2, <2>6, <2>7, <3>2 DEF Increasing
      <4> QED BY <1>2, <1>3, <2>3, <2>6, <4>1
    <3> QED BY <2>7, <3>1, <3>2
  <2>9. i \in ReadyPrefix(q)  BY <1>5, <2>2, <2>7, <2>8
  <2>10. a \in ReadyWrites(q)  BY <2>6, <2>9 DEF ReadyWrites
  <2> QED BY <2>2, <2>10 DEF Batch
<1>9. ASSUME NEW q \in Queues
      PROVE  /\ Increasing(reorder_write_order'[q])
             /\ ToSet(reorder_write_order'[q]) = RegisteredWrites(q)'
  <2> DEFINE w == reorder_write_order[q]
             n == Cardinality(ReadyPrefix(q))
             u == SubSeq(w, n + 1, Len(w))
  <2>1. /\ w \in Seq(Ids) /\ n \in 0 .. Len(w) /\ ReadyPrefix(q) = 1 .. n
        /\ reorder_write_order'[q] = u
    BY <1>2, <1>5
  <2> HIDE DEF n
  <2>2. /\ DOMAIN w = 1 .. Len(w) /\ Len(w) \in Nat
        /\ DOMAIN u = 1 .. (Len(w) - n)
        /\ \A i \in 1 .. (Len(w) - n) : u[i] = w[i + n]
    BY <2>1
  <2> HIDE DEF u
  <2>3. Increasing(u)
    <3> SUFFICES ASSUME NEW i \in DOMAIN u, NEW j \in DOMAIN u, i < j PROVE u[i] < u[j]
      BY DEF Increasing
    <3>1. i + n \in DOMAIN w /\ j + n \in DOMAIN w /\ i + n < j + n  BY <2>1, <2>2
    <3>2. w[i + n] < w[j + n]  BY <1>5, <3>1 DEF Increasing
    <3> QED BY <2>2, <3>2
  <2>4. RegisteredWrites(q)' = RegisteredWrites(q) \ Batch
    BY <1>2 DEF RegisteredWrites, IsWrite, WriteQueue
  <2>5. \A k \in DOMAIN w : w[k] \in Batch <=> k \in 1 .. n
    <3> TAKE k \in DOMAIN w
    <3>1. ASSUME k \in 1 .. n PROVE w[k] \in Batch
      <4>1. w[k] \in ReadyWrites(q)  BY <2>1, <3>1 DEF ReadyWrites
      <4> QED BY <4>1 DEF Batch
    <3>2. ASSUME w[k] \in Batch PROVE k \in 1 .. n
      <4>1. w[k] \in RegisteredWrites(q)  BY <1>5 DEF ToSet
      <4>2. IsWrite(w[k]) /\ WriteQueue(w[k]) = q  BY <4>1 DEF RegisteredWrites
      <4>3. PICK i \in ReadyPrefix(q) : w[i] = w[k]  BY <1>6, <3>2, <4>2
      <4>4. i \in DOMAIN w /\ w[i] \in Nat  BY <1>3, <2>1, <2>2, <4>3, SMTT(30)
      <4>5. i = k
        <5>1. ~(i < k) /\ ~(k < i)  BY <1>5, <4>3, <4>4 DEF Increasing
        <5> QED BY <2>2, <4>4, <5>1
      <4> QED BY <2>1, <4>3, <4>5
    <3> QED BY <3>1, <3>2
  <2>6. ToSet(u) = ToSet(w) \ Batch
    <3>1. ASSUME NEW i \in DOMAIN u PROVE u[i] \in ToSet(w) \ Batch
      <4>1. i + n \in DOMAIN w /\ i + n \notin 1 .. n /\ u[i] = w[i + n]  BY <2>1, <2>2
      <4> QED BY <2>5, <4>1 DEF ToSet
    <3>2. ASSUME NEW k \in DOMAIN w, w[k] \notin Batch PROVE w[k] \in ToSet(u)
      <4>1. k \notin 1 .. n  BY <2>5, <3>2
      <4>2. k - n \in DOMAIN u /\ u[k - n] = w[k]  BY <2>1, <2>2, <4>1
      <4> QED BY <4>2 DEF ToSet
    <3> QED BY <3>1, <3>2 DEF ToSet
  <2> QED BY <1>5, <2>1, <2>3, <2>4, <2>6
<1> QED BY <1>2, <1>4, <1>7, <1>8, <1>9 DEF OrderInv

LEMMA LaunchOrder ==
  ASSUME CInv, OneInv, OrderInv, Launch
  PROVE  OrderInv'
<1>a. PICK id : id = Head(to_send)  OBVIOUS
<1>1. /\ UNCHANGED <<task, input_delay_queue, inbound_fifo, reorder_buf, reorder_write_order,
                     to_send, responses>>
      /\ to_send \in Seq(Ids) /\ to_send # << >> /\ IsInjective(to_send)
      /\ output_delay_queue \in Seq(Ids)
      /\ output_delay_queue' = Append(output_delay_queue, id)
      /\ sender = "send" /\ sender' = "bandwidth"
  BY <1>a DEF Launch, CInv, TypeOK, Placement, portVars, inputVars
<1>2. /\ ToSet(to_send) = {id} \union ToSet(Tail(to_send)) /\ id \in Ids
      /\ task \in Seq(Request) /\ Ids = DOMAIN task
  BY <1>1, <1>a, TailSet, OrderTypes
<1>3. Unlaunched = ToSet(to_send) /\ Unlaunched' = ToSet(Tail(to_send))
  BY <1>1 DEF Unlaunched
<1>4. Out' = Out \union {id}
  <2>1. ToSet(output_delay_queue') = ToSet(output_delay_queue) \union {id}
    BY <1>1, <1>2, AppendSet
  <2> QED BY <1>1, <2>1 DEF Out
<1>5. Collected' = Collected /\ Registered' = Registered /\ Received' = Received
  <2>1. Collected' = Collected  BY <1>2, <1>3, <1>4 DEF Collected
  <2> QED BY <1>1, <2>1 DEF Registered, Received
<1>6. Closed(task, Out \union {id})
  <2>1. Closed(task, Out \union ToSet(to_send))  BY <1>3 DEF OrderInv, Collected
  <2> QED BY <1>1, <1>2, <1>a, <2>1, ClosedHead DEF OrderInv
<1>7. id \notin Out
  <2>1. id \in At["unlaunched"]  BY <1>2, <1>3, AtValues DEF AtIs
  <2>2. id \notin At["output"] /\ id \notin At["answered"]
    BY <2>1 DEF OneInv, Apart, PlaceNames
  <2> QED BY <2>2, PointPlaces
<1>8. Ordered(task, output_delay_queue')
  <2>1. ToSet(output_delay_queue) \subseteq Out  BY DEF Out
  <2> QED BY <1>1, <1>2, <1>7, <2>1, OrderedAppend DEF OrderInv
<1>9. \A q \in Queues : RegisteredWrites(q)' = RegisteredWrites(q)
  BY <1>1 DEF RegisteredWrites, IsWrite, WriteQueue
<1> QED BY <1>1, <1>4, <1>5, <1>6, <1>8, <1>9 DEF OrderInv

LEMMA ReleaseOrder ==
  ASSUME CInv, OneInv, OrderInv, Release
  PROVE  OrderInv'
<1>1. /\ UNCHANGED <<task, input_delay_queue, inbound_fifo, reorder_buf, reorder_write_order,
                     output_delay_queue, responses>>
      /\ to_send \in Seq(Ids) /\ to_send # << >> /\ to_send' = Tail(to_send)
      /\ Unlaunched' = Unlaunched
  BY DEF Release, CInv, TypeOK, inputVars, outputVars, Unlaunched
<1>2. Out' = Out /\ Collected' = Collected /\ Registered' = Registered /\ Received' = Received
  BY <1>1 DEF Out, Collected, Registered, Received
<1>3. Ordered(task, to_send')  BY <1>1, OrderedTail DEF OrderInv
<1>4. \A q \in Queues : RegisteredWrites(q)' = RegisteredWrites(q)
  BY <1>1 DEF RegisteredWrites, IsWrite, WriteQueue
<1> QED BY <1>1, <1>2, <1>3, <1>4 DEF OrderInv

\* What the step that answers a task finds and leaves.
LEMMA SendOrder ==
  ASSUME CInv, OneInv, OrderInv, SendResponse
  PROVE  /\ OrderInv'
         /\ \E id \in Ids : Abstract!Answer(id)
<1>a. PICK id : id = Head(output_delay_queue)  OBVIOUS
<1>1. /\ UNCHANGED <<task, input_delay_queue, inbound_fifo, reorder_buf, reorder_write_order,
                     to_send, sender>>
      /\ output_delay_queue \in Seq(Ids) /\ output_delay_queue # << >>
      /\ IsInjective(output_delay_queue)
      /\ output_delay_queue' = Tail(output_delay_queue)
      /\ responses \in Seq(Ids) /\ responses' = Append(responses, id)
  BY <1>a DEF SendResponse, CInv, TypeOK, OneInv, portVars, inputVars, reorderVars
<1>2. /\ ToSet(output_delay_queue) = {id} \union ToSet(Tail(output_delay_queue)) /\ id \in Ids
      /\ task \in Seq(Request) /\ Ids = DOMAIN task
  BY <1>1, <1>a, TailSet, OrderTypes
<1>3. ToSet(responses') = ToSet(responses) \union {id}
  BY <1>1, <1>2, AppendSet
<1>4. Out' = Out  BY <1>1, <1>2, <1>3 DEF Out
<1>5. Collected' = Collected /\ Registered' = Registered /\ Received' = Received
  <2>1. Unlaunched' = Unlaunched  BY <1>1 DEF Unlaunched
  <2> QED BY <1>1, <1>4, <2>1 DEF Collected, Registered, Received
<1>6. Closed(task, ToSet(responses) \union {id})
  <2>1. Closed(task, ToSet(responses) \union ToSet(output_delay_queue))  BY DEF OrderInv, Out
  <2> QED BY <1>1, <1>2, <1>a, <2>1, ClosedHead DEF OrderInv
<1>7. id \notin ToSet(responses)
  <2>1. id \in At["output"]  BY <1>2, AtValues DEF AtIs
  <2>2. id \notin At["answered"]  BY <2>1 DEF OneInv, Apart, PlaceNames
  <2> QED BY <2>2, PointPlaces
<1>8. Ordered(task, output_delay_queue')  BY <1>1, OrderedTail DEF OrderInv
<1>9. \A q \in Queues : RegisteredWrites(q)' = RegisteredWrites(q)
  BY <1>1 DEF RegisteredWrites, IsWrite, WriteQueue
<1>10. OrderInv'
  BY <1>1, <1>3, <1>4, <1>5, <1>6, <1>8, <1>9 DEF OrderInv
<1>11. \A b \in DOMAIN task : b < id /\ Abstract!SameQueueWrites(b, id) => b \in ToSet(responses)
  <2> TAKE b \in DOMAIN task
  <2>1. Abstract!SameQueueWrites(b, id) => SameQ(task, b, id)
    BY DEF Abstract!SameQueueWrites, SameQ
  <2>2. b < id => b # id  BY <1>2, OrderTypes
  <2>3. id \in ToSet(responses) \union {id}  OBVIOUS
  <2> QED BY <1>6, <2>1, <2>2, <2>3 DEF Closed
<1>12. Abstract!Answer(id)
  BY <1>1, <1>2, <1>3, <1>7, <1>11 DEF Abstract!Answer
<1> QED BY <1>2, <1>10, <1>12

LEMMA OrderInvStep ==
  ASSUME CInv, CInv', OneInv, OrderInv, [Next]_vars
  PROVE  OrderInv'
<1>1. ASSUME NEW p \in Ports, Gate(p) PROVE OrderInv'
  BY <1>1, StillOrder DEF Gate, inputVars, xlateVars, reorderVars, outputVars, Unlaunched
<1>2. ASSUME NEW p \in Ports, NEW req \in Request, Offer(p, req) PROVE OrderInv'
  BY <1>2, StillOrder DEF Offer, inputVars, xlateVars, reorderVars, outputVars, Unlaunched
<1>3. ASSUME NEW p \in Ports, Admit(p) PROVE OrderInv'  BY <1>3, AdmitOrder
<1>4. ASSUME NEW dir \in Direction, InputDelayLine(dir) PROVE OrderInv'  BY <1>4, InputOrder
<1>5. CASE ParserPop  BY <1>5, ParserPopOrder
<1>6. CASE ParserToCollector
  BY <1>6, StillOrder DEF ParserToCollector, portVars, reorderVars, outputVars, Unlaunched
<1>7. ASSUME NEW x \in Exits, ParserToExit(x) PROVE OrderInv'
  BY <1>7, StillOrder DEF ParserToExit, portVars, reorderVars, outputVars, Unlaunched
<1>8. ASSUME NEW id \in translating, NEW x \in Exits, TranslationDone(id, x) PROVE OrderInv'
  BY <1>8, StillOrder
     DEF TranslationDone, portVars, inputVars, reorderVars, outputVars, Unlaunched
<1>9. ASSUME NEW x \in Exits, ExitThread(x) PROVE OrderInv'
  <2>1. DOMAIN reorder_buf' = DOMAIN reorder_buf /\ responses' = responses
    BY <1>9, ExitRegistered
  <2>2. /\ UNCHANGED <<task, input_delay_queue, inbound_fifo, reorder_write_order, to_send,
                       output_delay_queue>>
        /\ (sender' = "bandwidth" <=> sender = "bandwidth")
    BY <1>9, ExitRegistered DEF ExitThread, MarkReady, portVars, inputVars
  <2>3. Unlaunched' = Unlaunched  BY <2>2 DEF Unlaunched
  <2> QED BY <2>1, <2>2, <2>3, StillOrder
<1>10. CASE Collect  BY <1>10, CollectOrder
<1>11. CASE Launch  BY <1>11, LaunchOrder
<1>12. CASE Release  BY <1>12, ReleaseOrder
<1>13. CASE SendResponse  BY <1>13, SendOrder
<1>14. CASE UNCHANGED vars
  BY <1>14, StillOrder
     DEF vars, portVars, inputVars, xlateVars, reorderVars, outputVars, Unlaunched
<1> QED
  BY <1>1, <1>2, <1>3, <1>4, <1>5, <1>6, <1>7, <1>8, <1>9, <1>10, <1>11, <1>12, <1>13,
     <1>14 DEF Next, PortNext, InputNext, TranslateNext, OutputNext

LEMMA OrderInvInit ==
  ASSUME Init
  PROVE  OrderInv
<1>1. /\ Out = {} /\ Collected = {} /\ Registered = {} /\ Received = {}
      /\ ToSet(responses) = {}
  BY DEF Init, Out, Collected, Registered, Received, Unlaunched, ToSet, Direction
<1>2. \A X : X = {} => Closed(task, X)  BY DEF Closed
<1>3. Ordered(task, << >>) /\ Increasing(<< >>) /\ ToSet(<< >>) = {}
  BY DEF Ordered, Increasing, ToSet
<1>4. \A q \in Queues : RegisteredWrites(q) = {}
  BY DEF Init, RegisteredWrites
<1> QED BY <1>1, <1>2, <1>3, <1>4 DEF Init, OrderInv, Direction

\* A step that answers no task admits one, or leaves both alone.
LEMMA AbstractStep ==
  ASSUME CInv, OneInv, OrderInv, [Next]_vars
  PROVE  [Abstract!Next]_(Abstract!vars)
<1> USE DEF Abstract!vars
<1>1. ASSUME UNCHANGED <<task, responses>> PROVE UNCHANGED Abstract!vars
  BY <1>1
<1>2. ASSUME NEW p \in Ports, Admit(p) PROVE Abstract!Next
  <2>1. /\ task' = Append(task, port[p].req) /\ port[p].req \in Request
        /\ responses' = responses
    BY <1>2 DEF Admit, CInv, TypeOK, outputVars
  <2>2. Request = Abstract!Request
    BY DEF Request, Abstract!Request, Direction, Abstract!Direction
  <2> QED BY <2>1, <2>2 DEF Abstract!Next, Abstract!Accept
<1>3. CASE SendResponse
  <2>1. \E id \in Ids : Abstract!Answer(id)  BY <1>3, SendOrder
  <2> QED BY <2>1 DEF Abstract!Next, Abstract!AnswerSome, Ids
<1>4. ASSUME NEW x \in Exits, ExitThread(x) PROVE UNCHANGED <<task, responses>>
  BY <1>4, ExitRegistered DEF ExitThread, portVars
<1>5. ASSUME NEW p \in Ports, NEW req \in Request, Gate(p) \/ Offer(p, req)
      PROVE  UNCHANGED <<task, responses>>
  BY <1>5 DEF Gate, Offer, outputVars
<1>6. ASSUME InputNext \/ TranslateNext PROVE UNCHANGED <<task, responses>>
  BY <1>6 DEF InputNext, TranslateNext, InputDelayLine, ParserPop, ParserToCollector,
              ParserToExit, TranslationDone, portVars, outputVars
<1>7. ASSUME Collect \/ Launch \/ Release PROVE UNCHANGED <<task, responses>>
  BY <1>7 DEF Collect, Launch, Release, portVars, outputVars
<1>8. CASE UNCHANGED vars  BY <1>8 DEF vars, portVars, outputVars
<1>9. ASSUME NEW p \in Ports, Gate(p) PROVE UNCHANGED <<task, responses>>
  BY <1>9 DEF Gate, outputVars
<1> QED BY <1>1, <1>2, <1>3, <1>4, <1>5, <1>6, <1>7, <1>8, <1>9
        DEF Next, PortNext, OutputNext

\* The path implements OrderedResponses, its fairness aside: the requester
\* never sees a request answered twice, nor a write answered before an earlier
\* one of its queue, however the threads, the exits and the ports interleave.
THEOREM AnswersInOrder == Spec => Abstract!Init /\ [][Abstract!Next]_(Abstract!vars)
<1>1. Init => OrderInv  BY OrderInvInit
<1>2. CInv /\ OneInv /\ CInv' /\ OrderInv /\ [Next]_vars => OrderInv'  BY OrderInvStep
<1>3. Init => Abstract!Init
  BY DEF Init, Abstract!Init, ToSet
<1>4. CInv /\ OneInv /\ OrderInv /\ [Next]_vars => [Abstract!Next]_(Abstract!vars)
  BY AbstractStep
<1> QED BY <1>1, <1>2, <1>3, <1>4, OneInvAlways, PTL DEF Spec
=============================================================================
