------------------------- MODULE RecordQueuesProofs -------------------------
(***************************************************************************)
(* Theorems about RecordQueues, for any size of the queues, number of CPUs *)
(* and vectors, and any assignment of vectors to queues.                   *)
(***************************************************************************)
EXTENDS RecordQueues, SequencesExt, FiniteSetTheorems, TLAPS

-----------------------------------------------------------------------------
(* Lemmas about lists.                                                      *)

\* Appending adds one element at the end.
LEMMA AppendSet ==
  ASSUME NEW S, NEW s \in Seq(S), NEW e \in S
  PROVE  /\ Append(s, e) \in Seq(S)
         /\ ToSet(Append(s, e)) = ToSet(s) \union {e}
<1> DEFINE t == Append(s, e)
<1>1. /\ t \in Seq(S)
      /\ Len(t) = Len(s) + 1 /\ Len(s) \in Nat
      /\ DOMAIN s = 1 .. Len(s) /\ DOMAIN t = 1 .. (Len(s) + 1)
      /\ \A i \in 1 .. Len(s) : t[i] = s[i]
      /\ t[Len(s) + 1] = e
  OBVIOUS
<1> HIDE DEF t
<1>2. ToSet(t) = ToSet(s) \union {e}
  <2>1. ASSUME NEW i \in DOMAIN t PROVE t[i] \in ToSet(s) \union {e}
    <3>1. i \in 1 .. Len(s) \/ i = Len(s) + 1  BY <1>1
    <3> QED BY <3>1, <1>1 DEF ToSet
  <2>2. ASSUME NEW i \in DOMAIN s PROVE s[i] \in ToSet(t)
    <3>1. i \in DOMAIN t /\ t[i] = s[i]  BY <1>1
    <3> QED BY <3>1 DEF ToSet
  <2>3. e \in ToSet(t)
    <3>1. Len(s) + 1 \in DOMAIN t  BY <1>1
    <3> QED BY <3>1, <1>1 DEF ToSet
  <2> QED BY <2>1, <2>2, <2>3 DEF ToSet
<1> QED BY <1>1, <1>2 DEF t

\* Taking the head off leaves the other elements.
LEMMA TailSet ==
  ASSUME NEW S, NEW s \in Seq(S), s # << >>
  PROVE  /\ Tail(s) \in Seq(S) /\ Head(s) \in S
         /\ ToSet(s) = {Head(s)} \union ToSet(Tail(s))
<1> DEFINE t == Tail(s)
<1>1. /\ t \in Seq(S) /\ Head(s) \in S
      /\ Len(s) \in Nat \ {0} /\ Len(t) = Len(s) - 1
      /\ DOMAIN s = 1 .. Len(s) /\ DOMAIN t = 1 .. (Len(s) - 1)
      /\ \A i \in 1 .. (Len(s) - 1) : t[i] = s[i + 1]
      /\ Head(s) = s[1]
  OBVIOUS
<1> HIDE DEF t
<1>2. ToSet(s) = {Head(s)} \union ToSet(t)
  <2>1. ASSUME NEW i \in DOMAIN s PROVE s[i] \in {Head(s)} \union ToSet(t)
    <3>1. CASE i = 1  BY <3>1, <1>1
    <3>2. CASE i # 1
      <4>1. i - 1 \in DOMAIN t /\ t[i - 1] = s[i]  BY <3>2, <1>1
      <4> QED BY <4>1 DEF ToSet
    <3> QED BY <3>1, <3>2
  <2>2. ASSUME NEW i \in DOMAIN t PROVE t[i] \in ToSet(s)
    <3>1. i + 1 \in DOMAIN s /\ t[i] = s[i + 1]  BY <1>1
    <3> QED BY <3>1 DEF ToSet
  <2>3. Head(s) \in ToSet(s)
    <3>1. 1 \in DOMAIN s  BY <1>1
    <3> QED BY <3>1, <1>1 DEF ToSet
  <2> QED BY <2>1, <2>2, <2>3 DEF ToSet
<1> QED BY <1>1, <1>2 DEF t

\* A function on an interval from 1 is a sequence.
LEMMA FunctionIsSeq ==
  ASSUME NEW S, NEW n \in Nat, NEW s \in [1 .. n -> S]
  PROVE  s \in Seq(S) /\ Len(s) = n
OBVIOUS

-----------------------------------------------------------------------------
(* Types.                                                                  *)

Numbers == 0 .. MaxRecords
Message == [what : {"msi"}, v : Vectors]
           \cup [what : {"record"}, q : Queues, slot : Slots, rec : Numbers]
Reply == [pr : Numbers, code : {"none", "invalid", "failure", "success"}]
Job == [q : Queues, rec : Numbers, slot : Slots, reply : Reply, unmask : BOOLEAN, vec : Vectors]
Duty == {"ack", "drain", "clear"} \X Queues

QueuesTyped == /\ on \in [Queues -> BOOLEAN] /\ of \in [Queues -> BOOLEAN]
               /\ head \in [Queues -> Slots] /\ tail \in [Queues -> Slots]
               /\ ring \in [Queues -> [Slots -> Numbers]]
InterruptsTyped == /\ ip \in [Queues -> BOOLEAN]
                   /\ masked \in [Vectors -> BOOLEAN] /\ msi_pending \in [Vectors -> BOOLEAN]
                   /\ irq \subseteq Vectors /\ duty \in [Cpus -> SUBSET Duty]
ThreadsTyped == /\ at \in [Threads -> {"idle", "record", "msi"}] /\ job \in [Threads -> Job]
                /\ woken \subseteq {t \in Threads : at[t] # "idle"}
                /\ sent \in Seq(Message)
RequestsTyped == /\ made \in [Queues -> Numbers]
                 /\ kind \in Seq(RequestKinds) /\ Len(kind) <= MaxRecords
                 /\ answers \in Seq(Reply)
HistoryTyped == /\ accepted \in [Queues -> Seq(Numbers)] /\ taken \in [Queues -> Seq(Numbers)]
                /\ past \in [Queues -> SUBSET Numbers]

Types == QueuesTyped /\ InterruptsTyped /\ ThreadsTyped /\ RequestsTyped /\ HistoryTyped

LEMMA Sizes ==
  /\ MaxRecords \in Nat /\ QUEUE_SIZE \in Nat /\ QUEUE_SIZE >= 2
  /\ 0 \in Numbers /\ 0 \in Slots /\ Icvec \in [Queues -> Vectors]
  /\ Numbers \subseteq Nat /\ Slots \subseteq Nat
  /\ \A i \in Slots : After(i) \in Slots
<1>1. /\ MaxRecords \in Nat /\ QUEUE_SIZE \in Nat /\ QUEUE_SIZE >= 2
      /\ 0 \in Numbers /\ 0 \in Slots /\ Icvec \in [Queues -> Vectors]
      /\ Numbers \subseteq Nat /\ Slots \subseteq Nat
  BY RecordQueuesAssumption DEF Numbers, Slots
<1>2. \A i \in Slots : (i + 1) % QUEUE_SIZE \in 0 .. QUEUE_SIZE - 1
  BY <1>1
<1> QED BY <1>1, <1>2 DEF After, Slots

LEMMA Nothing == NoReply \in Reply /\ NoJob \in Job
<1>1. NoReply \in Reply
  BY Sizes DEF NoReply, Reply
<1>2. (CHOOSE v \in Vectors : TRUE) \in Vectors
  BY Sizes DEF Queues
<1> QED BY <1>1, <1>2, Sizes DEF NoJob, Job, Queues

LEMMA ThreadNames ==
  /\ Reporters \subseteq Threads /\ Cpus \subseteq Threads
  /\ "fault_cq" \in Reporters /\ "msg" \in Reporters /\ "fault_cq" # "msg"
  /\ Cpus \cap Reporters = {} /\ "fault" \in Queues /\ "page" \in Queues /\ "fault" # "page"
  BY RecordQueuesAssumption DEF Threads, Reporters, Queues

\* The end of a handler.
LEMMA FinishTyped ==
  ASSUME ThreadsTyped, RequestsTyped, NEW t \in Threads, NEW r \in Reply, Finish(t, r)
  PROVE  /\ at' \in [Threads -> {"idle", "record", "msi"}] /\ job' \in [Threads -> Job]
         /\ answers' \in Seq(Reply) /\ at'[t] = "idle" /\ job'[t] = NoJob
         /\ \A u \in Threads \ {t} : at'[u] = at[u] /\ job'[u] = job[u]
<1>1. at' = [at EXCEPT ![t] = "idle"] /\ job' = [job EXCEPT ![t] = NoJob]
  BY DEF Finish
<1>2. answers' \in Seq(Reply)
  BY DEF Finish, RequestsTyped
<1>3. NoJob \in Job
  BY Nothing
<1> QED BY <1>1, <1>2, <1>3 DEF ThreadsTyped

\* What generate_interrupt leaves behind.
LEMMA RaiseTyped ==
  ASSUME InterruptsTyped, ThreadsTyped, RequestsTyped,
         NEW t \in Threads, NEW q \in Queues, NEW r \in Reply, Raise(t, q, r)
  PROVE  /\ ip' \in [Queues -> BOOLEAN] /\ msi_pending' \in [Vectors -> BOOLEAN]
         /\ at' \in [Threads -> {"idle", "record", "msi"}] /\ job' \in [Threads -> Job]
         /\ sent' \in Seq(Message) /\ answers' \in Seq(Reply)
         /\ \A u \in Threads \ {t} : at'[u] = at[u] /\ job'[u] = job[u]
<1>1. [NoJob EXCEPT !.reply = r] \in Job
  BY Nothing DEF Job
<1>2. [what |-> "msi", v |-> Icvec[q]] \in Message
  BY Sizes DEF Message
<1>3. CASE ip[q] /\ Finish(t, r) /\ UNCHANGED <<ip, msi_pending, sent>>
  BY <1>3, FinishTyped DEF InterruptsTyped, ThreadsTyped
<1>4. CASE /\ ip' = [ip EXCEPT ![q] = TRUE] /\ msi_pending' = Pended(Icvec[q])
           /\ Finish(t, r) /\ UNCHANGED sent
  BY <1>4, FinishTyped DEF Pended, InterruptsTyped, ThreadsTyped
<1>5. CASE /\ ip' = [ip EXCEPT ![q] = TRUE]
           /\ sent' = Append(sent, [what |-> "msi", v |-> Icvec[q]])
           /\ at' = [at EXCEPT ![t] = "msi"]
           /\ job' = [job EXCEPT ![t] = [NoJob EXCEPT !.reply = r]]
           /\ UNCHANGED <<msi_pending, answers>>
  <2>1. sent' \in Seq(Message)
    BY <1>2, <1>5 DEF ThreadsTyped
  <2>2. /\ at' \in [Threads -> {"idle", "record", "msi"}] /\ job' \in [Threads -> Job]
        /\ \A u \in Threads \ {t} : at'[u] = at[u] /\ job'[u] = job[u]
    BY <1>1, <1>5 DEF ThreadsTyped
  <2>3. /\ ip' \in [Queues -> BOOLEAN] /\ msi_pending' \in [Vectors -> BOOLEAN]
        /\ answers' \in Seq(Reply)
    BY <1>5 DEF InterruptsTyped, RequestsTyped
  <2> QED BY <2>1, <2>2, <2>3
<1> QED BY <1>3, <1>4, <1>5 DEF Raise

\* What report_fault, or the second half of handle_page_request, leaves behind.
LEMMA RecordTyped ==
  ASSUME Types, NEW t \in Threads, NEW q \in Queues, NEW n \in Numbers,
         NEW a \in Reply, NEW b \in Reply, NEW c \in Reply, Record(t, q, n, a, b, c)
  PROVE  /\ of' \in [Queues -> BOOLEAN]
         /\ ip' \in [Queues -> BOOLEAN] /\ msi_pending' \in [Vectors -> BOOLEAN]
         /\ at' \in [Threads -> {"idle", "record", "msi"}] /\ job' \in [Threads -> Job]
         /\ sent' \in Seq(Message) /\ answers' \in Seq(Reply)
         /\ \A u \in Threads \ {t} : at'[u] = at[u] /\ job'[u] = job[u]
<1>1. Refusal(q, a, b) \in Reply
  BY DEF Refusal
<1>2. CASE /\ Finish(t, Refusal(q, a, b)) /\ UNCHANGED <<of, ip, msi_pending, sent>>
  <2>1. /\ of' \in [Queues -> BOOLEAN] /\ ip' \in [Queues -> BOOLEAN]
        /\ msi_pending' \in [Vectors -> BOOLEAN] /\ sent' \in Seq(Message)
    BY <1>2 DEF Types, QueuesTyped, InterruptsTyped, ThreadsTyped
  <2>2. ThreadsTyped /\ RequestsTyped
    BY DEF Types
  <2> QED BY <1>1, <1>2, <2>1, <2>2, FinishTyped
<1>3. CASE of' = [of EXCEPT ![q] = TRUE] /\ Raise(t, q, Refusal(q, a, b))
  <2>1. of' \in [Queues -> BOOLEAN]
    BY <1>3 DEF Types, QueuesTyped
  <2> QED BY <1>1, <1>3, <2>1, RaiseTyped DEF Types
<1>4. CASE /\ sent' = Append(sent, [what |-> "record", q |-> q, slot |-> tail[q], rec |-> n])
           /\ at' = [at EXCEPT ![t] = "record"]
           /\ job' = [job EXCEPT ![t] = [NoJob EXCEPT !.q = q, !.rec = n, !.slot = tail[q],
                                                      !.reply = c]]
           /\ UNCHANGED <<of, ip, msi_pending, answers>>
  <2>1. tail[q] \in Slots
    BY DEF Types, QueuesTyped
  <2>2. [what |-> "record", q |-> q, slot |-> tail[q], rec |-> n] \in Message
    BY <2>1 DEF Message
  <2>3. [NoJob EXCEPT !.q = q, !.rec = n, !.slot = tail[q], !.reply = c] \in Job
    BY <2>1, Nothing DEF Job
  <2>4. sent' \in Seq(Message)
    BY <1>4, <2>2 DEF Types, ThreadsTyped
  <2>5. /\ at' \in [Threads -> {"idle", "record", "msi"}] /\ job' \in [Threads -> Job]
        /\ \A u \in Threads \ {t} : at'[u] = at[u] /\ job'[u] = job[u]
    BY <1>4, <2>3 DEF Types, ThreadsTyped
  <2>6. /\ of' \in [Queues -> BOOLEAN] /\ ip' \in [Queues -> BOOLEAN]
        /\ msi_pending' \in [Vectors -> BOOLEAN] /\ answers' \in Seq(Reply)
    BY <1>4 DEF Types, QueuesTyped, InterruptsTyped, RequestsTyped
  <2> QED BY <2>4, <2>5, <2>6
<1> QED BY <1>2, <1>3, <1>4 DEF Record

LEMMA TypesInit == Init => Types
<1> SUFFICES ASSUME Init PROVE Types
  OBVIOUS
<1>1. QueuesTyped
  BY Sizes DEF Init, QueuesTyped
<1>2. InterruptsTyped
  BY DEF Init, InterruptsTyped
<1>3. ThreadsTyped
  BY Nothing DEF Init, ThreadsTyped
<1>4. RequestsTyped
  BY Sizes DEF Init, RequestsTyped
<1>5. HistoryTyped
  BY DEF Init, HistoryTyped
<1> QED BY <1>1, <1>2, <1>3, <1>4, <1>5 DEF Types

LEMMA FaultTyped == Types /\ Fault => Types'
<1> SUFFICES ASSUME Types, Fault PROVE Types'
  OBVIOUS
<1> DEFINE n == made["fault"] + 1
<1>1. /\ at["fault_cq"] = "idle" /\ n <= MaxRecords
      /\ made' = [made EXCEPT !["fault"] = n]
      /\ Record("fault_cq", "fault", n, NoReply, NoReply, NoReply)
      /\ UNCHANGED <<on, head, tail, ring, masked, irq, woken, duty, kind, history>>
  BY DEF Fault, Free
<1>2. n \in Numbers
  <2>1. made["fault"] \in 0 .. MaxRecords
    BY ThreadNames DEF Types, RequestsTyped, Numbers
  <2> QED BY <1>1, <2>1, Sizes DEF Numbers
<1> HIDE DEF n
<1>3. /\ of' \in [Queues -> BOOLEAN]
      /\ ip' \in [Queues -> BOOLEAN] /\ msi_pending' \in [Vectors -> BOOLEAN]
      /\ at' \in [Threads -> {"idle", "record", "msi"}] /\ job' \in [Threads -> Job]
      /\ sent' \in Seq(Message) /\ answers' \in Seq(Reply)
      /\ \A u \in Threads \ {"fault_cq"} : at'[u] = at[u] /\ job'[u] = job[u]
  BY <1>1, <1>2, RecordTyped, Nothing, ThreadNames
<1>4. QueuesTyped' /\ HistoryTyped'
  BY <1>1, <1>3 DEF Types, QueuesTyped, HistoryTyped, history
<1>5. InterruptsTyped'
  BY <1>1, <1>3 DEF Types, InterruptsTyped
<1>6. ThreadsTyped'
  BY <1>1, <1>3 DEF Types, ThreadsTyped
<1>7. RequestsTyped'
  BY <1>1, <1>2, <1>3 DEF Types, RequestsTyped
<1> QED BY <1>4, <1>5, <1>6, <1>7 DEF Types

\* The two branches of handle_page_request: what it records where.
PageReply(k, code) == IF k = "more" THEN NoReply ELSE [pr |-> Len(kind) + 1, code |-> code]
LEMMA PageRequestCases ==
  ASSUME NEW k, PageRequest(k)
  PROVE  /\ at["msg"] = "idle" /\ Len(kind) + 1 <= MaxRecords /\ kind' = Append(kind, k)
         /\ UNCHANGED <<on, head, tail, ring, masked, irq, woken, duty, history>>
         /\ \/ /\ k = "disallowed" /\ made["fault"] + 1 <= MaxRecords
               /\ made' = [made EXCEPT !["page"] = Len(kind) + 1, !["fault"] = made["fault"] + 1]
               /\ Record("msg", "fault", made["fault"] + 1, PageReply(k, "invalid"),
                         PageReply(k, "invalid"), PageReply(k, "invalid"))
            \/ /\ k # "disallowed"
               /\ made' = [made EXCEPT !["page"] = Len(kind) + 1]
               /\ Record("msg", "page", Len(kind) + 1, PageReply(k, "failure"),
                         PageReply(k, "success"), NoReply)
  BY DEF PageRequest, PageReply, Free

LEMMA PageRequestTyped == ASSUME Types, NEW k \in RequestKinds, PageRequest(k) PROVE Types'
<1> DEFINE n == Len(kind) + 1
           f == made["fault"] + 1
<1>1. /\ n <= MaxRecords /\ kind' = Append(kind, k) /\ at["msg"] = "idle"
      /\ UNCHANGED <<on, head, tail, ring, masked, irq, woken, duty, history>>
  BY PageRequestCases
<1>2. n \in Numbers /\ n # 0
  BY <1>1, Sizes DEF Types, RequestsTyped, Numbers
<1>3. \A code \in {"invalid", "failure", "success"} : PageReply(k, code) \in Reply
  BY <1>2, Nothing DEF PageReply, Reply
<1>4. \/ /\ f <= MaxRecords
         /\ made' = [made EXCEPT !["page"] = n, !["fault"] = f]
         /\ Record("msg", "fault", f, PageReply(k, "invalid"), PageReply(k, "invalid"),
                   PageReply(k, "invalid"))
      \/ /\ made' = [made EXCEPT !["page"] = n]
         /\ Record("msg", "page", n, PageReply(k, "failure"), PageReply(k, "success"), NoReply)
  BY PageRequestCases
<1>5. f <= MaxRecords => f \in Numbers
  <2>1. made["fault"] \in 0 .. MaxRecords
    BY ThreadNames DEF Types, RequestsTyped, Numbers
  <2> QED BY <2>1, Sizes DEF Numbers
<1> HIDE DEF n, f
<1>6. /\ of' \in [Queues -> BOOLEAN]
      /\ ip' \in [Queues -> BOOLEAN] /\ msi_pending' \in [Vectors -> BOOLEAN]
      /\ at' \in [Threads -> {"idle", "record", "msi"}] /\ job' \in [Threads -> Job]
      /\ sent' \in Seq(Message) /\ answers' \in Seq(Reply)
      /\ \A u \in Threads \ {"msg"} : at'[u] = at[u] /\ job'[u] = job[u]
  <2>1. "msg" \in Threads /\ "fault" \in Queues /\ "page" \in Queues /\ NoReply \in Reply
    BY ThreadNames, Nothing
  <2>2. ASSUME f \in Numbers,
               Record("msg", "fault", f, PageReply(k, "invalid"), PageReply(k, "invalid"),
                      PageReply(k, "invalid"))
        PROVE <1>6!:
    <3>1. PageReply(k, "invalid") \in Reply
      BY <1>3
    <3> QED BY <2>1, <2>2, <3>1, RecordTyped
  <2>3. ASSUME Record("msg", "page", n, PageReply(k, "failure"), PageReply(k, "success"), NoReply)
        PROVE <1>6!:
    <3>1. PageReply(k, "failure") \in Reply /\ PageReply(k, "success") \in Reply
      BY <1>3
    <3> QED BY <1>2, <2>1, <2>3, <3>1, RecordTyped
  <2> QED BY <1>4, <1>5, <2>2, <2>3
<1>7. QueuesTyped' /\ HistoryTyped'
  BY <1>1, <1>6 DEF Types, QueuesTyped, HistoryTyped, history
<1>8. InterruptsTyped'
  BY <1>1, <1>6 DEF Types, InterruptsTyped
<1>9. ThreadsTyped'
  BY <1>1, <1>6 DEF Types, ThreadsTyped
<1>10. made' \in [Queues -> Numbers]
  BY <1>2, <1>4, <1>5 DEF Types, RequestsTyped
<1>11. kind' \in Seq(RequestKinds) /\ Len(kind') = n
  BY <1>1 DEF Types, RequestsTyped, n
<1> QED BY <1>1, <1>6, <1>7, <1>8, <1>9, <1>10, <1>11 DEF Types, RequestsTyped

LEMMA MemoryTyped == Types /\ Memory => Types'
<1> SUFFICES ASSUME Types, Memory PROVE Types'
  OBVIOUS
<1> DEFINE w == Head(sent)
<1>1. /\ sent # << >> /\ sent' = Tail(sent)
      /\ woken' = woken \cup {t \in Threads : at[t] # "idle"}
      /\ UNCHANGED <<registers, interrupts, at, job, duty, made, kind, answers, history>>
  BY DEF Memory
<1>2. \/ /\ w.what = "record"
         /\ ring' = [ring EXCEPT ![w.q][w.slot] = w.rec] /\ irq' = irq
      \/ /\ w.what # "record" /\ irq' = irq \cup {w.v} /\ ring' = ring
  BY DEF Memory
<1>3. w \in Message /\ sent' \in Seq(Message)
  BY <1>1, TailSet DEF Types, ThreadsTyped
<1>4. ring' \in [Queues -> [Slots -> Numbers]]
  <2>1. CASE ring' = ring
    BY <2>1 DEF Types, QueuesTyped
  <2>2. CASE w.what = "record" /\ ring' = [ring EXCEPT ![w.q][w.slot] = w.rec]
    <3>1. w.q \in Queues /\ w.slot \in Slots /\ w.rec \in Numbers
      BY <1>3, <2>2 DEF Message
    <3> HIDE DEF w
    <3> QED BY <2>2, <3>1 DEF Types, QueuesTyped
  <2> QED BY <1>2, <2>1, <2>2
<1>5. irq' \subseteq Vectors
  BY <1>2, <1>3 DEF Types, InterruptsTyped, Message
<1>6. QueuesTyped' /\ HistoryTyped' /\ RequestsTyped'
  BY <1>1, <1>4 DEF Types, QueuesTyped, HistoryTyped, RequestsTyped, registers, history
<1>7. InterruptsTyped' /\ ThreadsTyped'
  BY <1>1, <1>3, <1>5 DEF Types, InterruptsTyped, ThreadsTyped, interrupts
<1> QED BY <1>6, <1>7 DEF Types

\* What Continue does, for each kind of wait.
LEMMA ContinueCases ==
  ASSUME Types, NEW t \in Threads, Continue(t)
  PROVE  /\ t \in woken /\ woken' = woken \ {t} /\ at[t] # "idle" /\ job[t] \in Job
         /\ UNCHANGED <<on, of, head, ring, irq, duty, made, kind, taken, past>>
         /\ \/ /\ at[t] = "record" /\ masked' = masked
               /\ tail' = [tail EXCEPT ![job[t].q] = After(job[t].slot)]
               /\ accepted' = [accepted EXCEPT ![job[t].q] = Append(@, job[t].rec)]
               /\ Raise(t, job[t].q, job[t].reply)
            \/ /\ at[t] = "msi" /\ ~job[t].unmask /\ Finish(t, job[t].reply)
               /\ UNCHANGED <<tail, interrupts, sent, accepted>>
            \/ /\ at[t] = "msi" /\ job[t].unmask /\ Finish(t, NoReply)
               /\ msi_pending' = [msi_pending EXCEPT ![job[t].vec] = FALSE]
               /\ masked' = [masked EXCEPT ![job[t].vec] = FALSE]
               /\ UNCHANGED <<tail, ip, sent, accepted>>
<1>1. at[t] # "idle" /\ job[t] \in Job
  BY DEF Continue, Types, ThreadsTyped
<1> QED BY <1>1 DEF Continue, Recorded, registers, interrupts

LEMMA ContinueTyped == ASSUME Types, NEW t \in Threads, Continue(t) PROVE Types'
<1> DEFINE j == job[t]
<1>1. /\ t \in woken /\ woken' = woken \ {t} /\ j \in Job
      /\ UNCHANGED <<on, of, head, ring, irq, duty, made, kind, taken, past>>
  BY ContinueCases
<1>2. /\ j.q \in Queues /\ j.rec \in Numbers /\ j.slot \in Slots /\ j.reply \in Reply
      /\ j.vec \in Vectors
  BY <1>1 DEF Job
<1>3. /\ InterruptsTyped /\ ThreadsTyped /\ RequestsTyped /\ NoReply \in Reply
  BY Nothing DEF Types
<1>4. /\ tail' \in [Queues -> Slots] /\ accepted' \in [Queues -> Seq(Numbers)]
      /\ ip' \in [Queues -> BOOLEAN]
      /\ masked' \in [Vectors -> BOOLEAN] /\ msi_pending' \in [Vectors -> BOOLEAN]
      /\ at' \in [Threads -> {"idle", "record", "msi"}] /\ job' \in [Threads -> Job]
      /\ sent' \in Seq(Message) /\ answers' \in Seq(Reply)
      /\ \A u \in Threads \ {t} : at'[u] = at[u] /\ job'[u] = job[u]
  <2>1. CASE /\ masked' = masked
             /\ tail' = [tail EXCEPT ![j.q] = After(j.slot)]
             /\ accepted' = [accepted EXCEPT ![j.q] = Append(@, j.rec)]
             /\ Raise(t, j.q, j.reply)
    <3> HIDE DEF j
    <3>1. tail' \in [Queues -> Slots]
      BY <1>2, <2>1, Sizes DEF Types, QueuesTyped
    <3>2. accepted' \in [Queues -> Seq(Numbers)]
      BY <1>2, <2>1 DEF Types, HistoryTyped
    <3>3. masked' \in [Vectors -> BOOLEAN]
      BY <2>1 DEF Types, InterruptsTyped
    <3> QED BY <1>2, <1>3, <2>1, <3>1, <3>2, <3>3, RaiseTyped
  <2>2. CASE Finish(t, j.reply) /\ UNCHANGED <<tail, interrupts, sent, accepted>>
    <3> HIDE DEF j
    <3>1. /\ at' \in [Threads -> {"idle", "record", "msi"}] /\ job' \in [Threads -> Job]
          /\ answers' \in Seq(Reply)
          /\ \A u \in Threads \ {t} : at'[u] = at[u] /\ job'[u] = job[u]
      BY <1>2, <1>3, <2>2, FinishTyped
    <3> QED BY <2>2, <3>1 DEF Types, QueuesTyped, InterruptsTyped, ThreadsTyped, HistoryTyped,
                             interrupts
  <2>3. CASE /\ Finish(t, NoReply)
             /\ msi_pending' = [msi_pending EXCEPT ![j.vec] = FALSE]
             /\ masked' = [masked EXCEPT ![j.vec] = FALSE]
             /\ UNCHANGED <<tail, ip, sent, accepted>>
    <3> HIDE DEF j
    <3>1. /\ at' \in [Threads -> {"idle", "record", "msi"}] /\ job' \in [Threads -> Job]
          /\ answers' \in Seq(Reply)
          /\ \A u \in Threads \ {t} : at'[u] = at[u] /\ job'[u] = job[u]
      BY <1>2, <1>3, <2>3, FinishTyped
    <3> QED BY <2>3, <3>1 DEF Types, QueuesTyped, InterruptsTyped, ThreadsTyped, HistoryTyped
  <2> QED BY <2>1, <2>2, <2>3, ContinueCases
<1>5. QueuesTyped'
  BY <1>1, <1>4 DEF Types, QueuesTyped
<1>6. InterruptsTyped'
  BY <1>1, <1>4 DEF Types, InterruptsTyped
<1>7. ThreadsTyped'
  <2>1. woken' \subseteq {u \in Threads : at'[u] # "idle"}
    BY <1>1, <1>4 DEF Types, ThreadsTyped
  <2> QED BY <1>4, <2>1 DEF ThreadsTyped
<1>8. RequestsTyped'
  BY <1>1, <1>4 DEF Types, RequestsTyped
<1>9. HistoryTyped'
  BY <1>1, <1>4 DEF Types, HistoryTyped
<1> QED BY <1>5, <1>6, <1>7, <1>8, <1>9 DEF Types

\* The steps of the driver that start no message.
LEMMA QueueOffTyped ==
  ASSUME Types, NEW v \in Vectors, NEW q \in Queues, Mask(v) \/ Disable(q)
  PROVE  Types'
<1>1. UNCHANGED <<of, head, tail, ring, ip, msi_pending, irq, duty, threads, sent, made, kind,
                  answers, history>>
  BY DEF Mask, Disable, registers, interrupts
<1>2. ThreadsTyped' /\ RequestsTyped' /\ HistoryTyped'
  BY <1>1 DEF Types, ThreadsTyped, RequestsTyped, HistoryTyped, threads, history
<1>3. on' \in [Queues -> BOOLEAN] /\ masked' \in [Vectors -> BOOLEAN]
  BY DEF Types, QueuesTyped, InterruptsTyped, Mask, Disable, registers, interrupts
<1> QED BY <1>1, <1>2, <1>3 DEF Types, QueuesTyped, InterruptsTyped

LEMMA HandlerTyped ==
  ASSUME Types, NEW c \in Cpus, NEW v \in Vectors, NEW q \in Queues,
         TakeInterrupt(c, v) \/ Clear(c, q)
  PROVE  Types'
<1>1. UNCHANGED <<on, head, tail, ring, ip, masked, msi_pending, threads, sent, made, kind,
                  answers, history>>
  BY DEF TakeInterrupt, Clear, registers, interrupts
<1>2. ThreadsTyped' /\ RequestsTyped' /\ HistoryTyped'
  BY <1>1 DEF Types, ThreadsTyped, RequestsTyped, HistoryTyped, threads, history
<1>3. QueuesTyped'
  <2>1. of' \in [Queues -> BOOLEAN]
    BY DEF Types, QueuesTyped, TakeInterrupt, Clear, registers
  <2> QED BY <1>1, <2>1 DEF Types, QueuesTyped
<1>4. InterruptsTyped'
  <2>1. irq' \subseteq Vectors
    BY DEF Types, InterruptsTyped, TakeInterrupt, Clear
  <2>2. {<<"ack", r>> : r \in {p \in Queues : ip[p] /\ Icvec[p] = v}} \subseteq Duty
    BY DEF Duty
  <2>3. duty' \in [Cpus -> SUBSET Duty]
    BY <2>2 DEF TakeInterrupt, Clear, Types, InterruptsTyped
  <2> QED BY <1>1, <2>1, <2>3 DEF Types, InterruptsTyped
<1> QED BY <1>2, <1>3, <1>4 DEF Types

LEMMA AcknowledgeTyped ==
  ASSUME Types, NEW c \in Cpus, NEW q \in Queues, Acknowledge(c, q)
  PROVE  Types'
<1>1. /\ duty' = [duty EXCEPT ![c] = (@ \ {<<"ack", q>>}) \cup {<<"drain", q>>}]
      /\ UNCHANGED <<registers, ring, masked, irq, job, woken, made, kind, answers, history>>
      /\ \/ /\ ip' = [ip EXCEPT ![q] = TRUE]
            /\ sent' = Append(sent, [what |-> "msi", v |-> Icvec[q]])
            /\ at' = [at EXCEPT ![c] = "msi"] /\ msi_pending' = msi_pending
         \/ /\ ip' = [ip EXCEPT ![q] = Reraises(q)]
            /\ msi_pending' = Pended(Icvec[q]) \/ msi_pending' = msi_pending
            /\ UNCHANGED <<sent, at>>
  BY DEF Acknowledge
<1>2. QueuesTyped' /\ RequestsTyped' /\ HistoryTyped'
  BY <1>1 DEF Types, QueuesTyped, RequestsTyped, HistoryTyped, registers, history
<1>3. ThreadsTyped'
  <2>1. [what |-> "msi", v |-> Icvec[q]] \in Message
    BY Sizes DEF Message
  <2>2. sent' \in Seq(Message)
    BY <1>1, <2>1, SMTT(30) DEF Types, ThreadsTyped
  <2>3. at' \in [Threads -> {"idle", "record", "msi"}] /\ \A t \in Threads : at[t] # "idle" => at'[t] # "idle"
    BY <1>1, ThreadNames DEF Types, ThreadsTyped
  <2> QED BY <1>1, <2>2, <2>3 DEF Types, ThreadsTyped
<1>4. ip' \in [Queues -> BOOLEAN]
  <2>1. Reraises(q) \in BOOLEAN
    BY DEF Reraises, Types, QueuesTyped
  <2> QED BY <1>1, <2>1 DEF Types, InterruptsTyped
<1>5. msi_pending' \in [Vectors -> BOOLEAN]
  BY <1>1 DEF Pended, Types, InterruptsTyped
<1>6. duty' \in [Cpus -> SUBSET Duty]
  <2>1. <<"drain", q>> \in Duty
    BY DEF Duty
  <2> QED BY <1>1, <2>1 DEF Types, InterruptsTyped
<1> QED BY <1>1, <1>2, <1>3, <1>4, <1>5, <1>6 DEF Types, InterruptsTyped

\* The records between head and tail.
LEMMA InRingTyped ==
  ASSUME QueuesTyped, NEW q \in Queues
  PROVE  InRing(q) \in Seq(Numbers) /\ Len(InRing(q)) = (tail[q] - head[q]) % QUEUE_SIZE
<1>1. head[q] \in Int /\ tail[q] \in Int /\ ring[q] \in [Slots -> Numbers]
  BY Sizes DEF QueuesTyped, Slots
<1>2. (tail[q] - head[q]) % QUEUE_SIZE \in Nat
  BY <1>1, Sizes
<1>3. \A i \in Int : (head[q] + i - 1) % QUEUE_SIZE \in Slots
  BY <1>1, Sizes DEF Slots
<1> DEFINE n == (tail[q] - head[q]) % QUEUE_SIZE
<1>4. InRing(q) \in [1 .. n -> Numbers]
  BY <1>1, <1>2, <1>3 DEF InRing
<1> HIDE DEF n
<1>5. n \in Nat
  BY <1>2 DEF n
<1> QED BY <1>4, <1>5, FunctionIsSeq DEF n

LEMMA DrainTyped ==
  ASSUME Types, NEW c \in Cpus, NEW q \in Queues, Drain(c, q)
  PROVE  Types'
<1>1. /\ duty' = [duty EXCEPT ![c] = (@ \ {<<"drain", q>>}) \cup {<<"clear", q>>}]
      /\ taken' = [taken EXCEPT ![q] = @ \o InRing(q)]
      /\ head' = [head EXCEPT ![q] = tail[q]]
      /\ UNCHANGED <<on, of, tail, ring, interrupts, irq, threads, sent, made, kind, answers,
                     accepted, past>>
  BY DEF Drain
<1>2. ThreadsTyped' /\ RequestsTyped'
  BY <1>1 DEF Types, ThreadsTyped, RequestsTyped, threads
<1>3. QueuesTyped'
  BY <1>1 DEF Types, QueuesTyped
<1>4. HistoryTyped'
  <2>1. InRing(q) \in Seq(Numbers) /\ taken[q] \in Seq(Numbers)
    BY InRingTyped DEF Types, HistoryTyped
  <2>2. taken[q] \o InRing(q) \in Seq(Numbers)
    BY <2>1
  <2> QED BY <1>1, <2>2 DEF Types, HistoryTyped
<1>5. InterruptsTyped'
  <2>1. <<"clear", q>> \in Duty
    BY DEF Duty
  <2> QED BY <1>1, <2>1 DEF Types, InterruptsTyped, interrupts
<1> QED BY <1>2, <1>3, <1>4, <1>5 DEF Types

LEMMA UnmaskTyped ==
  ASSUME Types, NEW c \in Cpus, NEW v \in Vectors, Unmask(c, v)
  PROVE  Types'
<1>1. /\ UNCHANGED <<registers, ring, ip, msi_pending, irq, woken, duty, made, kind, answers,
                     history>>
      /\ \/ /\ sent' = Append(sent, [what |-> "msi", v |-> v])
            /\ at' = [at EXCEPT ![c] = "msi"]
            /\ job' = [job EXCEPT ![c] = [NoJob EXCEPT !.unmask = TRUE, !.vec = v]]
            /\ masked' = masked
         \/ masked' = [masked EXCEPT ![v] = FALSE] /\ UNCHANGED <<sent, at, job>>
  BY DEF Unmask
<1>2. QueuesTyped' /\ RequestsTyped' /\ HistoryTyped'
  BY <1>1 DEF Types, QueuesTyped, RequestsTyped, HistoryTyped, registers, history
<1>3. InterruptsTyped'
  BY <1>1 DEF Types, InterruptsTyped
<1>4. ThreadsTyped'
  <2>1. [what |-> "msi", v |-> v] \in Message /\ [NoJob EXCEPT !.unmask = TRUE, !.vec = v] \in Job
    BY Nothing DEF Message, Job
  <2>2. sent' \in Seq(Message)
    BY <1>1, <2>1 DEF Types, ThreadsTyped
  <2>3. job' \in [Threads -> Job]
    BY <1>1, <2>1 DEF Types, ThreadsTyped
  <2>4. at' \in [Threads -> {"idle", "record", "msi"}] /\ \A t \in Threads : at[t] # "idle" => at'[t] # "idle"
    BY <1>1, ThreadNames DEF Types, ThreadsTyped
  <2> QED BY <1>1, <2>2, <2>3, <2>4 DEF Types, ThreadsTyped
<1> QED BY <1>2, <1>3, <1>4 DEF Types

LEMMA EnableTyped ==
  ASSUME Types, NEW q \in Queues, Enable(q)
  PROVE  Types'
<1>1. /\ on' = [on EXCEPT ![q] = TRUE] /\ of' = [of EXCEPT ![q] = FALSE]
      /\ head' = [head EXCEPT ![q] = 0] /\ tail' = [tail EXCEPT ![q] = 0]
      /\ past' = [past EXCEPT ![q] = @ \cup Range(accepted[q])]
      /\ accepted' = [accepted EXCEPT ![q] = << >>] /\ taken' = [taken EXCEPT ![q] = << >>]
      /\ UNCHANGED <<ring, interrupts, irq, threads, sent, duty, made, kind, answers>>
  BY DEF Enable
<1>2. InterruptsTyped' /\ ThreadsTyped' /\ RequestsTyped'
  BY <1>1 DEF Types, InterruptsTyped, ThreadsTyped, RequestsTyped, interrupts, threads
<1>3. QueuesTyped'
  BY <1>1, Sizes DEF Types, QueuesTyped
<1>4. HistoryTyped'
  <2>1. Range(accepted[q]) \subseteq Numbers
    BY DEF Types, HistoryTyped, Range
  <2> QED BY <1>1, <2>1 DEF Types, HistoryTyped
<1> QED BY <1>2, <1>3, <1>4 DEF Types

\* The steps, one by one.
LEMMA Steps ==
  ASSUME [Next]_vars
  PROVE  \/ UNCHANGED vars \/ Fault \/ (\E k \in RequestKinds : PageRequest(k)) \/ Memory
         \/ (\E t \in Threads : Continue(t))
         \/ (\E c \in Cpus, v \in Vectors : TakeInterrupt(c, v))
         \/ (\E c \in Cpus, v \in Vectors : Unmask(c, v))
         \/ (\E c \in Cpus, q \in Queues : Acknowledge(c, q))
         \/ (\E c \in Cpus, q \in Queues : Drain(c, q))
         \/ (\E c \in Cpus, q \in Queues : Clear(c, q))
         \/ (\E v \in Vectors : Mask(v))
         \/ (\E q \in Queues : Disable(q)) \/ (\E q \in Queues : Enable(q))
<1> USE DEF Next
<1>1. CASE Iommu
  BY <1>1 DEF Iommu
<1>2. CASE Driver
  BY <1>2 DEF Driver
<1> QED BY <1>1, <1>2

LEMMA TypesStep == Types /\ [Next]_vars => Types'
<1> SUFFICES ASSUME Types, [Next]_vars PROVE Types'
  OBVIOUS
<1>1. CASE UNCHANGED vars
  BY <1>1 DEF Types, QueuesTyped, InterruptsTyped, ThreadsTyped, RequestsTyped, HistoryTyped,
              vars, registers, interrupts, threads, history
<1>2. CASE \E c \in Cpus, v \in Vectors : TakeInterrupt(c, v)
  BY <1>2, HandlerTyped, ThreadNames
<1>3. CASE \E c \in Cpus, q \in Queues : Clear(c, q)
  BY <1>3, HandlerTyped, Sizes, ThreadNames
<1>4. CASE \E v \in Vectors : Mask(v)
  BY <1>4, QueueOffTyped, ThreadNames
<1>5. CASE \E q \in Queues : Disable(q)
  BY <1>5, QueueOffTyped, Sizes, ThreadNames
<1> QED BY <1>1, <1>2, <1>3, <1>4, <1>5, Steps, FaultTyped, PageRequestTyped, MemoryTyped,
           ContinueTyped, UnmaskTyped, AcknowledgeTyped, DrainTyped, EnableTyped

-----------------------------------------------------------------------------
(* What the threads hold.                                                  *)

\* A thread that waits for nothing has no locals; only "msg" answers page requests
\* and writes their records; only a CPU unmasks.
Jobs == /\ \A t \in Threads : at[t] = "idle" => job[t] = NoJob
        /\ \A t \in Threads \ {"msg"} : job[t].reply = NoReply /\ job[t].q = "fault"
        /\ \A c \in Cpus : at[c] # "record"
        /\ \A t \in Reporters : ~job[t].unmask

LEMMA RaiseJobs ==
  ASSUME Types, Jobs, NEW t \in Threads, NEW q \in Queues, NEW r \in Reply, Raise(t, q, r),
         t # "msg" => r = NoReply
  PROVE  Jobs'
<1>1. \A u \in Threads \ {t} : at'[u] = at[u] /\ job'[u] = job[u]
  BY RaiseTyped DEF Types
<1>2. \/ at'[t] = "idle" /\ job'[t] = NoJob
      \/ at'[t] = "msi" /\ job'[t] = [NoJob EXCEPT !.reply = r]
  BY DEF Raise, Finish, Types, ThreadsTyped
<1>3. /\ NoJob.reply = NoReply /\ NoJob.q = "fault" /\ ~NoJob.unmask
      /\ LET j == [NoJob EXCEPT !.reply = r] IN j.reply = r /\ j.q = "fault" /\ ~j.unmask
  BY DEF NoJob
<1>4. \A u \in Reporters : ~job'[u].unmask
  BY <1>1, <1>2, <1>3, ThreadNames, ZenonT(40) DEF Jobs
<1> QED BY <1>1, <1>2, <1>3, <1>4, ThreadNames, ZenonT(40) DEF Jobs

LEMMA RecordJobs ==
  ASSUME Types, Jobs, NEW t \in Reporters, NEW q \in Queues, NEW n \in Numbers,
         NEW a \in Reply, NEW b \in Reply, NEW c \in Reply, Record(t, q, n, a, b, c),
         t # "msg" => a = NoReply /\ b = NoReply /\ c = NoReply /\ q = "fault"
  PROVE  Jobs'
<1>1. t \in Threads /\ t \notin Cpus
  BY ThreadNames
<1>2. \A u \in Threads \ {t} : at'[u] = at[u] /\ job'[u] = job[u]
  BY <1>1, RecordTyped
<1>3. CASE at'[t] = "idle" /\ job'[t] = NoJob
  <2>1. NoJob.reply = NoReply /\ NoJob.q = "fault" /\ ~NoJob.unmask
    BY DEF NoJob
  <2> QED BY <1>1, <1>2, <1>3, <2>1, ThreadNames DEF Jobs
<1>4. ASSUME NEW r \in {a, b, c}, NEW s, NEW m, NEW p \in {q, "fault"}, at'[t] # "idle",
             job'[t] = [NoJob EXCEPT !.q = p, !.rec = m, !.slot = s, !.reply = r]
      PROVE  Jobs'
  <2>1. job'[t].reply = r /\ job'[t].q = p /\ ~job'[t].unmask
    BY <1>4 DEF NoJob
  <2>2. t # "msg" => r = NoReply /\ p = "fault"
    OBVIOUS
  <2> QED BY <1>1, <1>2, <1>4, <2>1, <2>2, ThreadNames DEF Jobs
<1>5. CASE \E r \in {a, b, c} : at'[t] = "msi" /\ job'[t] = [NoJob EXCEPT !.reply = r]
  <2>1. PICK r \in {a, b, c} : at'[t] = "msi" /\ job'[t] = [NoJob EXCEPT !.reply = r]
    BY <1>5
  <2>2. job'[t] = [NoJob EXCEPT !.q = "fault", !.rec = 0, !.slot = 0, !.reply = r]
    BY <2>1, ZenonT(40) DEF NoJob
  <2> QED BY <1>4, <2>1, <2>2, ZenonT(40)
<1>6. CASE /\ at' = [at EXCEPT ![t] = "record"]
           /\ job' = [job EXCEPT ![t] = [NoJob EXCEPT !.q = q, !.rec = n, !.slot = tail[q],
                                                      !.reply = c]]
  <2>1. at'[t] = "record"
    BY <1>1, <1>6 DEF Types, ThreadsTyped
  <2>2. job'[t] = [NoJob EXCEPT !.q = q, !.rec = n, !.slot = tail[q], !.reply = c]
    BY <1>1, <1>6 DEF Types, ThreadsTyped
  <2> QED BY <1>4, <2>1, <2>2
<1>7. Refusal(q, a, b) \in {a, b, c}
  BY DEF Refusal
<1>8. ASSUME Finish(t, Refusal(q, a, b)) PROVE Jobs'
  BY <1>1, <1>3, <1>8 DEF Finish, Types, ThreadsTyped
<1>9. ASSUME Raise(t, q, Refusal(q, a, b)) PROVE Jobs'
  <2>1. \/ at'[t] = "idle" /\ job'[t] = NoJob
        \/ at'[t] = "msi" /\ job'[t] = [NoJob EXCEPT !.reply = Refusal(q, a, b)]
    BY <1>1, <1>9 DEF Raise, Finish, Types, ThreadsTyped
  <2> QED BY <1>3, <1>5, <1>7, <2>1
<1> QED BY <1>6, <1>8, <1>9 DEF Record

LEMMA JobsStep == Types /\ Jobs /\ [Next]_vars => Jobs'
<1> SUFFICES ASSUME Types, Jobs, [Next]_vars PROVE Jobs'
  OBVIOUS
<1> USE DEF Jobs
<1>1. CASE UNCHANGED <<at, job>>
  BY <1>1
<1>2. CASE Fault
  <2>1. made["fault"] + 1 \in Numbers
    BY <1>2, Sizes, ThreadNames DEF Fault, Numbers, Types, RequestsTyped
  <2> QED BY <1>2, <2>1, RecordJobs, ThreadNames, Nothing DEF Fault
<1>3. ASSUME NEW k \in RequestKinds, PageRequest(k) PROVE Jobs'
  <2>1. Len(kind) + 1 \in Numbers /\ (made["fault"] + 1 <= MaxRecords => made["fault"] + 1 \in Numbers)
    BY <1>3, PageRequestCases, Sizes, ThreadNames DEF Numbers, Types, RequestsTyped
  <2>2. \A code \in {"invalid", "failure", "success"} : PageReply(k, code) \in Reply
    BY <2>1, Nothing DEF PageReply, Reply
  <2>3. /\ PageReply(k, "invalid") \in Reply /\ PageReply(k, "failure") \in Reply
        /\ PageReply(k, "success") \in Reply /\ NoReply \in Reply
    BY <2>2, Nothing
  <2> QED BY <1>3, <2>1, <2>3, PageRequestCases, RecordJobs, ThreadNames
<1>4. ASSUME NEW t \in Threads, Continue(t) PROVE Jobs'
  <2>1. job[t] \in Job /\ job[t].q \in Queues /\ job[t].reply \in Reply
    BY <1>4, ContinueCases DEF Job
  <2>2. CASE Raise(t, job[t].q, job[t].reply)
    <3>1. t # "msg" => job[t].reply = NoReply
      OBVIOUS
    <3> QED BY <2>1, <2>2, <3>1, RaiseJobs
  <2>3. CASE Finish(t, job[t].reply) \/ Finish(t, NoReply)
    <3>1. at' = [at EXCEPT ![t] = "idle"] /\ job' = [job EXCEPT ![t] = NoJob]
      BY <2>3 DEF Finish
    <3>2. NoJob.reply = NoReply /\ NoJob.q = "fault" /\ ~NoJob.unmask
      BY DEF NoJob
    <3> QED BY <3>1, <3>2, ThreadNames DEF Types, ThreadsTyped
  <2> QED BY <1>4, <2>2, <2>3, ContinueCases
<1>5. ASSUME NEW c \in Cpus, NEW q \in Queues, Acknowledge(c, q) PROVE Jobs'
  <2>1. job' = job /\ (at' = at \/ at' = [at EXCEPT ![c] = "msi"])
    BY <1>5 DEF Acknowledge
  <2> QED BY <2>1, ThreadNames DEF Types, ThreadsTyped
<1>6. ASSUME NEW c \in Cpus, NEW v \in Vectors, Unmask(c, v) PROVE Jobs'
  <2>1. \/ UNCHANGED <<at, job>>
        \/ /\ at' = [at EXCEPT ![c] = "msi"]
           /\ job' = [job EXCEPT ![c] = [NoJob EXCEPT !.unmask = TRUE, !.vec = v]]
    BY <1>6 DEF Unmask
  <2>2. LET j == [NoJob EXCEPT !.unmask = TRUE, !.vec = v] IN j.reply = NoReply /\ j.q = "fault"
    BY DEF NoJob
  <2> QED BY <2>1, <2>2, ThreadNames DEF Types, ThreadsTyped
<1>7. \/ UNCHANGED <<at, job>> \/ Fault \/ (\E k \in RequestKinds : PageRequest(k))
      \/ (\E t \in Threads : Continue(t))
      \/ (\E c \in Cpus, v \in Vectors : Unmask(c, v))
      \/ (\E c \in Cpus, q \in Queues : Acknowledge(c, q))
  BY Steps DEF vars, threads, Memory, TakeInterrupt, Drain, Clear, Mask, Disable, Enable
<1> HIDE DEF Jobs
<1> QED BY <1>1, <1>2, <1>3, <1>4, <1>5, <1>6, <1>7

LEMMA JobsInit == Init => Jobs
<1>1. NoJob.reply = NoReply /\ NoJob.q = "fault" /\ ~NoJob.unmask
  BY DEF NoJob
<1> QED BY <1>1, ThreadNames DEF Init, Jobs

-----------------------------------------------------------------------------
(* The fate of a page request.                                             *)

Reported == past["page"] \cup Range(accepted["page"])
Answered == {answers[i].pr : i \in DOMAIN answers}
Latest == Len(kind)
Reporting == at["msg"] = "record" /\ job["msg"].q = "page"
Replying == job["msg"].reply # NoReply

\* The numbers are those of requests; what "msg" holds is the last of them.
Numbered == /\ Reported \cup Answered \subseteq 1 .. Latest
            /\ Reporting \/ Replying => Latest # 0
            /\ Replying => job["msg"].reply.pr = Latest
            /\ Reporting => job["msg"].rec = Latest

\* No request has two fates, one of them in the hands of "msg".
Once == /\ \A i, j \in DOMAIN answers : answers[i].pr = answers[j].pr => i = j
        /\ Reported \cap Answered = {}
        /\ ~(Reporting /\ Replying)
        /\ Reporting \/ Replying => Latest \notin Reported \cup Answered

\* Every request that needs a response has met one, or "msg" still holds it.
Settled == \A n \in 1 .. Latest :
             \/ kind[n] = "more" \/ n \in Reported \cup Answered
             \/ n = Latest /\ (Reporting \/ Replying)

PageInv == Types /\ Jobs /\ Numbered /\ Once /\ Settled

\* An answer more.
LEMMA AnsweredMore ==
  ASSUME answers \in Seq(Reply), NEW r \in Reply, answers' = Append(answers, r),
         Answered \subseteq 1 .. Latest,
         \A i, j \in DOMAIN answers : answers[i].pr = answers[j].pr => i = j,
         r.pr \notin Answered
  PROVE  /\ Answered' = Answered \cup {r.pr}
         /\ (\A i, j \in DOMAIN answers : answers[i].pr = answers[j].pr => i = j)'
<1> DEFINE l == Len(answers)
<1>1. /\ l \in Nat /\ DOMAIN answers = 1 .. l /\ DOMAIN answers' = 1 .. l + 1
      /\ \A i \in 1 .. l : answers'[i] = answers[i]
      /\ answers'[l + 1] = r
  OBVIOUS
<1> HIDE DEF l
<1>2. Answered' = Answered \cup {r.pr}
  <2>1. ASSUME NEW x \in Answered' PROVE x \in Answered \cup {r.pr}
    BY <1>1, <2>1 DEF Answered
  <2>2. ASSUME NEW x \in Answered \cup {r.pr} PROVE x \in Answered'
    <3>1. l + 1 \in 1 .. l + 1 /\ 1 .. l \subseteq 1 .. l + 1
      BY <1>1
    <3> QED BY <1>1, <2>2, <3>1 DEF Answered
  <2> QED BY <2>1, <2>2
<1>3. ASSUME NEW i \in 1 .. l + 1, NEW j \in 1 .. l + 1, answers'[i].pr = answers'[j].pr
      PROVE  i = j
  <2>1. CASE i \in 1 .. l /\ j \in 1 .. l
    BY <1>1, <1>3, <2>1
  <2>2. CASE i \in 1 .. l /\ j = l + 1
    <3>1. answers'[i].pr \in Answered
      BY <1>1, <2>2 DEF Answered
    <3> QED BY <1>1, <1>3, <2>2, <3>1
  <2>3. CASE j \in 1 .. l /\ i = l + 1
    <3>1. answers'[j].pr \in Answered
      BY <1>1, <2>3 DEF Answered
    <3> QED BY <1>1, <1>3, <2>3, <3>1
  <2> QED BY <1>1, <2>1, <2>2, <2>3
<1> QED BY <1>1, <1>2, <1>3

\* A record more.
LEMMA ReportedMore ==
  ASSUME HistoryTyped, NEW n \in Numbers, past'["page"] = past["page"],
         accepted'["page"] = Append(accepted["page"], n)
  PROVE  Reported' = Reported \cup {n}
<1>1. accepted["page"] \in Seq(Numbers)
  BY ThreadNames DEF HistoryTyped
<1>2. ToSet(Append(accepted["page"], n)) = ToSet(accepted["page"]) \cup {n}
  BY <1>1, AppendSet
<1>3. \A s \in Seq(Numbers) : Range(s) = ToSet(s)
  BY DEF Range, ToSet
<1>4. Append(accepted["page"], n) \in Seq(Numbers)
  BY <1>1
<1> QED BY <1>1, <1>2, <1>3, <1>4 DEF Reported

\* Whatever does not touch the requests.
LEMMA PageSame ==
  ASSUME Numbered, Once, Settled,
         Reported' = Reported, answers' = answers, kind' = kind,
         Reporting' <=> Reporting, Replying' <=> Replying,
         Replying => job'["msg"].reply = job["msg"].reply,
         Reporting => job'["msg"].rec = job["msg"].rec
  PROVE  Numbered' /\ Once' /\ Settled'
<1>1. Answered' = Answered /\ Latest' = Latest
  BY DEF Answered, Latest
<1>2. Numbered'
  BY <1>1 DEF Numbered, Replying, Reporting
<1>3. Once' /\ Settled'
  BY <1>1 DEF Once, Settled
<1> QED BY <1>2, <1>3

\* "msg" reports what it holds.
LEMMA PageReported ==
  ASSUME Numbered, Once, Settled, Reporting,
         Reported' = Reported \cup {Latest}, answers' = answers, kind' = kind,
         ~Reporting', ~Replying', Latest \in Nat
  PROVE  Numbered' /\ Once' /\ Settled'
<1>1. Answered' = Answered /\ Latest' = Latest
  BY DEF Answered, Latest
<1>2. Numbered'
  BY <1>1 DEF Numbered
<1>3. Once'
  BY <1>1 DEF Once
<1>4. Settled'
  BY <1>1 DEF Settled
<1> QED BY <1>2, <1>3, <1>4

\* "msg" answers what it holds.
LEMMA PageAnswered ==
  ASSUME Types, Numbered, Once, Settled, Replying,
         Reported' = Reported, answers' = Append(answers, job["msg"].reply), kind' = kind,
         ~Reporting', ~Replying'
  PROVE  Numbered' /\ Once' /\ Settled'
<1>1. Latest' = Latest /\ Latest \in Nat
  BY DEF Latest, Types, RequestsTyped
<1>2. job["msg"].reply \in Reply /\ job["msg"].reply.pr = Latest /\ answers \in Seq(Reply)
  BY ThreadNames DEF Types, ThreadsTyped, RequestsTyped, Job, Numbered
<1>3. /\ Answered' = Answered \cup {Latest}
      /\ (\A i, j \in DOMAIN answers : answers[i].pr = answers[j].pr => i = j)'
  <2>1. Answered \subseteq 1 .. Latest /\ Latest \notin Answered
    BY DEF Numbered, Once
  <2> HIDE DEF Latest
  <2> QED BY <1>2, <2>1, AnsweredMore DEF Once
<1>4. Numbered'
  BY <1>1, <1>3 DEF Numbered
<1>5. Once'
  BY <1>1, <1>3 DEF Once
<1>6. Settled'
  BY <1>1, <1>3 DEF Settled
<1> QED BY <1>4, <1>5, <1>6

\* A request more: it needs no response, or is answered, or "msg" holds it.
LEMMA PageArrives ==
  ASSUME Types, Numbered, Once, Settled, ~Reporting, ~Replying,
         NEW k \in RequestKinds, kind' = Append(kind, k), Reported' = Reported,
         \/ k = "more" /\ answers' = answers /\ ~Reporting' /\ ~Replying'
         \/ /\ \E r \in Reply : r.pr = Latest + 1 /\ answers' = Append(answers, r)
            /\ ~Reporting' /\ ~Replying'
         \/ /\ answers' = answers /\ ~Reporting' /\ Replying'
            /\ job'["msg"].reply.pr = Latest + 1
         \/ /\ answers' = answers /\ Reporting' /\ ~Replying'
            /\ job'["msg"].rec = Latest + 1
  PROVE  Numbered' /\ Once' /\ Settled'
<1>1. /\ Latest \in Nat /\ Latest' = Latest + 1 /\ kind'[Latest + 1] = k
      /\ \A n \in 1 .. Latest : kind'[n] = kind[n]
  BY DEF Latest, Types, RequestsTyped
<1>2. Reported \cup Answered \subseteq 1 .. Latest
  BY DEF Numbered
<1>3. \A n \in 1 .. Latest : kind[n] = "more" \/ n \in Reported \cup Answered
  BY DEF Settled
<1>4. /\ Reported \cap Answered = {}
      /\ \A i, j \in DOMAIN answers : answers[i].pr = answers[j].pr => i = j
  BY DEF Once
<1>9. ASSUME Answered \subseteq Answered',
             k = "more" \/ Latest + 1 \in Answered' \/ Reporting' \/ Replying'
      PROVE  Settled'
  <2> SUFFICES ASSUME NEW n \in 1 .. Latest + 1
               PROVE  \/ kind'[n] = "more" \/ n \in Reported' \cup Answered'
                      \/ n = Latest + 1 /\ (Reporting' \/ Replying')
    BY <1>1 DEF Settled
  <2>1. CASE n \in 1 .. Latest
    BY <1>1, <1>3, <1>9, <2>1
  <2>2. CASE n = Latest + 1
    BY <1>1, <1>9, <2>2
  <2>3. n \in 1 .. Latest \/ n = Latest + 1
    <3>1. \A m \in Nat : \A i \in 1 .. m + 1 : i \in 1 .. m \/ i = m + 1
      OBVIOUS
    <3> QED BY <1>1, <3>1
  <2> QED BY <2>1, <2>2, <2>3
<1>5. CASE k = "more" /\ answers' = answers /\ ~Reporting' /\ ~Replying'
  <2>1. Answered' = Answered
    BY <1>5 DEF Answered
  <2>2. Numbered' /\ Once'
    BY <1>1, <1>2, <1>4, <1>5, <2>1 DEF Numbered, Once
  <2> QED BY <1>5, <1>9, <2>1, <2>2
<1>6. CASE /\ \E r \in Reply : r.pr = Latest + 1 /\ answers' = Append(answers, r)
           /\ ~Reporting' /\ ~Replying'
  <2>1. PICK r \in Reply : r.pr = Latest + 1 /\ answers' = Append(answers, r)
    BY <1>6
  <2>2. r.pr \notin Answered /\ Answered \subseteq 1 .. Latest /\ answers \in Seq(Reply)
    BY <1>1, <1>2, <2>1 DEF Types, RequestsTyped
  <2>3. /\ Answered' = Answered \cup {r.pr}
        /\ (\A i, j \in DOMAIN answers : answers[i].pr = answers[j].pr => i = j)'
    BY <1>4, <2>1, <2>2, AnsweredMore
  <2>4. Numbered'
    BY <1>1, <1>2, <1>6, <2>1, <2>3 DEF Numbered
  <2>5. Once'
    BY <1>1, <1>2, <1>4, <1>6, <2>1, <2>3 DEF Once
  <2>6. Settled'
    BY <1>9, <2>1, <2>3
  <2> QED BY <2>4, <2>5, <2>6
<1>7. CASE /\ answers' = answers /\ ~Reporting' /\ Replying'
           /\ job'["msg"].reply.pr = Latest + 1
  <2>1. Answered' = Answered
    BY <1>7 DEF Answered
  <2>2. Numbered'
    BY <1>1, <1>2, <1>7, <2>1 DEF Numbered
  <2>3. Once'
    BY <1>1, <1>2, <1>4, <1>7, <2>1 DEF Once
  <2> QED BY <1>7, <1>9, <2>1, <2>2, <2>3
<1>8. CASE /\ answers' = answers /\ Reporting' /\ ~Replying'
           /\ job'["msg"].rec = Latest + 1
  <2>1. Answered' = Answered
    BY <1>8 DEF Answered
  <2>2. Numbered'
    BY <1>1, <1>2, <1>8, <2>1 DEF Numbered
  <2>3. Once'
    BY <1>1, <1>2, <1>4, <1>8, <2>1 DEF Once
  <2> QED BY <1>8, <1>9, <2>1, <2>2, <2>3
<1> QED BY <1>5, <1>6, <1>7, <1>8

\* How generate_interrupt leaves "msg" with the response r still to send or sent.
LEMMA RaisePage ==
  ASSUME Types, NEW q \in Queues, NEW r \in Reply, Raise("msg", q, r)
  PROVE  /\ ~Reporting'
         /\ \/ ~Replying' /\ answers' = (IF r = NoReply THEN answers ELSE Append(answers, r))
            \/ answers' = answers /\ job'["msg"].reply = r
<1>1. NoJob.reply = NoReply /\ [NoJob EXCEPT !.reply = r].reply = r
  BY DEF NoJob
<1>2. CASE Finish("msg", r)
  BY <1>1, <1>2, ThreadNames DEF Finish, Reporting, Replying, Types, ThreadsTyped
<1>3. CASE /\ at' = [at EXCEPT !["msg"] = "msi"] /\ answers' = answers
           /\ job' = [job EXCEPT !["msg"] = [NoJob EXCEPT !.reply = r]]
  BY <1>1, <1>3, ThreadNames DEF Reporting, Types, ThreadsTyped
<1> QED BY <1>2, <1>3 DEF Raise

\* How report_fault, or the second half of handle_page_request, leaves them.
LEMMA RecordPage ==
  ASSUME Types, NEW q \in Queues, NEW n \in Numbers,
         NEW a \in Reply, NEW b \in Reply, NEW c \in Reply, Record("msg", q, n, a, b, c)
  PROVE  \/ /\ ~Reporting'
            /\ \E r \in {a, b} :
                 \/ ~Replying' /\ answers' = (IF r = NoReply THEN answers ELSE Append(answers, r))
                 \/ answers' = answers /\ job'["msg"].reply = r
         \/ /\ answers' = answers /\ (Reporting' <=> q = "page")
            /\ job'["msg"].rec = n /\ job'["msg"].reply = c
<1>1. Refusal(q, a, b) \in {a, b} /\ Refusal(q, a, b) \in Reply
  BY DEF Refusal
<1>2. CASE Finish("msg", Refusal(q, a, b))
  <2>1. NoJob.reply = NoReply
    BY DEF NoJob
  <2> QED BY <1>1, <1>2, <2>1, ThreadNames DEF Finish, Reporting, Replying, Types, ThreadsTyped
<1>3. CASE Raise("msg", q, Refusal(q, a, b))
  BY <1>1, <1>3, RaisePage
<1>4. CASE /\ at' = [at EXCEPT !["msg"] = "record"]
           /\ job' = [job EXCEPT !["msg"] = [NoJob EXCEPT !.q = q, !.rec = n, !.slot = tail[q],
                                                          !.reply = c]]
           /\ answers' = answers
  <2> DEFINE j == [NoJob EXCEPT !.q = q, !.rec = n, !.slot = tail[q], !.reply = c]
  <2>1. j.q = q /\ j.rec = n /\ j.reply = c
    BY DEF NoJob
  <2> HIDE DEF j
  <2>2. job' = [job EXCEPT !["msg"] = j]
    BY <1>4 DEF j
  <2> QED BY <1>4, <2>1, <2>2, ThreadNames DEF Reporting, Types, ThreadsTyped
<1> QED BY <1>2, <1>3, <1>4 DEF Record

LEMMA PageRequestPage ==
  ASSUME PageInv, NEW k \in RequestKinds, PageRequest(k)
  PROVE  Numbered' /\ Once' /\ Settled'
<1>1. /\ at["msg"] = "idle" /\ kind' = Append(kind, k) /\ Latest + 1 <= MaxRecords
      /\ UNCHANGED history
  BY PageRequestCases DEF Latest
<1>2. ~Reporting /\ ~Replying
  <2>1. job["msg"] = NoJob
    BY <1>1, ThreadNames DEF PageInv, Jobs
  <2>2. NoJob.reply = NoReply
    BY DEF NoJob
  <2> QED BY <1>1, <2>1, <2>2 DEF Reporting, Replying
<1>3. Reported' = Reported
  BY <1>1 DEF Reported, history
<1>4. Latest \in Nat /\ Latest + 1 \in Numbers
  BY <1>1, Sizes DEF Latest, PageInv, Types, RequestsTyped, Numbers
<1>5. ASSUME NEW code \in {"invalid", "failure", "success"}
      PROVE  /\ PageReply(k, code) \in Reply
             /\ (k = "more" => PageReply(k, code) = NoReply)
             /\ (k # "more" => PageReply(k, code) # NoReply /\ PageReply(k, code).pr = Latest + 1)
  BY <1>4, Nothing DEF PageReply, Reply, Latest, NoReply
<1>6. ASSUME NEW r, ~Reporting',
             \E code \in {"invalid", "failure", "success"} : r = PageReply(k, code),
             \/ ~Replying' /\ answers' = (IF r = NoReply THEN answers ELSE Append(answers, r))
             \/ answers' = answers /\ job'["msg"].reply = r
      PROVE  Numbered' /\ Once' /\ Settled'
  <2>1. /\ r \in Reply /\ (k = "more" => r = NoReply)
        /\ (k # "more" => r # NoReply /\ r.pr = Latest + 1)
    BY <1>5, <1>6
  <2>2. CASE k = "more"
    <3>1. answers' = answers /\ ~Replying'
      BY <1>6, <2>1, <2>2 DEF Replying
    <3> QED BY <1>1, <1>2, <1>3, <1>6, <2>2, <3>1, PageArrives DEF PageInv
  <2>3. CASE k # "more" /\ ~Replying' /\ answers' = Append(answers, r)
    BY <1>1, <1>2, <1>3, <1>6, <2>1, <2>3, PageArrives DEF PageInv
  <2>4. CASE k # "more" /\ answers' = answers /\ job'["msg"].reply = r
    <3>1. Replying' /\ job'["msg"].reply.pr = Latest + 1
      BY <2>1, <2>4 DEF Replying
    <3> QED BY <1>1, <1>2, <1>3, <1>6, <2>4, <3>1, PageArrives DEF PageInv
  <2> QED BY <1>6, <2>1, <2>2, <2>3, <2>4
<1>7. CASE /\ k = "disallowed" /\ made["fault"] + 1 <= MaxRecords
           /\ Record("msg", "fault", made["fault"] + 1, PageReply(k, "invalid"),
                     PageReply(k, "invalid"), PageReply(k, "invalid"))
  <2>1. made["fault"] + 1 \in Numbers
    BY <1>7, Sizes, ThreadNames DEF Numbers, PageInv, Types, RequestsTyped
  <2>2. PageReply(k, "invalid") \in Reply
    BY <1>5
  <2> DEFINE r == PageReply(k, "invalid")
  <2> HIDE DEF r
  <2>3. r \in Reply /\ Record("msg", "fault", made["fault"] + 1, r, r, r)
    BY <1>7, <2>2 DEF r
  <2>4. \/ /\ ~Reporting'
           /\ \/ ~Replying' /\ answers' = (IF r = NoReply THEN answers ELSE Append(answers, r))
              \/ answers' = answers /\ job'["msg"].reply = r
        \/ answers' = answers /\ ~Reporting' /\ job'["msg"].reply = r
    BY <2>1, <2>3, RecordPage, ThreadNames DEF PageInv
  <2> QED BY <1>6, <2>4 DEF r
<1>8. CASE /\ k # "disallowed"
           /\ Record("msg", "page", Latest + 1, PageReply(k, "failure"), PageReply(k, "success"),
                     NoReply)
  <2>1. PageReply(k, "failure") \in Reply /\ PageReply(k, "success") \in Reply /\ NoReply \in Reply
    BY <1>5, Nothing
  <2>2. \/ /\ ~Reporting'
           /\ \E r \in {PageReply(k, "failure"), PageReply(k, "success")} :
                 \/ ~Replying' /\ answers' = (IF r = NoReply THEN answers ELSE Append(answers, r))
                 \/ answers' = answers /\ job'["msg"].reply = r
        \/ /\ answers' = answers /\ Reporting'
           /\ job'["msg"].rec = Latest + 1 /\ job'["msg"].reply = NoReply
    BY <1>4, <1>8, <2>1, RecordPage, ThreadNames DEF PageInv
  <2>3. CASE /\ answers' = answers /\ Reporting'
             /\ job'["msg"].rec = Latest + 1 /\ job'["msg"].reply = NoReply
    <3>1. ~Replying'
      BY <2>3 DEF Replying
    <3> QED BY <1>1, <1>2, <1>3, <2>3, <3>1, PageArrives DEF PageInv
  <2>4. ASSUME ~Reporting',
               NEW r \in {PageReply(k, "failure"), PageReply(k, "success")},
               \/ ~Replying' /\ answers' = (IF r = NoReply THEN answers ELSE Append(answers, r))
               \/ answers' = answers /\ job'["msg"].reply = r
        PROVE  Numbered' /\ Once' /\ Settled'
    <3>1. \E code \in {"invalid", "failure", "success"} : r = PageReply(k, code)
      BY <2>4
    <3> QED BY <1>6, <2>4, <3>1
  <2> QED BY <2>2, <2>3, <2>4
<1> QED BY <1>7, <1>8, PageRequestCases DEF Latest

LEMMA ContinuePage ==
  ASSUME PageInv, Continue("msg")
  PROVE  Numbered' /\ Once' /\ Settled'
<1> DEFINE j == job["msg"]
<1>1. /\ j \in Job /\ kind' = kind /\ past' = past /\ at["msg"] # "idle"
      /\ \/ /\ at["msg"] = "record"
            /\ accepted' = [accepted EXCEPT ![j.q] = Append(@, j.rec)]
            /\ Raise("msg", j.q, j.reply)
         \/ /\ at["msg"] = "msi" /\ Finish("msg", j.reply) /\ accepted' = accepted
  BY ContinueCases, ThreadNames DEF PageInv, Jobs
<1>2. j.q \in Queues /\ j.rec \in Numbers /\ j.reply \in Reply
  BY <1>1 DEF Job
<1>3. Latest \in Nat /\ accepted \in [Queues -> Seq(Numbers)] /\ HistoryTyped
  BY DEF Latest, PageInv, Types, RequestsTyped, HistoryTyped
<1>4. CASE Reporting
  <2>1. j.q = "page" /\ j.rec = Latest /\ j.reply = NoReply /\ at["msg"] = "record"
    BY <1>4 DEF PageInv, Numbered, Once, Reporting, Replying
  <2>2. accepted'["page"] = Append(accepted["page"], Latest) /\ past' = past
    BY <1>1, <1>3, <2>1, ThreadNames
  <2>3. Reported' = Reported \cup {Latest}
    BY <1>2, <1>3, <2>1, <2>2, ReportedMore
  <2>4. ~Reporting' /\ ~Replying' /\ answers' = answers
    <3>1. /\ ~Reporting'
          /\ \/ ~Replying' /\ answers' = answers
             \/ answers' = answers /\ job'["msg"].reply = NoReply
      BY <1>1, <1>2, <2>1, RaisePage DEF PageInv
    <3> QED BY <3>1 DEF Replying
  <2> QED BY <1>1, <1>3, <1>4, <2>3, <2>4, PageReported DEF PageInv
<1>5. CASE ~Reporting
  <2>1. Reported' = Reported
    <3>1. accepted'["page"] = accepted["page"]
      <4>1. CASE at["msg"] = "record"
        <5>1. j.q # "page"
          BY <1>5, <4>1 DEF Reporting
        <5> HIDE DEF j
        <5> QED BY <1>1, <1>2, <1>3, <4>1, <5>1, ThreadNames
      <4>2. CASE at["msg"] = "msi"
        BY <1>1, <4>2
      <4> QED BY <1>1, <4>1, <4>2
    <3> QED BY <1>1, <3>1 DEF Reported
  <2>2. /\ ~Reporting'
        /\ \/ ~Replying' /\ answers' = (IF j.reply = NoReply THEN answers
                                                               ELSE Append(answers, j.reply))
           \/ answers' = answers /\ job'["msg"].reply = j.reply
    <3>1. CASE Raise("msg", j.q, j.reply)
      BY <1>2, <3>1, RaisePage DEF PageInv
    <3>2. CASE Finish("msg", j.reply)
      <4>1. NoJob.reply = NoReply
        BY DEF NoJob
      <4> QED BY <3>2, <4>1, ThreadNames
              DEF Finish, Reporting, Replying, PageInv, Types, ThreadsTyped
    <3> QED BY <1>1, <3>1, <3>2
  <2>3. CASE j.reply = NoReply
    <3>1. answers' = answers /\ ~Replying' /\ ~Replying
      BY <2>2, <2>3 DEF Replying
    <3> QED BY <1>1, <1>5, <2>1, <2>2, <3>1, PageSame DEF PageInv
  <2>4. CASE j.reply # NoReply /\ ~Replying' /\ answers' = Append(answers, j.reply)
    <3>1. Replying
      BY <2>4 DEF Replying
    <3> QED BY <1>1, <2>1, <2>2, <2>4, <3>1, PageAnswered DEF PageInv
  <2>5. CASE answers' = answers /\ job'["msg"].reply = j.reply
    <3>1. Replying' <=> Replying
      BY <2>5 DEF Replying
    <3> QED BY <1>1, <1>5, <2>1, <2>2, <2>5, <3>1, PageSame DEF PageInv
  <2> QED BY <2>2, <2>3, <2>4, <2>5
<1> QED BY <1>4, <1>5

LEMMA PageInit == Init => PageInv
<1> SUFFICES ASSUME Init PROVE PageInv
  OBVIOUS
<1>1. Reported = {} /\ Answered = {} /\ Latest = 0 /\ ~Reporting /\ ~Replying
  <2>1. NoJob.reply = NoReply
    BY DEF NoJob
  <2> QED BY <2>1, ThreadNames DEF Init, Reported, Answered, Latest, Reporting, Replying, Range
<1>2. \A i, j \in DOMAIN answers : answers[i].pr = answers[j].pr => i = j
  BY DEF Init
<1> QED BY <1>1, <1>2, TypesInit, JobsInit DEF PageInv, Numbered, Once, Settled

LEMMA PageStep == PageInv /\ [Next]_vars => PageInv'
<1> SUFFICES ASSUME PageInv, [Next]_vars PROVE PageInv'
  OBVIOUS
<1>1. Types' /\ Jobs'
  BY TypesStep, JobsStep DEF PageInv
<1>2. ASSUME Reported' = Reported, answers' = answers, kind' = kind,
             at'["msg"] = at["msg"], job'["msg"] = job["msg"]
      PROVE  Numbered' /\ Once' /\ Settled'
  <2>1. (Reporting' <=> Reporting) /\ (Replying' <=> Replying)
    BY <1>2 DEF Reporting, Replying
  <2> QED BY <1>2, <2>1, PageSame DEF PageInv
<1>3. ASSUME UNCHANGED <<at, job, answers, kind, history>>
      PROVE  Numbered' /\ Once' /\ Settled'
  <2>1. Reported' = Reported
    BY <1>3 DEF Reported, history
  <2> QED BY <1>2, <1>3, <2>1
<1>4. ASSUME Fault PROVE Numbered' /\ Once' /\ Settled'
  <2>1. /\ Record("fault_cq", "fault", made["fault"] + 1, NoReply, NoReply, NoReply)
        /\ kind' = kind /\ UNCHANGED history
    BY <1>4 DEF Fault
  <2>2. made["fault"] + 1 \in Numbers
    BY <1>4, Sizes, ThreadNames DEF Fault, Numbers, PageInv, Types, RequestsTyped
  <2>3. at'["msg"] = at["msg"] /\ job'["msg"] = job["msg"]
    BY <2>1, <2>2, RecordTyped, ThreadNames, Nothing DEF PageInv
  <2>4. answers' = answers
    BY <2>1 DEF Record, Raise, Finish, Refusal
  <2>5. Reported' = Reported
    BY <2>1 DEF Reported, history
  <2> QED BY <1>2, <2>1, <2>3, <2>4, <2>5
<1>5. ASSUME NEW t \in Threads \ {"msg"}, Continue(t) PROVE Numbered' /\ Once' /\ Settled'
  <2>1. /\ job[t] \in Job /\ kind' = kind /\ past' = past
        /\ job[t].reply = NoReply /\ job[t].q = "fault"
    BY <1>5, ContinueCases DEF PageInv, Jobs
  <2>2. \/ /\ accepted' = [accepted EXCEPT !["fault"] = Append(@, job[t].rec)]
           /\ Raise(t, "fault", NoReply)
        \/ Finish(t, NoReply) /\ accepted' = accepted
    BY <1>5, <2>1, ContinueCases DEF PageInv
  <2>3. Reported' = Reported
    BY <2>1, <2>2, ThreadNames DEF Reported, PageInv, Types, HistoryTyped
  <2>4. answers' = answers
    BY <2>2 DEF Raise, Finish
  <2>5. at'["msg"] = at["msg"] /\ job'["msg"] = job["msg"]
    <3>1. "msg" \in Threads \ {t}
      BY ThreadNames
    <3>2. CASE Raise(t, "fault", NoReply)
      BY <3>1, <3>2, RaiseTyped, Nothing, ThreadNames DEF PageInv, Types
    <3>3. CASE Finish(t, NoReply)
      BY <3>1, <3>3, FinishTyped, Nothing DEF PageInv, Types
    <3> QED BY <2>2, <3>2, <3>3
  <2> QED BY <1>2, <2>1, <2>3, <2>4, <2>5
<1>6. ASSUME NEW c \in Cpus, NEW q \in Queues, NEW v \in Vectors, Acknowledge(c, q) \/ Unmask(c, v)
      PROVE  Numbered' /\ Once' /\ Settled'
  <2>1. /\ UNCHANGED <<kind, answers, history>>
        /\ at' = at \/ at' = [at EXCEPT ![c] = "msi"]
        /\ job' = job \/ \E j : job' = [job EXCEPT ![c] = j]
    BY <1>6 DEF Acknowledge, Unmask
  <2>2. at'["msg"] = at["msg"] /\ job'["msg"] = job["msg"]
    BY <2>1, ThreadNames DEF PageInv, Types, ThreadsTyped
  <2> QED BY <1>2, <2>1, <2>2 DEF Reported, history
<1>7. ASSUME NEW c \in Cpus, NEW q \in Queues, Drain(c, q) PROVE Numbered' /\ Once' /\ Settled'
  BY <1>2, <1>7 DEF Drain, Reported, threads
<1>8. ASSUME NEW q \in Queues, Enable(q) PROVE Numbered' /\ Once' /\ Settled'
  <2>1. Reported' = Reported
    <3>1. Range(<< >>) = {}
      BY DEF Range
    <3> QED BY <1>8, <3>1, ThreadNames DEF Enable, Reported, PageInv, Types, HistoryTyped
  <2> QED BY <1>2, <1>8, <2>1 DEF Enable, threads
<1>9. \/ UNCHANGED <<at, job, answers, kind, history>> \/ Fault
      \/ (\E k \in RequestKinds : PageRequest(k))
      \/ (\E t \in Threads : Continue(t))
      \/ (\E c \in Cpus, v \in Vectors : Unmask(c, v))
      \/ (\E c \in Cpus, q \in Queues : Acknowledge(c, q))
      \/ (\E c \in Cpus, q \in Queues : Drain(c, q))
      \/ (\E q \in Queues : Enable(q))
  BY Steps DEF vars, threads, history, Memory, TakeInterrupt, Clear, Mask, Disable
<1>10. Numbered' /\ Once' /\ Settled'
  <2>1. ASSUME NEW t \in Threads, Continue(t) PROVE Numbered' /\ Once' /\ Settled'
    BY <1>5, <2>1, ContinuePage
  <2>2. ASSUME NEW c \in Cpus, NEW v \in Vectors, Unmask(c, v) PROVE Numbered' /\ Once' /\ Settled'
    BY <1>6, <2>2, ThreadNames
  <2>3. ASSUME NEW c \in Cpus, NEW q \in Queues, Acknowledge(c, q)
        PROVE  Numbered' /\ Once' /\ Settled'
    BY <1>6, <2>3, Sizes
  <2> QED BY <1>3, <1>4, <1>7, <1>8, <1>9, <2>1, <2>2, <2>3, PageRequestPage
<1> QED BY <1>1, <1>10 DEF PageInv

\* EachPageRequestOnce says what PageInv says.
LEMMA PageInvEnough == PageInv => EachPageRequestOnce
<1> SUFFICES ASSUME PageInv, NEW n \in DOMAIN kind
             PROVE  LET reported == n \in past["page"] \cup Range(accepted["page"])
                        own == {i \in DOMAIN answers : answers[i].pr = n}
                        underway == n = Len(kind) /\ at["msg"] # "idle"
                    IN  /\ Cardinality(own) <= 1 /\ (reported => own = {})
                        /\ kind[n] # "more" /\ ~underway => reported \/ own # {}
  BY DEF EachPageRequestOnce
<1> DEFINE own == {i \in DOMAIN answers : answers[i].pr = n}
<1>1. n \in 1 .. Latest
  BY DEF PageInv, Types, RequestsTyped, Latest
<1>2. own # {} <=> n \in Answered
  BY DEF Answered
<1>3. \A i, j \in own : i = j
  BY DEF PageInv, Once
<1>4. Cardinality(own) <= 1
  <2> HIDE DEF own
  <2>1. CASE own = {}
    BY <2>1, FS_EmptySet
  <2>2. CASE own # {}
    <3>1. PICK i \in own : TRUE
      BY <2>2
    <3>2. own = {i}
      BY <1>3, <3>1
    <3>3. Cardinality({i}) = 1
      BY FS_Singleton
    <3> QED BY <3>2, <3>3
  <2> QED BY <2>1, <2>2
<1>5. Reporting \/ Replying => at["msg"] # "idle"
  <2>1. NoJob.reply = NoReply
    BY DEF NoJob
  <2> QED BY <2>1, ThreadNames DEF PageInv, Jobs, Reporting, Replying
<1>6. n \in Reported => own = {}
  BY <1>2 DEF PageInv, Once
<1>7. kind[n] # "more" /\ ~(n = Len(kind) /\ at["msg"] # "idle") => n \in Reported \/ own # {}
  BY <1>1, <1>2, <1>5 DEF PageInv, Settled, Latest
<1> QED BY <1>4, <1>6, <1>7 DEF Reported

\* A page request of a device is answered by the IOMMU or put before the driver, never
\* both and never twice, and one that needs an answer gets one of them
\* (handle_page_request), however the writes of the two threads interleave, the queue
\* overflows, and the driver disables and enables it.
THEOREM PageRequestsSettled == Spec => []EachPageRequestOnce
<1>1. Init => PageInv
  BY PageInit
<1>2. PageInv /\ [Next]_vars => PageInv'
  BY PageStep
<1> QED BY <1>1, <1>2, PageInvEnough, PTL DEF Spec

-----------------------------------------------------------------------------
(* Interrupts.                                                             *)

Msi(v) == [what |-> "msi", v |-> v]

\* The message of q is on its way, has arrived, or a handler works for it.
Underway(q) == \/ Icvec[q] \in irq
               \/ Msi(Icvec[q]) \in Range(sent)
               \/ \E c \in Cpus : <<"ack", q>> \in duty[c]

\* release_pending_interrupt clears msi_pending and m after its message was taken: by
\* then nothing may stand behind the mask alone.
Unmasking == \A c \in Cpus : at[c] = "msi" /\ job[c].unmask =>
               \A q \in Queues : ip[q] /\ Icvec[q] = job[c].vec => Underway(q)

\* NoLostInterrupt in these words.
Standing == \A q \in Queues : ip[q] =>
              Underway(q) \/ (masked[Icvec[q]] /\ msi_pending[Icvec[q]])

Sound == Types /\ Jobs /\ Unmasking /\ Standing

LEMMA StandingEnough == Standing => NoLostInterrupt
  BY DEF Standing, Underway, Msi, NoLostInterrupt

LEMMA RangeAppend ==
  ASSUME sent \in Seq(Message), NEW m \in Message
  PROVE  Range(Append(sent, m)) = Range(sent) \cup {m}
<1>1. \A s \in Seq(Message) : Range(s) = ToSet(s)
  BY DEF Range, ToSet
<1>2. Append(sent, m) \in Seq(Message)
  OBVIOUS
<1>3. ToSet(Append(sent, m)) = ToSet(sent) \cup {m}
  BY AppendSet
<1> QED BY <1>1, <1>2, <1>3

LEMMA UnderwayKept ==
  ASSUME irq' = irq, Range(sent) \subseteq Range(sent'), duty' = duty
  PROVE  \A q \in Queues : Underway(q) => Underway(q)'
  BY DEF Underway

\* generate_interrupt starts a message or leaves one to the end of the mask.
LEMMA RaiseStanding ==
  ASSUME Types, Standing, NEW t \in Threads, NEW q \in Queues, NEW r, Raise(t, q, r),
         irq' = irq, duty' = duty, masked' = masked
  PROVE  Standing'
<1>1. Icvec[q] \in Vectors /\ Msi(Icvec[q]) \in Message
  BY Sizes DEF Msi, Message
<1>2. Range(sent) \subseteq Range(sent')
  BY <1>1, RangeAppend DEF Raise, Msi, Types, ThreadsTyped
<1>3. \A p \in Queues : Underway(p) => Underway(p)'
  BY <1>2, UnderwayKept
<1>4. \A v \in Vectors : msi_pending[v] => msi_pending'[v]
  BY <1>1 DEF Raise, Pended, Types, InterruptsTyped
<1>5. \A p \in Queues \ {q} : ip'[p] = ip[p]
  BY DEF Raise, Types, InterruptsTyped
<1>6. ASSUME NEW p \in Queues, ip[p]
      PROVE  Underway(p)' \/ (masked'[Icvec[p]] /\ msi_pending'[Icvec[p]])
  <2>1. Icvec[p] \in Vectors
    BY Sizes
  <2>2. Underway(p) \/ (masked[Icvec[p]] /\ msi_pending[Icvec[p]])
    BY <1>6 DEF Standing
  <2> QED BY <1>3, <1>4, <2>1, <2>2
<1>7. ip[q] \/ Underway(q)' \/ (masked'[Icvec[q]] /\ msi_pending'[Icvec[q]])
  <2>1. CASE ~ip[q] /\ masked[Icvec[q]] /\ msi_pending' = Pended(Icvec[q])
    BY <1>1, <2>1 DEF Pended, Types, InterruptsTyped
  <2>2. CASE sent' = Append(sent, Msi(Icvec[q]))
    <3>1. Msi(Icvec[q]) \in Range(sent')
      BY <1>1, <2>2, RangeAppend DEF Types, ThreadsTyped
    <3> QED BY <3>1 DEF Underway
  <2> QED BY <2>1, <2>2 DEF Raise, Msi
<1> QED BY <1>5, <1>6, <1>7 DEF Standing

LEMMA RecordStanding ==
  ASSUME Sound, NEW t \in Threads, NEW q \in Queues, NEW n \in Numbers, NEW a, NEW b, NEW c,
         Record(t, q, n, a, b, c), irq' = irq, duty' = duty, masked' = masked
  PROVE  Standing' /\ Range(sent) \subseteq Range(sent')
<1>1. [what |-> "record", q |-> q, slot |-> tail[q], rec |-> n] \in Message
  BY DEF Message, Sound, Types, QueuesTyped
<1>2. Msi(Icvec[q]) \in Message
  BY Sizes DEF Msi, Message
<1>3. Range(sent) \subseteq Range(sent')
  BY <1>1, <1>2, RangeAppend DEF Record, Raise, Msi, Sound, Types, ThreadsTyped
<1>4. CASE Raise(t, q, Refusal(q, a, b))
  BY <1>3, <1>4, RaiseStanding DEF Sound
<1>5. CASE UNCHANGED <<ip, msi_pending>>
  BY <1>3, <1>5, UnderwayKept, Sizes DEF Sound, Standing
<1> QED BY <1>3, <1>4, <1>5 DEF Record

\* The end of release_pending_interrupt is where Unmasking is needed.
LEMMA ContinueStanding ==
  ASSUME Sound, NEW t \in Threads, Continue(t)
  PROVE  Standing' /\ Range(sent) \subseteq Range(sent')
<1> DEFINE j == job[t]
<1>1. /\ j \in Job /\ irq' = irq /\ duty' = duty
      /\ \/ masked' = masked /\ Raise(t, j.q, j.reply)
         \/ UNCHANGED <<interrupts, sent>>
         \/ /\ at[t] = "msi" /\ j.unmask
            /\ msi_pending' = [msi_pending EXCEPT ![j.vec] = FALSE]
            /\ masked' = [masked EXCEPT ![j.vec] = FALSE]
            /\ UNCHANGED <<ip, sent>>
  BY ContinueCases DEF Sound
<1>2. j.q \in Queues /\ j.vec \in Vectors
  BY <1>1 DEF Job
<1>3. CASE masked' = masked /\ Raise(t, j.q, j.reply)
  <2>1. Msi(Icvec[j.q]) \in Message
    BY <1>2, Sizes DEF Msi, Message
  <2>2. Range(sent) \subseteq Range(sent')
    BY <1>3, <2>1, RangeAppend DEF Raise, Msi, Sound, Types, ThreadsTyped
  <2> QED BY <1>1, <1>2, <1>3, <2>2, RaiseStanding DEF Sound
<1>4. CASE UNCHANGED <<interrupts, sent>>
  BY <1>1, <1>4, UnderwayKept, Sizes DEF Sound, Standing, interrupts
<1>5. CASE /\ at[t] = "msi" /\ j.unmask
           /\ msi_pending' = [msi_pending EXCEPT ![j.vec] = FALSE]
           /\ masked' = [masked EXCEPT ![j.vec] = FALSE]
           /\ UNCHANGED <<ip, sent>>
  <2>1. t \in Cpus
    BY <1>5 DEF Sound, Jobs, Threads
  <2>2. \A q \in Queues : Underway(q) => Underway(q)'
    BY <1>1, <1>5, UnderwayKept
  <2>3. ASSUME NEW q \in Queues, ip'[q]
        PROVE  Underway(q)' \/ (masked'[Icvec[q]] /\ msi_pending'[Icvec[q]])
    <3>1. ip[q] /\ Icvec[q] \in Vectors
      BY <1>5, <2>3, Sizes
    <3>2. CASE Icvec[q] = j.vec
      BY <1>5, <2>1, <2>2, <3>1, <3>2 DEF Sound, Unmasking
    <3>3. CASE Icvec[q] # j.vec
      <4>1. masked'[Icvec[q]] = masked[Icvec[q]] /\ msi_pending'[Icvec[q]] = msi_pending[Icvec[q]]
        BY <1>2, <1>5, <3>1, <3>3 DEF Sound, Types, InterruptsTyped
      <4> QED BY <2>2, <3>1, <4>1 DEF Sound, Standing
    <3> QED BY <3>2, <3>3
  <2> QED BY <1>5, <2>3 DEF Standing
<1> QED BY <1>1, <1>3, <1>4, <1>5

LEMMA MemoryStanding ==
  ASSUME Sound, Memory
  PROVE  /\ Standing' /\ \A q \in Queues : Underway(q) => Underway(q)'
         /\ \A v : v \in irq \/ Msi(v) \in Range(sent) => v \in irq' \/ Msi(v) \in Range(sent')
<1> DEFINE w == Head(sent)
<1>1. sent # << >> /\ sent' = Tail(sent) /\ UNCHANGED <<ip, masked, msi_pending, duty>>
  BY DEF Memory, interrupts
<1>2. (w.what = "record" /\ irq' = irq) \/ irq' = irq \cup {w.v}
  BY DEF Memory
<1>3. Range(sent) = {w} \cup Range(sent')
  <2>1. sent \in Seq(Message) /\ sent' \in Seq(Message)
    BY <1>1, TailSet DEF Sound, Types, ThreadsTyped
  <2>2. \A s \in Seq(Message) : Range(s) = ToSet(s)
    BY DEF Range, ToSet
  <2> QED BY <1>1, <2>1, <2>2, TailSet
<1>4. ASSUME NEW v, v \in irq \/ Msi(v) \in Range(sent)
      PROVE  v \in irq' \/ Msi(v) \in Range(sent')
  <2>1. CASE Msi(v) = w
    <3>1. w.what = "msi" /\ w.v = v
      BY <2>1 DEF Msi
    <3> QED BY <1>2, <3>1
  <2>2. CASE Msi(v) # w
    BY <1>2, <1>3, <1>4, <2>2
  <2> QED BY <2>1, <2>2
<1>5. \A q \in Queues : Underway(q) => Underway(q)'
  BY <1>1, <1>4 DEF Underway
<1> QED BY <1>1, <1>4, <1>5, Sizes DEF Sound, Standing

\* A CPU that takes the message takes over what it stood for.
LEMMA TakeStanding ==
  ASSUME Sound, NEW c \in Cpus, NEW v \in Vectors, TakeInterrupt(c, v)
  PROVE  Standing' /\ \A q \in Queues : ip[q] /\ Underway(q) => Underway(q)'
<1>1. /\ irq' = irq \ {v} /\ duty[c] = {}
      /\ duty' = [duty EXCEPT ![c] = {<<"ack", q>> : q \in {p \in Queues : ip[p] /\ Icvec[p] = v}}]
      /\ UNCHANGED <<ip, masked, msi_pending, sent>>
  BY DEF TakeInterrupt, interrupts
<1>2. ASSUME NEW q \in Queues, ip[q], Underway(q) PROVE Underway(q)'
  <2>1. CASE Icvec[q] = v
    <3>1. <<"ack", q>> \in duty'[c]
      BY <1>1, <1>2, <2>1 DEF Sound, Types, InterruptsTyped
    <3> QED BY <3>1 DEF Underway
  <2>2. CASE Icvec[q] # v /\ Icvec[q] \in irq
    BY <1>1, <2>2 DEF Underway
  <2>3. CASE Msi(Icvec[q]) \in Range(sent)
    BY <1>1, <2>3 DEF Underway
  <2>4. CASE \E d \in Cpus : <<"ack", q>> \in duty[d]
    <3>1. PICK d \in Cpus : <<"ack", q>> \in duty[d]
      BY <2>4
    <3>2. d # c
      BY <1>1, <3>1
    <3>3. duty'[d] = duty[d]
      BY <1>1, <3>2 DEF Sound, Types, InterruptsTyped
    <3> QED BY <3>1, <3>3 DEF Underway
  <2> QED BY <1>2, <2>1, <2>2, <2>3, <2>4 DEF Underway
<1> QED BY <1>1, <1>2, Sizes DEF Sound, Standing

\* Writing ipsr re-raises the interrupt if its cause persists.
LEMMA AcknowledgeStanding ==
  ASSUME Sound, NEW c \in Cpus, NEW q \in Queues, Acknowledge(c, q)
  PROVE  Standing' /\ Range(sent) \subseteq Range(sent')
<1>1. /\ duty' = [duty EXCEPT ![c] = (@ \ {<<"ack", q>>}) \cup {<<"drain", q>>}]
      /\ UNCHANGED <<masked, irq>>
      /\ \/ /\ ip' = [ip EXCEPT ![q] = TRUE] /\ msi_pending' = msi_pending
            /\ sent' = Append(sent, Msi(Icvec[q]))
         \/ /\ ip' = [ip EXCEPT ![q] = Reraises(q)] /\ sent' = sent
            /\ msi_pending' = (IF Reraises(q) THEN Pended(Icvec[q]) ELSE msi_pending)
            /\ Reraises(q) => masked[Icvec[q]]
  BY DEF Acknowledge, registers, Msi
<1>2. Icvec[q] \in Vectors /\ Msi(Icvec[q]) \in Message
  BY Sizes DEF Msi, Message
<1>3. Range(sent) \subseteq Range(sent')
  BY <1>1, <1>2, RangeAppend DEF Sound, Types, ThreadsTyped
<1>4. ASSUME NEW p \in Queues \ {q}, ip'[p]
      PROVE  Underway(p)' \/ (masked'[Icvec[p]] /\ msi_pending'[Icvec[p]])
  <2>1. ip[p] /\ Icvec[p] \in Vectors
    BY <1>1, <1>4, Sizes DEF Sound, Types, InterruptsTyped
  <2>2. \A d \in Cpus : <<"ack", p>> \in duty[d] => <<"ack", p>> \in duty'[d]
    BY <1>1 DEF Sound, Types, InterruptsTyped
  <2>3. Underway(p) => Underway(p)'
    BY <1>1, <1>3, <2>2 DEF Underway
  <2>4. msi_pending[Icvec[p]] => msi_pending'[Icvec[p]]
    BY <1>1, <2>1 DEF Pended, Sound, Types, InterruptsTyped
  <2> QED BY <1>1, <2>1, <2>3, <2>4 DEF Sound, Standing
<1>5. ip'[q] => Underway(q)' \/ (masked'[Icvec[q]] /\ msi_pending'[Icvec[q]])
  <2>1. CASE sent' = Append(sent, Msi(Icvec[q]))
    <3>1. Msi(Icvec[q]) \in Range(sent')
      BY <1>2, <2>1, RangeAppend DEF Sound, Types, ThreadsTyped
    <3> QED BY <3>1 DEF Underway
  <2>2. CASE /\ ip' = [ip EXCEPT ![q] = Reraises(q)]
             /\ msi_pending' = (IF Reraises(q) THEN Pended(Icvec[q]) ELSE msi_pending)
             /\ Reraises(q) => masked[Icvec[q]]
    BY <1>1, <1>2, <2>2 DEF Pended, Sound, Types, InterruptsTyped
  <2> QED BY <1>1, <2>1, <2>2
<1> QED BY <1>3, <1>4, <1>5 DEF Standing

\* A handler that has acknowledged owes nothing that matters here.
LEMMA DrainClearStanding ==
  ASSUME Sound, NEW c \in Cpus, NEW q \in Queues, Drain(c, q) \/ Clear(c, q)
  PROVE  /\ Standing' /\ UNCHANGED <<ip, irq, at, job, sent>>
         /\ \A p \in Queues : Underway(p) => Underway(p)'
<1>1. /\ UNCHANGED <<ip, masked, msi_pending, irq, at, job, sent>>
      /\ \/ duty' = [duty EXCEPT ![c] = (@ \ {<<"drain", q>>}) \cup {<<"clear", q>>}]
         \/ duty' = [duty EXCEPT ![c] = @ \ {<<"clear", q>>}]
  BY DEF Drain, Clear, interrupts, threads
<1>2. ASSUME NEW p \in Queues, Underway(p) PROVE Underway(p)'
  <2>1. \A d \in Cpus : <<"ack", p>> \in duty[d] => <<"ack", p>> \in duty'[d]
    BY <1>1 DEF Sound, Types, InterruptsTyped
  <2> QED BY <1>1, <1>2, <2>1 DEF Underway
<1> QED BY <1>1, <1>2, Sizes DEF Sound, Standing

\* m is cleared at once only when no message waits behind it.
LEMMA UnmaskStanding ==
  ASSUME Sound, NEW c \in Cpus, NEW v \in Vectors, Unmask(c, v)
  PROVE  /\ Standing' /\ Range(sent) \subseteq Range(sent')
         /\ sent' # sent => Msi(v) \in Range(sent')
<1>1. /\ UNCHANGED <<ip, msi_pending, irq, duty>>
      /\ \/ sent' = Append(sent, Msi(v)) /\ masked' = masked
         \/ /\ ~msi_pending[v] /\ masked' = [masked EXCEPT ![v] = FALSE] /\ sent' = sent
  BY DEF Unmask, Released, Msi
<1>2. Msi(v) \in Message
  BY DEF Msi, Message
<1>3. Range(sent) \subseteq Range(sent') /\ (sent' # sent => Msi(v) \in Range(sent'))
  BY <1>1, <1>2, RangeAppend DEF Sound, Types, ThreadsTyped
<1>4. \A q \in Queues : Underway(q) => Underway(q)'
  BY <1>1, <1>3, UnderwayKept
<1>5. ASSUME NEW q \in Queues, ip'[q]
      PROVE  Underway(q)' \/ (masked'[Icvec[q]] /\ msi_pending'[Icvec[q]])
  <2>1. ip[q] /\ Icvec[q] \in Vectors
    BY <1>1, <1>5, Sizes
  <2>2. masked[Icvec[q]] /\ msi_pending[Icvec[q]] => masked'[Icvec[q]] /\ msi_pending'[Icvec[q]]
    BY <1>1, <2>1 DEF Sound, Types, InterruptsTyped
  <2> QED BY <1>4, <2>1, <2>2 DEF Sound, Standing
<1> QED BY <1>3, <1>5 DEF Standing

\* Every other step.
LEMMA QuietStanding ==
  ASSUME Sound, NEW v \in Vectors,
         UNCHANGED <<ip, masked, msi_pending, irq, duty, sent>> \/ Mask(v)
  PROVE  Standing' /\ UNCHANGED <<ip, irq, duty, sent>>
<1>1. UNCHANGED <<ip, msi_pending, irq, duty, sent>>
  BY DEF Mask
<1>2. \A q \in Queues : Underway(q) => Underway(q)'
  BY <1>1, UnderwayKept
<1>3. \A u \in Vectors : masked[u] => masked'[u]
  BY DEF Mask, Sound, Types, InterruptsTyped
<1> QED BY <1>1, <1>2, <1>3, Sizes DEF Sound, Standing

LEMMA FaultRecords ==
  ASSUME Types, Fault
  PROVE  /\ at["fault_cq"] = "idle" /\ Alone => \A u \in Threads : at[u] = "idle"
         /\ "fault_cq" \in Threads /\ NoReply \in Reply
         /\ made["fault"] + 1 \in Numbers /\ UNCHANGED <<irq, duty, masked>>
         /\ Record("fault_cq", "fault", made["fault"] + 1, NoReply, NoReply, NoReply)
  BY Sizes, ThreadNames, Nothing DEF Fault, Free, Numbers, Types, RequestsTyped

LEMMA PageRequestRecords ==
  ASSUME Types, NEW k \in RequestKinds, PageRequest(k)
  PROVE  /\ at["msg"] = "idle" /\ Alone => \A u \in Threads : at[u] = "idle"
         /\ UNCHANGED <<irq, duty, masked>>
         /\ \E q \in Queues, n \in Numbers, a, b, c \in Reply : Record("msg", q, n, a, b, c)
<1>1. UNCHANGED <<irq, duty, masked>> /\ (at["msg"] = "idle" /\ Alone => \A u \in Threads : at[u] = "idle")
  BY DEF PageRequest, Free
<1>2. Len(kind) + 1 \in Numbers /\ (made["fault"] + 1 <= MaxRecords => made["fault"] + 1 \in Numbers)
  BY PageRequestCases, Sizes, ThreadNames DEF Numbers, Types, RequestsTyped
<1>3. /\ PageReply(k, "invalid") \in Reply /\ PageReply(k, "failure") \in Reply
      /\ PageReply(k, "success") \in Reply /\ NoReply \in Reply
  BY <1>2, Nothing DEF PageReply, Reply
<1> QED BY <1>1, <1>2, <1>3, PageRequestCases, ThreadNames

\* Standing survives every step, whoever shares the control path, as long as
\* Unmasking holds before it.
LEMMA StandingStep == Sound /\ [Next]_vars => Standing'
<1> SUFFICES ASSUME Sound, [Next]_vars PROVE Standing'
  OBVIOUS
<1>1. Types
  BY DEF Sound
<1>2. CASE UNCHANGED <<ip, masked, msi_pending, irq, duty, sent>>
  BY <1>2, QuietStanding, Sizes, ThreadNames
<1>3. CASE Fault
  BY <1>1, <1>3, FaultRecords, RecordStanding, ThreadNames
<1>4. ASSUME NEW k \in RequestKinds, PageRequest(k) PROVE Standing'
  BY <1>1, <1>4, PageRequestRecords, RecordStanding, ThreadNames
<1>5. \/ UNCHANGED <<ip, masked, msi_pending, irq, duty, sent>> \/ Fault
      \/ (\E k \in RequestKinds : PageRequest(k)) \/ Memory
      \/ (\E t \in Threads : Continue(t))
      \/ (\E c \in Cpus, v \in Vectors : TakeInterrupt(c, v))
      \/ (\E c \in Cpus, v \in Vectors : Unmask(c, v))
      \/ (\E c \in Cpus, q \in Queues : Acknowledge(c, q))
      \/ (\E c \in Cpus, q \in Queues : Drain(c, q))
      \/ (\E c \in Cpus, q \in Queues : Clear(c, q))
      \/ (\E v \in Vectors : Mask(v))
  BY Steps DEF vars, threads, interrupts, Disable, Enable
<1> QED BY <1>2, <1>3, <1>4, <1>5, MemoryStanding, ContinueStanding, TakeStanding, UnmaskStanding,
           AcknowledgeStanding, DrainClearStanding, QuietStanding

-----------------------------------------------------------------------------
(* Unmasking, when one thread at a time uses the control path.             *)

OneAtATime == \A t, u \in Threads : at[t] # "idle" /\ at[u] # "idle" => t = u

AloneInv == Sound /\ OneAtATime

\* One thread was at work, or none, and it does not unmask afterwards.
LEMMA Settles ==
  ASSUME Types, NEW t \in Threads, \A u \in Threads \ {t} : at[u] = "idle",
         \A u \in Threads \ {t} : at'[u] = at[u], at'[t] = "msi" => ~job'[t].unmask
  PROVE  OneAtATime' /\ Unmasking'
<1>1. OneAtATime'
  BY DEF OneAtATime
<1>2. \A c \in Cpus : at'[c] = "msi" => c = t
  BY ThreadNames
<1> QED BY <1>1, <1>2 DEF Unmasking

LEMMA AloneRecord ==
  ASSUME AloneInv, Jobs', NEW t \in Reporters, NEW q \in Queues, NEW n \in Numbers,
         NEW a \in Reply, NEW b \in Reply, NEW c \in Reply, Record(t, q, n, a, b, c),
         \A u \in Threads : at[u] = "idle"
  PROVE  OneAtATime' /\ Unmasking'
<1>1. t \in Threads
  BY ThreadNames
<1>2. (\A u \in Threads \ {t} : at'[u] = at[u]) /\ ~job'[t].unmask
  BY <1>1, RecordTyped DEF AloneInv, Sound, Jobs
<1> QED BY <1>1, <1>2, Settles DEF AloneInv, Sound

LEMMA AloneContinue ==
  ASSUME AloneInv, NEW t \in Threads, Continue(t)
  PROVE  OneAtATime' /\ Unmasking'
<1> DEFINE j == job[t]
<1>1. /\ at[t] # "idle" /\ j \in Job
      /\ Raise(t, j.q, j.reply) \/ Finish(t, j.reply) \/ Finish(t, NoReply)
  BY ContinueCases DEF AloneInv, Sound
<1>2. \A u \in Threads \ {t} : at[u] = "idle"
  BY <1>1 DEF AloneInv, OneAtATime
<1>3. j.q \in Queues /\ j.reply \in Reply
  BY <1>1 DEF Job
<1>4. CASE Raise(t, j.q, j.reply)
  <2>1. \A u \in Threads \ {t} : at'[u] = at[u]
    BY <1>3, <1>4, RaiseTyped DEF AloneInv, Sound, Types
  <2>2. at'[t] = "msi" => ~job'[t].unmask
    <3> DEFINE r == j.reply
    <3>1. ~[NoJob EXCEPT !.reply = r].unmask
      BY DEF NoJob
    <3> HIDE DEF r
    <3>2. at'[t] = "msi" => job'[t] = [NoJob EXCEPT !.reply = r]
      BY <1>4 DEF Raise, Finish, AloneInv, Sound, Types, ThreadsTyped, r
    <3> QED BY <3>1, <3>2
  <2> QED BY <1>2, <2>1, <2>2, Settles DEF AloneInv, Sound
<1>5. ASSUME NEW r, Finish(t, r) PROVE OneAtATime' /\ Unmasking'
  <2>1. (\A u \in Threads \ {t} : at'[u] = at[u]) /\ at'[t] = "idle"
    BY <1>5 DEF Finish, AloneInv, Sound, Types, ThreadsTyped
  <2> QED BY <1>2, <2>1, Settles DEF AloneInv, Sound
<1> QED BY <1>1, <1>4, <1>5

LEMMA AloneStep == Alone /\ AloneInv /\ [Next]_vars => AloneInv'
<1> SUFFICES ASSUME Alone, AloneInv, [Next]_vars PROVE AloneInv'
  OBVIOUS
<1>1. Types' /\ Jobs' /\ Standing' /\ Sound /\ Types
  BY TypesStep, JobsStep, StandingStep DEF AloneInv, Sound
\* Steps that leave the threads alone.
<1>2. ASSUME UNCHANGED <<ip, at, job>>, \A q \in Queues : ip[q] /\ Underway(q) => Underway(q)'
      PROVE  OneAtATime' /\ Unmasking'
  BY <1>2 DEF AloneInv, Sound, OneAtATime, Unmasking
<1>3. ASSUME UNCHANGED <<ip, at, job, irq, duty, sent>> PROVE OneAtATime' /\ Unmasking'
  BY <1>2, <1>3, UnderwayKept
<1>4. ASSUME NEW q \in Queues, Disable(q) \/ Enable(q) PROVE OneAtATime' /\ Unmasking'
  BY <1>3, <1>4 DEF Disable, Enable, interrupts, threads
<1>5. ASSUME Fault PROVE OneAtATime' /\ Unmasking'
  BY <1>1, <1>5, FaultRecords, AloneRecord, ThreadNames DEF Fault, Free
<1>6. ASSUME NEW k \in RequestKinds, PageRequest(k) PROVE OneAtATime' /\ Unmasking'
  BY <1>1, <1>6, PageRequestRecords, PageRequestCases, AloneRecord, ThreadNames
<1>7. ASSUME Memory PROVE OneAtATime' /\ Unmasking'
  <2>1. UNCHANGED <<ip, at, job>>
    BY <1>7 DEF Memory, interrupts
  <2> QED BY <1>1, <1>2, <1>7, <2>1, MemoryStanding
<1>8. ASSUME NEW c \in Cpus, NEW v \in Vectors, TakeInterrupt(c, v)
      PROVE  OneAtATime' /\ Unmasking'
  <2>1. UNCHANGED <<ip, at, job>>
    BY <1>8 DEF TakeInterrupt, interrupts, threads
  <2> QED BY <1>1, <1>2, <1>8, <2>1, TakeStanding
<1>9. ASSUME NEW c \in Cpus, NEW q \in Queues, Drain(c, q) \/ Clear(c, q)
      PROVE  OneAtATime' /\ Unmasking'
  BY <1>1, <1>2, <1>9, DrainClearStanding
<1>10. ASSUME NEW v \in Vectors, Mask(v) PROVE OneAtATime' /\ Unmasking'
  BY <1>3, <1>10 DEF Mask, threads
<1>11. ASSUME NEW c \in Cpus, NEW q \in Queues, Acknowledge(c, q)
       PROVE  OneAtATime' /\ Unmasking'
  <2>1. /\ \A u \in Threads : at[u] = "idle"
        /\ job' = job /\ (at' = at \/ at' = [at EXCEPT ![c] = "msi"])
    BY <1>11 DEF Acknowledge, Free
  <2>2. c \in Threads /\ ~job'[c].unmask
    <3>1. ~NoJob.unmask
      BY DEF NoJob
    <3> QED BY <2>1, <3>1, ThreadNames DEF AloneInv, Sound, Jobs
  <2>3. \A u \in Threads \ {c} : at'[u] = at[u]
    BY <2>1 DEF AloneInv, Sound, Types, ThreadsTyped
  <2> QED BY <1>1, <2>1, <2>2, <2>3, Settles
<1>12. ASSUME NEW c \in Cpus, NEW v \in Vectors, Unmask(c, v)
       PROVE  OneAtATime' /\ Unmasking'
  <2>1. /\ \A u \in Threads : at[u] = "idle"
        /\ \/ UNCHANGED <<ip, at, job, irq, duty, sent>>
           \/ /\ at' = [at EXCEPT ![c] = "msi"] /\ sent' # sent
              /\ job' = [job EXCEPT ![c] = [NoJob EXCEPT !.unmask = TRUE, !.vec = v]]
    <3>1. Append(sent, Msi(v)) # sent
      <4>1. Msi(v) \in Message /\ sent \in Seq(Message)
        BY <1>1 DEF Msi, Message, Types, ThreadsTyped
      <4>2. Len(Append(sent, Msi(v))) = Len(sent) + 1 /\ Len(sent) \in Nat
        BY <4>1
      <4> QED BY <4>2
    <3> QED BY <1>12, <3>1 DEF Unmask, Free, Msi
  <2>2. CASE /\ at' = [at EXCEPT ![c] = "msi"] /\ sent' # sent
             /\ job' = [job EXCEPT ![c] = [NoJob EXCEPT !.unmask = TRUE, !.vec = v]]
    <3>1. c \in Threads /\ \A u \in Threads \ {c} : at'[u] = "idle"
      BY <2>1, <2>2, ThreadNames DEF AloneInv, Sound, Types, ThreadsTyped
    <3>2. job'[c].vec = v
      <4>1. [NoJob EXCEPT !.unmask = TRUE, !.vec = v].vec = v
        BY DEF NoJob
      <4> QED BY <1>1, <2>2, <3>1, <4>1 DEF Types, ThreadsTyped
    <3>3. \A q \in Queues : Icvec[q] = v => Underway(q)'
      BY <1>1, <1>12, <2>2, UnmaskStanding DEF Underway
    <3>4. \A d \in Cpus : at'[d] = "msi" => d = c
      BY <3>1, ThreadNames
    <3> QED BY <3>1, <3>2, <3>3, <3>4 DEF OneAtATime, Unmasking
  <2> QED BY <1>3, <2>1, <2>2
<1>13. CASE UNCHANGED vars
  BY <1>1, <1>3, <1>13 DEF vars, interrupts, threads, AloneInv, Sound
<1>14. [Next]_vars => (UNCHANGED vars) \/ (OneAtATime' /\ Unmasking')
  <2>1. ASSUME NEW t \in Threads, Continue(t) PROVE OneAtATime' /\ Unmasking'
    BY <2>1, AloneContinue
  <2> QED BY Steps, <1>4, <1>5, <1>6, <1>7, <1>8, <1>9, <1>10, <1>11, <1>12, <2>1
<1> QED BY <1>1, <1>13, <1>14 DEF AloneInv, Sound

-----------------------------------------------------------------------------
(* Unmasking, when only one CPU takes interrupts.                          *)

OneCpu == \A c, d \in Cpus : c = d

\* The message that an unmask sent has not been taken: its CPU is still busy.
Coming == \A c \in Cpus : at[c] = "msi" /\ job[c].unmask =>
            job[c].vec \in irq \/ Msi(job[c].vec) \in Range(sent)

SoleInv == Types /\ Jobs /\ Coming /\ Standing

LEMMA ComingEnough == SoleInv => Sound
  BY DEF SoleInv, Sound, Coming, Unmasking, Underway

LEMMA ComingKept ==
  ASSUME Coming, irq' = irq, Range(sent) \subseteq Range(sent'),
         \A c \in Cpus : at'[c] = "msi" /\ job'[c].unmask => at'[c] = at[c] /\ job'[c] = job[c]
  PROVE  Coming'
  BY DEF Coming

LEMMA SoleStep == OneCpu /\ SoleInv /\ [Next]_vars => SoleInv'
<1> SUFFICES ASSUME OneCpu, SoleInv, [Next]_vars PROVE SoleInv'
  OBVIOUS
<1>1. Sound /\ Types /\ Coming
  BY ComingEnough DEF SoleInv
<1>2. Types' /\ Jobs' /\ Standing'
  BY <1>1, TypesStep, JobsStep, StandingStep DEF SoleInv
<1>3. ASSUME UNCHANGED <<at, job, irq, sent>> PROVE Coming'
  BY <1>1, <1>3, ComingKept
<1>4. ASSUME NEW t \in Reporters, NEW q \in Queues, NEW n \in Numbers,
             NEW a \in Reply, NEW b \in Reply, NEW c \in Reply, Record(t, q, n, a, b, c),
             UNCHANGED <<irq, duty, masked>>
      PROVE  Coming'
  <2>1. t \in Threads /\ Cpus \subseteq Threads \ {t}
    BY ThreadNames
  <2>2. \A u \in Threads \ {t} : at'[u] = at[u] /\ job'[u] = job[u]
    BY <1>1, <1>4, <2>1, RecordTyped
  <2>3. Range(sent) \subseteq Range(sent')
    BY <1>1, <1>4, <2>1, RecordStanding
  <2> QED BY <1>1, <1>4, <2>1, <2>2, <2>3, ComingKept
<1>5. ASSUME Fault PROVE Coming'
  BY <1>1, <1>4, <1>5, FaultRecords, ThreadNames
<1>6. ASSUME NEW k \in RequestKinds, PageRequest(k) PROVE Coming'
  BY <1>1, <1>4, <1>6, PageRequestRecords, ThreadNames
<1>7. ASSUME NEW t \in Threads, Continue(t) PROVE Coming'
  <2>1. job[t] \in Job /\ irq' = irq
    BY <1>1, <1>7, ContinueCases
  <2>2. Range(sent) \subseteq Range(sent')
    BY <1>1, <1>7, ContinueStanding
  <2>3. CASE Raise(t, job[t].q, job[t].reply) /\ t \notin Cpus
    <3>1. job[t].q \in Queues /\ job[t].reply \in Reply
      BY <2>1 DEF Job
    <3>2. \A u \in Threads \ {t} : at'[u] = at[u] /\ job'[u] = job[u]
      BY <1>1, <2>3, <3>1, RaiseTyped DEF Types
    <3>3. Cpus \subseteq Threads \ {t}
      BY <2>3, ThreadNames
    <3> QED BY <1>1, <2>1, <2>2, <3>2, <3>3, ComingKept
  <2>4. ASSUME NEW r, Finish(t, r) PROVE Coming'
    <3>1. at'[t] = "idle" /\ \A u \in Threads \ {t} : at'[u] = at[u] /\ job'[u] = job[u]
      BY <1>1, <2>4 DEF Finish, Types, ThreadsTyped
    <3> QED BY <1>1, <2>1, <2>2, <3>1, ThreadNames, ComingKept
  <2>5. at[t] = "record" => t \notin Cpus
    BY DEF SoleInv, Jobs
  <2> QED BY <1>1, <1>7, <2>3, <2>4, <2>5, ContinueCases
<1>8. ASSUME Memory PROVE Coming'
  <2>1. UNCHANGED <<at, job>>
    BY <1>8 DEF Memory
  <2> QED BY <1>1, <1>8, <2>1, MemoryStanding DEF Coming
<1>9. ASSUME NEW c \in Cpus, NEW v \in Vectors, TakeInterrupt(c, v) PROVE Coming'
  <2>1. at[c] = "idle" /\ UNCHANGED <<at, job>>
    BY <1>9 DEF TakeInterrupt, threads
  <2> QED BY <2>1 DEF OneCpu, Coming
<1>10. ASSUME NEW c \in Cpus, NEW q \in Queues, Acknowledge(c, q) PROVE Coming'
  <2>1. at[c] = "idle" /\ job' = job
    BY <1>10 DEF Acknowledge, Free
  <2>2. ~job'[c].unmask
    <3>1. ~NoJob.unmask
      BY DEF NoJob
    <3> QED BY <2>1, <3>1, ThreadNames DEF SoleInv, Jobs
  <2> QED BY <2>2 DEF OneCpu, Coming
<1>11. ASSUME NEW c \in Cpus, NEW v \in Vectors, Unmask(c, v) PROVE Coming'
  <2>1. \/ UNCHANGED <<at, job, irq, sent>>
        \/ /\ job' = [job EXCEPT ![c] = [NoJob EXCEPT !.unmask = TRUE, !.vec = v]]
           /\ sent' = Append(sent, Msi(v))
    BY <1>11 DEF Unmask, Msi
  <2>2. CASE /\ job' = [job EXCEPT ![c] = [NoJob EXCEPT !.unmask = TRUE, !.vec = v]]
             /\ sent' = Append(sent, Msi(v))
    <3>1. job'[c].vec = v
      <4>1. [NoJob EXCEPT !.unmask = TRUE, !.vec = v].vec = v
        BY DEF NoJob
      <4> QED BY <1>1, <2>2, <4>1, ThreadNames DEF Types, ThreadsTyped
    <3>2. Msi(v) \in Range(sent')
      <4>1. Msi(v) \in Message
        BY DEF Msi, Message
      <4> QED BY <1>1, <2>2, <4>1, RangeAppend DEF Types, ThreadsTyped
    <3> QED BY <3>1, <3>2 DEF OneCpu, Coming
  <2> QED BY <1>3, <2>1, <2>2
<1>12. \/ UNCHANGED <<at, job, irq, sent>> \/ Fault
       \/ (\E k \in RequestKinds : PageRequest(k)) \/ Memory
       \/ (\E t \in Threads : Continue(t))
       \/ (\E c \in Cpus, v \in Vectors : TakeInterrupt(c, v))
       \/ (\E c \in Cpus, v \in Vectors : Unmask(c, v))
       \/ (\E c \in Cpus, q \in Queues : Acknowledge(c, q))
  BY Steps DEF vars, threads, Drain, Clear, Mask, Disable, Enable
<1>13. Coming'
  BY <1>3, <1>5, <1>6, <1>7, <1>8, <1>9, <1>10, <1>11, <1>12
<1> QED BY <1>2, <1>13 DEF SoleInv

-----------------------------------------------------------------------------
(* No interrupt is lost.                                                   *)

LEMMA LostInit == Init => AloneInv /\ SoleInv
<1> SUFFICES ASSUME Init PROVE AloneInv /\ SoleInv
  OBVIOUS
<1>1. OneAtATime /\ Unmasking /\ Standing /\ Coming
  BY ThreadNames DEF Init, OneAtATime, Unmasking, Standing, Coming
<1> QED BY <1>1, TypesInit, JobsInit DEF AloneInv, Sound, SoleInv

\* ipsr never says that an interrupt is pending of which nobody will ever learn
\* (generate_interrupt, release_pending_interrupt, the writes of ipsr and
\* msi_vec_ctrl), if one thread at a time uses the control path or one CPU takes the
\* interrupts.  With neither, a second CPU can take and acknowledge the message of an
\* unmask before release_pending_interrupt goes on, and that then clears what
\* generate_interrupt left pending in between.
THEOREM InterruptsReachDriver ==
  ASSUME Alone \/ OneCpu PROVE Spec => []NoLostInterrupt
<1>1. CASE Alone
  <2>1. Init => AloneInv
    BY LostInit
  <2>2. AloneInv /\ [Next]_vars => AloneInv'
    BY <1>1, AloneStep
  <2>3. AloneInv => NoLostInterrupt
    BY StandingEnough DEF AloneInv, Sound
  <2> QED BY <2>1, <2>2, <2>3, PTL DEF Spec
<1>2. CASE OneCpu
  <2>1. Init => SoleInv
    BY LostInit
  <2>2. SoleInv /\ [Next]_vars => SoleInv'
    BY <1>2, SoleStep
  <2>3. SoleInv => NoLostInterrupt
    BY StandingEnough DEF SoleInv
  <2> QED BY <2>1, <2>2, <2>3, PTL DEF Spec
<1> QED BY <1>1, <1>2

-----------------------------------------------------------------------------
(* The ring of a queue.                                                    *)

LEMMA Wrap ==
  ASSUME NEW N \in Nat \ {0}, NEW a \in 0 .. N - 1
  PROVE  a % N = a /\ (a + N) % N = a /\ (a - N) % N = a
OBVIOUS

LEMMA AfterIs == \A i \in Slots : After(i) = IF i = QUEUE_SIZE - 1 THEN 0 ELSE i + 1
<1> SUFFICES ASSUME NEW i \in Slots PROVE After(i) = IF i = QUEUE_SIZE - 1 THEN 0 ELSE i + 1
  OBVIOUS
<1>1. QUEUE_SIZE \in Nat \ {0} /\ i \in 0 .. QUEUE_SIZE - 1
  BY Sizes DEF Slots
<1>2. CASE i = QUEUE_SIZE - 1
  <2>1. 0 \in 0 .. QUEUE_SIZE - 1 /\ i + 1 = 0 + QUEUE_SIZE
    BY <1>1, <1>2
  <2> QED BY <1>1, <1>2, <2>1, Wrap DEF After
<1>3. CASE i # QUEUE_SIZE - 1
  <2>1. i + 1 \in 0 .. QUEUE_SIZE - 1
    BY <1>1, <1>3
  <2> QED BY <1>1, <1>3, <2>1, Wrap DEF After
<1> QED BY <1>2, <1>3

\* How many records lie between h and t, and in which slot the i-th of them does.
Between(h, t) == (t - h) % QUEUE_SIZE
SlotOf(h, i) == (h + i - 1) % QUEUE_SIZE

LEMMA BetweenIs ==
  ASSUME NEW h \in Slots, NEW t \in Slots
  PROVE  Between(h, t) = IF t >= h THEN t - h ELSE t - h + QUEUE_SIZE
<1>1. QUEUE_SIZE \in Nat \ {0} /\ h \in 0 .. QUEUE_SIZE - 1 /\ t \in 0 .. QUEUE_SIZE - 1
  BY Sizes DEF Slots
<1>2. CASE t >= h
  <2>1. t - h \in 0 .. QUEUE_SIZE - 1
    BY <1>1, <1>2
  <2> QED BY <1>1, <1>2, <2>1, Wrap DEF Between
<1>3. CASE t < h
  <2> DEFINE a == t - h + QUEUE_SIZE
  <2>1. a \in 0 .. QUEUE_SIZE - 1 /\ t - h = a - QUEUE_SIZE
    BY <1>1, <1>3
  <2> HIDE DEF a
  <2>2. (t - h) % QUEUE_SIZE = a
    BY <1>1, <2>1, Wrap
  <2> QED BY <1>1, <1>3, <2>2 DEF Between, a
<1> QED BY <1>1, <1>2, <1>3

LEMMA SlotOfIs ==
  ASSUME NEW h \in Slots, NEW i \in 1 .. QUEUE_SIZE
  PROVE  SlotOf(h, i) = IF h + i - 1 < QUEUE_SIZE THEN h + i - 1 ELSE h + i - 1 - QUEUE_SIZE
<1>1. QUEUE_SIZE \in Nat \ {0} /\ h \in 0 .. QUEUE_SIZE - 1
  BY Sizes DEF Slots
<1>2. CASE h + i - 1 < QUEUE_SIZE
  <2>1. h + i - 1 \in 0 .. QUEUE_SIZE - 1
    BY <1>1, <1>2
  <2> QED BY <1>1, <1>2, <2>1, Wrap DEF SlotOf
<1>3. CASE ~(h + i - 1 < QUEUE_SIZE)
  <2> DEFINE a == h + i - 1 - QUEUE_SIZE
  <2>1. a \in 0 .. QUEUE_SIZE - 1 /\ h + i - 1 = a + QUEUE_SIZE
    BY <1>1, <1>3
  <2> HIDE DEF a
  <2>2. (h + i - 1) % QUEUE_SIZE = a
    BY <1>1, <2>1, Wrap
  <2> QED BY <1>1, <1>3, <2>2 DEF SlotOf, a
<1> QED BY <1>1, <1>2, <1>3

\* The slot behind the last record is none of theirs; when the tail moves over it,
\* it becomes the last.
LEMMA TailSlot ==
  ASSUME NEW h \in Slots, NEW t \in Slots
  PROVE  /\ Between(h, t) \in 0 .. QUEUE_SIZE - 1
         /\ \A i \in 1 .. Between(h, t) : SlotOf(h, i) \in Slots /\ SlotOf(h, i) # t
         /\ Between(t, t) = 0
         /\ After(t) # t
         /\ After(t) # h => Between(h, After(t)) = Between(h, t) + 1
         /\ SlotOf(h, Between(h, t) + 1) = t
<1>1. /\ QUEUE_SIZE \in Nat /\ QUEUE_SIZE >= 2
      /\ h \in 0 .. QUEUE_SIZE - 1 /\ t \in 0 .. QUEUE_SIZE - 1
  BY Sizes DEF Slots
<1>2. Between(h, t) = IF t >= h THEN t - h ELSE t - h + QUEUE_SIZE
  BY BetweenIs
<1>3. Between(h, t) \in 0 .. QUEUE_SIZE - 1
  BY <1>1, <1>2
<1>4. ASSUME NEW i \in 1 .. Between(h, t) PROVE SlotOf(h, i) \in Slots /\ SlotOf(h, i) # t
  <2>1. i \in 1 .. QUEUE_SIZE
    BY <1>1, <1>3, <1>4
  <2>2. SlotOf(h, i) = IF h + i - 1 < QUEUE_SIZE THEN h + i - 1 ELSE h + i - 1 - QUEUE_SIZE
    BY <2>1, SlotOfIs
  <2> QED BY <1>1, <1>2, <1>4, <2>2 DEF Slots
<1>5. Between(t, t) = 0
  BY <1>1, BetweenIs
<1>6. After(t) = IF t = QUEUE_SIZE - 1 THEN 0 ELSE t + 1
  BY AfterIs
<1>7. After(t) # t
  BY <1>1, <1>6
<1>8. ASSUME After(t) # h PROVE Between(h, After(t)) = Between(h, t) + 1
  <2>1. After(t) \in Slots
    BY Sizes
  <2>2. Between(h, After(t)) = IF After(t) >= h THEN After(t) - h ELSE After(t) - h + QUEUE_SIZE
    BY <2>1, BetweenIs
  <2> QED BY <1>1, <1>2, <1>6, <1>8, <2>2
<1>9. SlotOf(h, Between(h, t) + 1) = t
  <2> DEFINE i == Between(h, t) + 1
  <2>1. i \in 1 .. QUEUE_SIZE
    BY <1>1, <1>3
  <2>2. SlotOf(h, i) = IF h + i - 1 < QUEUE_SIZE THEN h + i - 1 ELSE h + i - 1 - QUEUE_SIZE
    BY <2>1, SlotOfIs
  <2> QED BY <1>1, <1>2, <2>2
<1> QED BY <1>3, <1>4, <1>5, <1>7, <1>8, <1>9

LEMMA InRingIs ==
  ASSUME NEW q
  PROVE  InRing(q) = [i \in 1 .. Between(head[q], tail[q]) |-> ring[q][SlotOf(head[q], i)]]
BY DEF InRing, Between, SlotOf

\* A write to the slot behind the last record changes none of them.
LEMMA InRingSame ==
  ASSUME QueuesTyped, NEW q \in Queues, head'[q] = head[q], tail'[q] = tail[q],
         \A s \in Slots \ {tail[q]} : ring'[q][s] = ring[q][s]
  PROVE  InRing(q)' = InRing(q)
<1> DEFINE n == Between(head[q], tail[q])
<1>1. head[q] \in Slots /\ tail[q] \in Slots
  BY DEF QueuesTyped
<1>2. \A i \in 1 .. n : SlotOf(head[q], i) \in Slots \ {tail[q]}
  BY <1>1, TailSlot
<1>3. InRing(q) = [i \in 1 .. n |-> ring[q][SlotOf(head[q], i)]]
  BY InRingIs
<1>4. InRing(q)' = [i \in 1 .. n |-> ring'[q][SlotOf(head[q], i)]]
  BY DEF InRing, Between, SlotOf
<1> HIDE DEF n
<1> QED BY <1>2, <1>3, <1>4

\* When the tail moves, the record behind the last one becomes the last one.
LEMMA InRingGrows ==
  ASSUME QueuesTyped, NEW q \in Queues, ring' = ring, head' = head,
         tail'[q] = After(tail[q]), After(tail[q]) # head[q]
  PROVE  InRing(q)' = Append(InRing(q), ring[q][tail[q]])
<1> DEFINE h == head[q]
           t == tail[q]
           n == Between(h, t)
           f == [i \in 1 .. n |-> ring[q][SlotOf(h, i)]]
           g == [i \in 1 .. (n + 1) |-> ring[q][SlotOf(h, i)]]
<1>1. h \in Slots /\ t \in Slots /\ ring[q] \in [Slots -> Numbers]
  BY DEF QueuesTyped
<1>2. /\ n \in 0 .. QUEUE_SIZE - 1 /\ Between(h, After(t)) = n + 1
      /\ SlotOf(h, n + 1) = t
      /\ \A i \in 1 .. n : SlotOf(h, i) \in Slots
  BY <1>1, TailSlot
<1>3. InRing(q) = f
  BY InRingIs
<1>4. InRing(q)' = g
  BY <1>2 DEF InRing, Between, SlotOf
<1>5. n \in Nat
  BY <1>2, Sizes
<1> HIDE DEF n
<1>6. f \in [1 .. n -> Numbers]
  BY <1>1, <1>2
<1>7. f \in Seq(Numbers) /\ Len(f) = n
  BY <1>5, <1>6, FunctionIsSeq
<1>8. ring[q][t] \in Numbers
  BY <1>1
<1>9. g = Append(f, ring[q][t])
  <2> DEFINE e == ring[q][t]
             a == Append(f, e)
  <2>1. /\ a \in Seq(Numbers) /\ DOMAIN a = 1 .. (n + 1)
        /\ \A i \in 1 .. n : a[i] = f[i]
        /\ a[n + 1] = e
    <3> HIDE DEF f, e
    <3> QED BY <1>5, <1>7, <1>8 DEF e
  <2>2. ASSUME NEW i \in 1 .. (n + 1) PROVE g[i] = a[i]
    <3>1. CASE i \in 1 .. n
      <4>1. f[i] = ring[q][SlotOf(h, i)]
        BY <3>1
      <4>2. g[i] = ring[q][SlotOf(h, i)]
        OBVIOUS
      <4> QED BY <2>1, <3>1, <4>1, <4>2
    <3>2. CASE i = n + 1
      BY <1>2, <2>1, <2>2, <3>2
    <3> QED BY <1>5, <3>1, <3>2
  <2>3. DOMAIN g = 1 .. (n + 1)
    OBVIOUS
  <2> HIDE DEF a
  <2>4. a = [i \in 1 .. (n + 1) |-> a[i]]
    BY <2>1
  <2>5. g = [i \in 1 .. (n + 1) |-> a[i]]
    BY <2>2
  <2> QED BY <2>4, <2>5 DEF a
<1> QED BY <1>3, <1>4, <1>9

LEMMA InRingEmpty ==
  ASSUME NEW q, tail'[q] \in Slots, head'[q] = tail'[q]
  PROVE  InRing(q)' = << >>
<1>1. InRing(q)' = [i \in 1 .. Between(head'[q], tail'[q]) |-> ring'[q][SlotOf(head'[q], i)]]
  BY DEF InRing, Between, SlotOf
<1>2. Between(head'[q], tail'[q]) = 0
  BY TailSlot
<1> QED BY <1>1, <1>2

-----------------------------------------------------------------------------
(* Records, when one thread at a time uses the control path and a queue is *)
(* disabled only when no record is on its way.                             *)

RecordOf(t) == [what |-> "record", q |-> job[t].q, slot |-> job[t].slot, rec |-> job[t].rec]

\* A message in flight is that of the thread that waits for it.
FlightOf(t) == /\ at[t] = "record" /\ t \notin woken => sent = << RecordOf(t) >>
               /\ at[t] = "msi" /\ t \notin woken => \E v \in Vectors : sent = << Msi(v) >>
Flight == /\ \A t \in Threads : FlightOf(t)
          /\ (\A t \in Threads : at[t] = "idle" \/ t \in woken) => sent = << >>

\* A record on its way goes to the slot behind the last record of a queue that is on,
\* and is there when its thread goes on.
InFlight == \A t \in Threads : at[t] = "record" =>
  LET q == job[t].q
  IN  /\ on[q] /\ job[t].slot = tail[q] /\ After(tail[q]) # head[q]
      /\ Len(accepted[q]) < made[q]
      /\ t \in woken => ring[q][tail[q]] = job[t].rec

Counted == made["page"] = Len(kind) /\ \A q \in Queues : Len(accepted[q]) <= made[q]

Intact == \A q \in Queues : on[q] => taken[q] \o InRing(q) = accepted[q]

IntactInv == Types /\ Jobs /\ OneAtATime /\ Flight /\ InFlight /\ Counted /\ Intact

LEMMA JobTyped ==
  ASSUME Types, NEW t \in Threads
  PROVE  /\ job[t].q \in Queues /\ job[t].slot \in Slots /\ job[t].rec \in Numbers
         /\ job[t].reply \in Reply
BY DEF Types, ThreadsTyped, Job

LEMMA LengthsTyped ==
  ASSUME Types, NEW q \in Queues
  PROVE  /\ Len(accepted[q]) \in Nat /\ made[q] \in Nat /\ Len(kind) \in Nat
         /\ accepted[q] \in Seq(Numbers) /\ taken[q] \in Seq(Numbers)
<1>1. accepted[q] \in Seq(Numbers) /\ taken[q] \in Seq(Numbers)
  BY DEF Types, HistoryTyped
<1>2. made[q] \in Nat
  BY Sizes DEF Types, RequestsTyped
<1>3. Len(kind) \in Nat
  BY DEF Types, RequestsTyped
<1> QED BY <1>1, <1>2, <1>3

\* Before a thread starts, and when the only one at work goes on, nothing is in
\* flight.
LEMMA NothingInFlight ==
  ASSUME IntactInv, NEW t \in Threads, \A u \in Threads \ {t} : at[u] = "idle",
         at[t] = "idle" \/ t \in woken
  PROVE  sent = << >> /\ woken \subseteq {t}
BY DEF IntactInv, Flight, Types, ThreadsTyped

\* What t may have started.
LEMMA Starts ==
  ASSUME NEW t \in Threads, \A u \in Threads \ {t} : at'[u] = "idle", t \notin woken',
         \/ at'[t] = "idle" /\ sent' = << >>
         \/ at'[t] = "msi" /\ \E v \in Vectors : sent' = << Msi(v) >>
         \/ at'[t] = "record" /\ sent' = << RecordOf(t)' >>
  PROVE  OneAtATime' /\ Flight'
BY DEF OneAtATime, Flight, FlightOf

LEMMA RaiseStarts ==
  ASSUME Types, NEW t \in Threads, NEW q \in Queues, NEW r \in Reply, Raise(t, q, r),
         sent = << >>
  PROVE  \/ at'[t] = "idle" /\ sent' = << >>
         \/ at'[t] = "msi" /\ \E v \in Vectors : sent' = << Msi(v) >>
<1>1. Icvec[q] \in Vectors
  BY Sizes
<1>2. Append(<< >>, Msi(Icvec[q])) = << Msi(Icvec[q]) >>
  OBVIOUS
<1>3. CASE Finish(t, r) /\ sent' = sent
  BY <1>3 DEF Finish, Types, ThreadsTyped
<1>4. CASE sent' = Append(sent, Msi(Icvec[q])) /\ at' = [at EXCEPT ![t] = "msi"]
  BY <1>1, <1>2, <1>4 DEF Types, ThreadsTyped
<1> QED BY <1>3, <1>4 DEF Raise, Msi

\* Nothing of a queue changes but the overflow.
LEMMA IntactSame ==
  ASSUME Types, Intact, UNCHANGED <<on, head, tail, accepted, taken>>,
         ring' = ring
  PROVE  Intact'
<1> SUFFICES ASSUME NEW q \in Queues, on'[q] PROVE (taken[q] \o InRing(q) = accepted[q])'
  BY DEF Intact
<1>1. InRing(q)' = InRing(q)
  BY InRingSame DEF Types
<1> QED BY <1>1 DEF Intact

\* report_fault and handle_page_request, up to the write of the record.
LEMMA RecordIntact ==
  ASSUME IntactInv, NEW t \in Threads, NEW q \in Queues, NEW n \in Numbers,
         NEW a \in Reply, NEW b \in Reply, NEW c \in Reply, Record(t, q, n, a, b, c),
         \A u \in Threads : at[u] = "idle",
         UNCHANGED <<on, head, tail, ring, woken, history>>,
         Len(accepted[q]) < made'[q], made'["page"] = Len(kind'),
         \A p \in Queues : made'[p] \in Nat /\ made'[p] >= made[p]
  PROVE  OneAtATime' /\ Flight' /\ InFlight' /\ Counted' /\ Intact'
<1>1. Types
  BY DEF IntactInv
<1>2. \A u \in Threads \ {t} : at'[u] = "idle"
  BY <1>1, RecordTyped
<1>3. sent = << >> /\ woken = {}
  BY NothingInFlight DEF IntactInv, Types, ThreadsTyped
<1>4. Intact' /\ Counted'
  <2>1. Intact'
    BY <1>1, IntactSame DEF IntactInv, history
  <2>2. \A p \in Queues : Len(accepted'[p]) <= made'[p]
    <3> SUFFICES ASSUME NEW p \in Queues PROVE Len(accepted'[p]) <= made'[p]
      OBVIOUS
    <3>1. accepted'[p] = accepted[p] /\ Len(accepted[p]) <= made[p]
      BY DEF history, IntactInv, Counted
    <3> QED BY <1>1, <3>1, LengthsTyped
  <2> QED BY <2>1, <2>2 DEF Counted
<1>5. CASE \/ at'[t] = "idle" /\ sent' = << >>
           \/ at'[t] = "msi" /\ \E v \in Vectors : sent' = << Msi(v) >>
  <2>1. OneAtATime' /\ Flight'
    BY <1>2, <1>3, <1>5, Starts
  <2>2. InFlight'
    BY <1>2, <1>5 DEF InFlight
  <2> QED BY <1>4, <2>1, <2>2
<1>6. CASE /\ on[q] /\ ~Full(q) /\ at' = [at EXCEPT ![t] = "record"]
           /\ sent' = Append(sent, [what |-> "record", q |-> q, slot |-> tail[q], rec |-> n])
           /\ job' = [job EXCEPT ![t] = [NoJob EXCEPT !.q = q, !.rec = n, !.slot = tail[q],
                                                      !.reply = c]]
  <2> DEFINE j == [NoJob EXCEPT !.q = q, !.rec = n, !.slot = tail[q], !.reply = c]
             w == [what |-> "record", q |-> q, slot |-> tail[q], rec |-> n]
  <2>1. j.q = q /\ j.rec = n /\ j.slot = tail[q]
    BY DEF NoJob
  <2>2. job'[t] = j /\ at'[t] = "record"
    <3> HIDE DEF j
    <3>1. job' = [job EXCEPT ![t] = j]
      BY <1>6 DEF j
    <3> QED BY <1>1, <1>6, <3>1 DEF Types, ThreadsTyped
  <2> HIDE DEF j
  <2>3. sent' = << w >>
    <3> HIDE DEF w
    <3>1. sent' = Append(<< >>, w)
      BY <1>3, <1>6 DEF w
    <3> QED BY <3>1
  <2>4. RecordOf(t)' = w
    BY <2>1, <2>2 DEF RecordOf
  <2>5. OneAtATime' /\ Flight'
    BY <1>2, <1>3, <2>2, <2>3, <2>4, Starts
  <2>6. InFlight'
    <3> SUFFICES ASSUME NEW u \in Threads, at'[u] = "record"
                 PROVE  (LET p == job[u].q
                         IN  /\ on[p] /\ job[u].slot = tail[p] /\ After(tail[p]) # head[p]
                             /\ Len(accepted[p]) < made[p]
                             /\ u \in woken => ring[p][tail[p]] = job[u].rec)'
      BY DEF InFlight
    <3>1. u = t
      BY <1>2
    <3> QED BY <1>3, <1>6, <2>1, <2>2, <3>1 DEF Full, history
  <2> QED BY <1>4, <2>5, <2>6
<1>7. CASE Raise(t, q, Refusal(q, a, b))
  <2>1. Refusal(q, a, b) \in Reply
    BY DEF Refusal
  <2> QED BY <1>1, <1>3, <1>5, <1>7, <2>1, RaiseStarts
<1>8. CASE Finish(t, Refusal(q, a, b)) /\ sent' = sent
  BY <1>1, <1>3, <1>5, <1>8 DEF Finish, Types, ThreadsTyped
<1> QED BY <1>6, <1>7, <1>8 DEF Record

LEMMA FaultIntact ==
  ASSUME IntactInv, Alone, Fault
  PROVE  OneAtATime' /\ Flight' /\ InFlight' /\ Counted' /\ Intact'
<1> DEFINE n == made["fault"] + 1
<1>1. /\ Types /\ at["fault_cq"] = "idle" /\ \A u \in Threads : at[u] = "idle"
      /\ Record("fault_cq", "fault", n, NoReply, NoReply, NoReply) /\ n \in Numbers
      /\ "fault_cq" \in Threads /\ NoReply \in Reply
  BY FaultRecords DEF IntactInv, Fault, Free
<1>2. /\ UNCHANGED <<on, head, tail, ring, woken, history, kind>>
      /\ made' = [made EXCEPT !["fault"] = n]
  BY DEF Fault
<1>3. \A p \in Queues : made[p] \in Nat
  BY <1>1, LengthsTyped
<1>4. \A p \in Queues : made'[p] \in Nat /\ made'[p] >= made[p]
  BY <1>1, <1>2, <1>3 DEF Types, RequestsTyped
<1>5. made'["fault"] = n /\ made'["page"] = made["page"]
  BY <1>1, <1>2, ThreadNames DEF Types, RequestsTyped
<1>6. Len(accepted["fault"]) < made'["fault"] /\ made'["page"] = Len(kind')
  <2>1. Len(accepted["fault"]) \in Nat /\ Len(accepted["fault"]) <= made["fault"]
    BY <1>1, LengthsTyped, ThreadNames DEF IntactInv, Counted
  <2> QED BY <1>2, <1>3, <1>5, <2>1, ThreadNames DEF IntactInv, Counted
<1> HIDE DEF n
<1> QED BY <1>1, <1>2, <1>4, <1>6, RecordIntact, ThreadNames

LEMMA PageRequestIntact ==
  ASSUME IntactInv, Alone, NEW k \in RequestKinds, PageRequest(k)
  PROVE  OneAtATime' /\ Flight' /\ InFlight' /\ Counted' /\ Intact'
<1> DEFINE n == Len(kind) + 1
           f == made["fault"] + 1
<1>1. /\ Types /\ "msg" \in Threads /\ \A u \in Threads : at[u] = "idle"
      /\ UNCHANGED <<on, head, tail, ring, woken, history>> /\ n <= MaxRecords
      /\ kind' = Append(kind, k)
  BY PageRequestCases, ThreadNames DEF IntactInv, PageRequest, Free
<1>2. /\ Len(kind) \in Nat /\ Len(kind') = n /\ n \in Numbers
      /\ (f <= MaxRecords => f \in Numbers)
      /\ \A p \in Queues : made[p] \in Nat
      /\ made["page"] = Len(kind)
  <2>1. kind' = Append(kind, k) /\ kind \in Seq(RequestKinds)
    BY <1>1 DEF Types, RequestsTyped
  <2>2. Len(kind) \in Nat /\ Len(kind') = n
    BY <2>1
  <2>3. made["fault"] \in Nat /\ \A p \in Queues : made[p] \in Nat
    BY <1>1, LengthsTyped, ThreadNames
  <2> QED BY <1>1, <2>2, <2>3, Sizes DEF Numbers, IntactInv, Counted
<1>3. /\ PageReply(k, "invalid") \in Reply /\ PageReply(k, "failure") \in Reply
      /\ PageReply(k, "success") \in Reply /\ NoReply \in Reply
  BY <1>2, Nothing DEF PageReply, Reply
<1>4. \A p \in Queues : Len(accepted[p]) \in Nat /\ Len(accepted[p]) <= made[p]
  BY <1>1, LengthsTyped DEF IntactInv, Counted
<1>5. CASE /\ f <= MaxRecords
           /\ made' = [made EXCEPT !["page"] = n, !["fault"] = f]
           /\ Record("msg", "fault", f, PageReply(k, "invalid"),
                     PageReply(k, "invalid"), PageReply(k, "invalid"))
  <2>1. made'["page"] = n /\ made'["fault"] = f
    BY <1>1, <1>5, ThreadNames DEF Types, RequestsTyped
  <2>2. \A p \in Queues : made'[p] \in Nat /\ made'[p] >= made[p]
    BY <1>2, <2>1, ThreadNames DEF Queues
  <2>3. Len(accepted["fault"]) < made'["fault"] /\ made'["page"] = Len(kind')
    BY <1>2, <1>4, <2>1, ThreadNames
  <2> DEFINE r == PageReply(k, "invalid")
  <2> HIDE DEF f, r
  <2>4. Record("msg", "fault", f, r, r, r) /\ r \in Reply /\ f \in Numbers
    BY <1>2, <1>3, <1>5 DEF r
  <2> QED BY <1>1, <2>2, <2>3, <2>4, RecordIntact, ThreadNames
<1>6. CASE /\ made' = [made EXCEPT !["page"] = n]
           /\ Record("msg", "page", n, PageReply(k, "failure"), PageReply(k, "success"), NoReply)
  <2>1. made'["page"] = n /\ made'["fault"] = made["fault"]
    BY <1>1, <1>6, ThreadNames DEF Types, RequestsTyped
  <2>2. \A p \in Queues : made'[p] \in Nat /\ made'[p] >= made[p]
    BY <1>2, <2>1, ThreadNames DEF Queues
  <2>3. Len(accepted["page"]) < made'["page"] /\ made'["page"] = Len(kind')
    BY <1>2, <1>4, <2>1, ThreadNames
  <2> HIDE DEF n
  <2> QED BY <1>1, <1>2, <1>3, <1>6, <2>2, <2>3, RecordIntact, ThreadNames
<1> QED BY <1>5, <1>6, PageRequestCases

\* The record is written to the slot behind the last one, and nowhere else.
LEMMA MemoryIntact ==
  ASSUME IntactInv, Memory
  PROVE  OneAtATime' /\ Flight' /\ InFlight' /\ Counted' /\ Intact'
<1> DEFINE w == Head(sent)
<1>1. /\ sent # << >> /\ sent' = Tail(sent)
      /\ woken' = woken \cup {t \in Threads : at[t] # "idle"}
      /\ UNCHANGED <<on, head, tail, at, job, made, kind, accepted, taken>>
      /\ IF w.what = "record" THEN ring' = [ring EXCEPT ![w.q][w.slot] = w.rec] ELSE ring' = ring
  BY DEF Memory, registers, history
<1>2. Types /\ QueuesTyped
  BY DEF IntactInv, Types
<1>3. PICK t \in Threads : at[t] # "idle" /\ t \notin woken
  BY <1>1 DEF IntactInv, Flight
<1>4. \A u \in Threads \ {t} : at[u] = "idle"
  BY <1>3 DEF IntactInv, OneAtATime
<1>5. at[t] = "record" \/ at[t] = "msi"
  BY <1>2, <1>3 DEF Types, ThreadsTyped
<1>6. OneAtATime' /\ Counted'
  BY <1>1 DEF IntactInv, OneAtATime, Counted
<1>7. CASE at[t] = "msi"
  <2>1. PICK v \in Vectors : sent = << Msi(v) >>
    BY <1>3, <1>7 DEF IntactInv, Flight, FlightOf
  <2>2. sent' = << >> /\ w.what = "msi"
    BY <1>1, <2>1 DEF Msi
  <2>3. ring' = ring
    BY <1>1, <2>2
  <2>4. Flight'
    BY <1>1, <1>4, <1>3, <2>2 DEF Flight, FlightOf
  <2>5. InFlight'
    BY <1>1, <1>4, <1>7 DEF InFlight
  <2>6. Intact'
    BY <1>1, <1>2, <2>3, IntactSame DEF IntactInv
  <2> QED BY <1>6, <2>4, <2>5, <2>6
<1>8. CASE at[t] = "record"
  <2> DEFINE q == job[t].q
  <2>1. sent = << RecordOf(t) >>
    BY <1>3, <1>8 DEF IntactInv, Flight, FlightOf
  <2>2. sent' = << >> /\ w = RecordOf(t)
    BY <1>1, <2>1
  <2>3. /\ on[q] /\ job[t].slot = tail[q] /\ After(tail[q]) # head[q]
        /\ Len(accepted[q]) < made[q]
    BY <1>8 DEF IntactInv, InFlight
  <2>4. q \in Queues /\ tail[q] \in Slots /\ job[t].rec \in Numbers
    BY <1>2, JobTyped DEF QueuesTyped
  <2>5. ring' = [ring EXCEPT ![q][tail[q]] = job[t].rec]
    <3>1. w.what = "record" /\ w.q = q /\ w.slot = tail[q] /\ w.rec = job[t].rec
      BY <2>2, <2>3 DEF RecordOf
    <3> QED BY <1>1, <3>1
  <2>6. Flight'
    BY <1>1, <1>4, <1>3, <2>2 DEF Flight, FlightOf
  <2>7. InFlight'
    <3> SUFFICES ASSUME NEW u \in Threads, at'[u] = "record"
                 PROVE  (LET p == job[u].q
                         IN  /\ on[p] /\ job[u].slot = tail[p] /\ After(tail[p]) # head[p]
                             /\ Len(accepted[p]) < made[p]
                             /\ u \in woken => ring[p][tail[p]] = job[u].rec)'
      BY DEF InFlight
    <3>1. u = t
      BY <1>1, <1>4
    <3>2. ring'[q][tail[q]] = job[t].rec
      <4> HIDE DEF q
      <4> QED BY <1>2, <2>4, <2>5 DEF QueuesTyped
    <3> QED BY <1>1, <2>3, <3>1, <3>2
  <2>8. Intact'
    <3> SUFFICES ASSUME NEW p \in Queues, on'[p] PROVE (taken[p] \o InRing(p) = accepted[p])'
      BY DEF Intact
    <3> HIDE DEF q
    <3>1. \A s \in Slots \ {tail[p]} : ring'[p][s] = ring[p][s]
      BY <1>2, <2>4, <2>5 DEF QueuesTyped
    <3>2. InRing(p)' = InRing(p)
      BY <1>1, <1>2, <3>1, InRingSame
    <3> QED BY <1>1, <3>2 DEF IntactInv, Intact
  <2> QED BY <1>6, <2>6, <2>7, <2>8
<1> QED BY <1>5, <1>7, <1>8

\* The tail moves over the record that memory has taken.
LEMMA ContinueIntact ==
  ASSUME IntactInv, NEW t \in Threads, Continue(t)
  PROVE  OneAtATime' /\ Flight' /\ InFlight' /\ Counted' /\ Intact'
<1> DEFINE j == job[t]
<1>0. PICK q \in Queues : q = j.q
  BY JobTyped DEF IntactInv
<1>1. /\ t \in woken /\ woken' = woken \ {t} /\ at[t] # "idle"
      /\ UNCHANGED <<on, head, ring, made, kind, taken>>
      /\ \/ /\ at[t] = "record"
            /\ tail' = [tail EXCEPT ![q] = After(j.slot)]
            /\ accepted' = [accepted EXCEPT ![q] = Append(@, j.rec)]
            /\ Raise(t, q, j.reply)
         \/ Finish(t, j.reply) /\ UNCHANGED <<tail, sent, accepted>>
         \/ Finish(t, NoReply) /\ UNCHANGED <<tail, sent, accepted>>
  BY <1>0, ContinueCases DEF IntactInv
<1>2. Types /\ QueuesTyped /\ j.reply \in Reply /\ q \in Queues /\ NoReply \in Reply
  BY JobTyped, Nothing DEF IntactInv, Types
<1>3. \A u \in Threads \ {t} : at[u] = "idle"
  BY <1>1 DEF IntactInv, OneAtATime
<1>4. sent = << >> /\ t \notin woken'
  BY <1>1, <1>3, NothingInFlight
<1>5. ASSUME NEW r \in Reply, Finish(t, r), UNCHANGED <<tail, sent, accepted>>
      PROVE  OneAtATime' /\ Flight' /\ InFlight' /\ Counted' /\ Intact'
  <2>1. at'[t] = "idle" /\ \A u \in Threads \ {t} : at'[u] = "idle"
    BY <1>2, <1>3, <1>5, FinishTyped DEF Types
  <2>2. OneAtATime' /\ Flight'
    BY <1>4, <1>5, <2>1, Starts
  <2>3. InFlight'
    BY <2>1 DEF InFlight
  <2>4. Counted' /\ Intact'
    BY <1>1, <1>2, <1>5, IntactSame DEF IntactInv, Counted
  <2> QED BY <2>2, <2>3, <2>4
<1>6. CASE /\ at[t] = "record"
           /\ tail' = [tail EXCEPT ![q] = After(j.slot)]
           /\ accepted' = [accepted EXCEPT ![q] = Append(@, j.rec)]
           /\ Raise(t, q, j.reply)
  <2>1. /\ on[q] /\ j.slot = tail[q] /\ After(tail[q]) # head[q]
        /\ Len(accepted[q]) < made[q] /\ ring[q][tail[q]] = j.rec
    BY <1>0, <1>1, <1>6 DEF IntactInv, InFlight
  <2> HIDE DEF j
  <2>2. \A u \in Threads \ {t} : at'[u] = "idle"
    BY <1>2, <1>3, <1>6, RaiseTyped DEF Types
  <2>3. \/ at'[t] = "idle" /\ sent' = << >>
        \/ at'[t] = "msi" /\ \E v \in Vectors : sent' = << Msi(v) >>
    BY <1>2, <1>4, <1>6, RaiseStarts
  <2>4. OneAtATime' /\ Flight' /\ InFlight'
    BY <1>4, <2>2, <2>3, Starts DEF InFlight
  <2>5. /\ tail'[q] = After(tail[q]) /\ \A p \in Queues \ {q} : tail'[p] = tail[p]
        /\ accepted'[q] = Append(accepted[q], j.rec)
        /\ \A p \in Queues \ {q} : accepted'[p] = accepted[p]
    BY <1>2, <1>6, <2>1 DEF QueuesTyped, Types, HistoryTyped
  <2>6. Counted'
    <3>1. accepted[q] \in Seq(Numbers) /\ made[q] \in Nat
      BY <1>2, LengthsTyped
    <3>2. Len(accepted'[q]) = Len(accepted[q]) + 1
      BY <2>5, <3>1
    <3>3. Len(accepted'[q]) <= made'[q]
      BY <1>1, <2>1, <3>1, <3>2
    <3> QED BY <1>1, <2>5, <3>3 DEF IntactInv, Counted
  <2>7. taken'[q] \o InRing(q)' = accepted'[q]
    <3>1. InRing(q)' = Append(InRing(q), j.rec)
      BY <1>1, <1>2, <2>1, <2>5, InRingGrows
    <3>2. taken[q] \o InRing(q) = accepted[q]
      BY <1>2, <2>1 DEF IntactInv, Intact
    <3>3. taken[q] \in Seq(Numbers) /\ InRing(q) \in Seq(Numbers)
      BY <1>2, LengthsTyped, InRingTyped
    <3> DEFINE x == taken[q]
               y == InRing(q)
               z == j.rec
    <3>4. \A a, b \in Seq(Numbers) : a \o Append(b, z) = Append(a \o b, z)
      OBVIOUS
    <3>5. x \o Append(y, z) = Append(x \o y, z)
      BY <3>3, <3>4
    <3> QED BY <1>1, <2>5, <3>1, <3>2, <3>5
  <2>8. Intact'
    <3> SUFFICES ASSUME NEW p \in Queues \ {q}, on'[p] PROVE (taken[p] \o InRing(p) = accepted[p])'
      BY <2>7 DEF Intact
    <3>1. InRing(p)' = InRing(p)
      BY <1>1, <1>2, <2>5, InRingSame
    <3> QED BY <1>1, <2>5, <3>1 DEF IntactInv, Intact
  <2> QED BY <2>4, <2>6, <2>8
<1> QED BY <1>1, <1>2, <1>5, <1>6

LEMMA DrainIntact ==
  ASSUME IntactInv, NEW c \in Cpus, NEW q \in Queues, Drain(c, q)
  PROVE  OneAtATime' /\ Flight' /\ InFlight' /\ Counted' /\ Intact'
<1>1. /\ taken' = [taken EXCEPT ![q] = @ \o InRing(q)]
      /\ head' = [head EXCEPT ![q] = tail[q]]
      /\ UNCHANGED <<on, tail, ring, threads, sent, made, kind, accepted>>
  BY DEF Drain
<1>2. Types /\ QueuesTyped
  BY DEF IntactInv, Types
<1>3. /\ taken'[q] = taken[q] \o InRing(q) /\ head'[q] = tail[q]
      /\ \A p \in Queues \ {q} : taken'[p] = taken[p] /\ head'[p] = head[p]
  BY <1>1, <1>2 DEF Types, QueuesTyped, HistoryTyped
<1>4. OneAtATime' /\ Flight' /\ Counted'
  BY <1>1 DEF threads, IntactInv, OneAtATime, Flight, FlightOf, RecordOf, Counted
<1>5. InFlight'
  <2> SUFFICES ASSUME NEW u \in Threads, at'[u] = "record"
               PROVE  (LET p == job[u].q
                       IN  /\ on[p] /\ job[u].slot = tail[p] /\ After(tail[p]) # head[p]
                           /\ Len(accepted[p]) < made[p]
                           /\ u \in woken => ring[p][tail[p]] = job[u].rec)'
    BY DEF InFlight
  <2> DEFINE p == job[u].q
  <2>1. p \in Queues /\ tail[p] \in Slots
    BY <1>2, JobTyped DEF QueuesTyped
  <2>2. After(tail[p]) # head'[p]
    <3>1. After(tail[p]) # head[p]
      BY <1>1 DEF threads, IntactInv, InFlight
    <3>2. After(tail[p]) # tail[p]
      BY <2>1, TailSlot
    <3> HIDE DEF p
    <3> QED BY <1>3, <2>1, <3>1, <3>2
  <2> QED BY <1>1, <2>2 DEF threads, IntactInv, InFlight
<1>6. Intact'
  <2> SUFFICES ASSUME NEW p \in Queues, on'[p] PROVE (taken[p] \o InRing(p) = accepted[p])'
    BY DEF Intact
  <2>1. taken[p] \o InRing(p) = accepted[p]
    BY <1>1 DEF IntactInv, Intact
  <2>2. CASE p = q
    <3>1. InRing(p)' = << >>
      BY <1>1, <1>2, <1>3, <2>2, InRingEmpty DEF QueuesTyped
    <3>2. accepted[p] \in Seq(Numbers)
      BY <1>2, LengthsTyped
    <3>3. accepted[p] \o << >> = accepted[p]
      BY <3>2
    <3> QED BY <1>1, <1>3, <2>1, <2>2, <3>1, <3>3
  <2>3. CASE p # q
    <3>1. InRing(p)' = InRing(p)
      BY <1>1, <1>2, <1>3, <2>3, InRingSame
    <3> QED BY <1>1, <1>3, <2>1, <2>3, <3>1
  <2> QED BY <2>2, <2>3
<1> QED BY <1>4, <1>5, <1>6

\* The driver starts a message.
LEMMA DriverStarts ==
  ASSUME IntactInv, Alone, NEW c \in Cpus, NEW q \in Queues, NEW v \in Vectors,
         Acknowledge(c, q) \/ Unmask(c, v)
  PROVE  OneAtATime' /\ Flight' /\ InFlight' /\ Counted' /\ Intact'
<1>1. /\ \A u \in Threads : at[u] = "idle"
      /\ UNCHANGED <<on, head, tail, ring, woken, made, kind, accepted, taken>>
      /\ \/ UNCHANGED <<at, sent>>
         \/ /\ at' = [at EXCEPT ![c] = "msi"]
            /\ \E x \in Vectors : sent' = Append(sent, Msi(x))
  BY Sizes DEF Acknowledge, Unmask, Free, registers, history, Msi
<1>2. Types /\ c \in Threads
  BY ThreadNames DEF IntactInv
<1>3. sent = << >> /\ woken = {}
  BY <1>1, <1>2, NothingInFlight DEF IntactInv, Types, ThreadsTyped
<1>4. /\ \A u \in Threads \ {c} : at'[u] = "idle"
      /\ \/ at'[c] = "idle" /\ sent' = << >>
         \/ at'[c] = "msi" /\ \E x \in Vectors : sent' = << Msi(x) >>
  <2>1. \A m : Append(<< >>, m) = << m >>
    OBVIOUS
  <2> QED BY <1>1, <1>2, <1>3, <2>1 DEF Types, ThreadsTyped
<1>5. OneAtATime' /\ Flight' /\ InFlight'
  BY <1>1, <1>2, <1>3, <1>4, Starts DEF InFlight
<1>6. Counted' /\ Intact'
  BY <1>1, <1>2, IntactSame DEF IntactInv, Counted
<1> QED BY <1>5, <1>6

LEMMA OffIntact ==
  ASSUME IntactInv, Quiet, NEW q \in Queues, Disable(q)
  PROVE  OneAtATime' /\ Flight' /\ InFlight' /\ Counted' /\ Intact'
<1>1. /\ on' = [on EXCEPT ![q] = FALSE] /\ ~Recording(q)
      /\ UNCHANGED <<head, tail, ring, threads, sent, made, kind, accepted, taken>>
  BY DEF Disable, history
<1>2. \A p \in Queues \ {q} : on'[p] = on[p]
  BY <1>1 DEF IntactInv, Types, QueuesTyped
<1>3. ~on'[q]
  BY <1>1 DEF IntactInv, Types, QueuesTyped
<1>4. OneAtATime' /\ Flight' /\ Counted'
  BY <1>1 DEF threads, IntactInv, OneAtATime, Flight, FlightOf, RecordOf, Counted
<1>5. InFlight'
  <2>1. Types
    BY DEF IntactInv
  <2>2. \A t \in Threads : at[t] = "record" => job[t].q \in Queues \ {q}
    BY <1>1, <2>1, JobTyped DEF Recording
  <2> QED BY <1>1, <1>2, <2>2 DEF threads, IntactInv, InFlight
<1>6. Intact'
  <2> SUFFICES ASSUME NEW p \in Queues, on'[p] PROVE (taken[p] \o InRing(p) = accepted[p])'
    BY DEF Intact
  <2>1. p # q
    BY <1>3
  <2>2. InRing(p)' = InRing(p)
    BY <1>1, InRingSame DEF IntactInv, Types
  <2> QED BY <1>1, <1>2, <2>1, <2>2 DEF IntactInv, Intact
<1> QED BY <1>4, <1>5, <1>6

LEMMA EnableIntact ==
  ASSUME IntactInv, NEW q \in Queues, Enable(q)
  PROVE  OneAtATime' /\ Flight' /\ InFlight' /\ Counted' /\ Intact'
<1>1. /\ ~on[q] /\ on' = [on EXCEPT ![q] = TRUE]
      /\ head' = [head EXCEPT ![q] = 0] /\ tail' = [tail EXCEPT ![q] = 0]
      /\ accepted' = [accepted EXCEPT ![q] = << >>] /\ taken' = [taken EXCEPT ![q] = << >>]
      /\ UNCHANGED <<ring, threads, sent, made, kind>>
  BY DEF Enable
<1>2. Types /\ QueuesTyped /\ \A p \in Queues : made[p] \in Nat
  BY LengthsTyped DEF IntactInv, Types
<1>3. /\ head'[q] = 0 /\ tail'[q] = 0 /\ accepted'[q] = << >> /\ taken'[q] = << >>
      /\ \A p \in Queues \ {q} : /\ on'[p] = on[p] /\ head'[p] = head[p] /\ tail'[p] = tail[p]
                                 /\ accepted'[p] = accepted[p] /\ taken'[p] = taken[p]
  BY <1>1, <1>2 DEF Types, QueuesTyped, HistoryTyped
<1>4. OneAtATime' /\ Flight'
  BY <1>1 DEF threads, IntactInv, OneAtATime, Flight, FlightOf, RecordOf
<1>5. Counted'
  <2>1. Len(accepted'[q]) = 0
    BY <1>3
  <2> QED BY <1>1, <1>2, <1>3, <2>1 DEF IntactInv, Counted
<1>6. InFlight'
  <2>1. \A t \in Threads : at[t] = "record" => job[t].q \in Queues \ {q}
    BY <1>1, <1>2, JobTyped DEF IntactInv, InFlight
  <2> QED BY <1>1, <1>3, <2>1 DEF threads, IntactInv, InFlight
<1>7. Intact'
  <2> SUFFICES ASSUME NEW p \in Queues, on'[p] PROVE (taken[p] \o InRing(p) = accepted[p])'
    BY DEF Intact
  <2>1. CASE p = q
    <3>1. InRing(p)' = << >>
      BY <1>3, <2>1, Sizes, InRingEmpty
    <3> QED BY <1>3, <2>1, <3>1
  <2>2. CASE p # q
    <3>1. InRing(p)' = InRing(p)
      BY <1>1, <1>2, <1>3, <2>2, InRingSame
    <3> QED BY <1>3, <2>2, <3>1 DEF IntactInv, Intact
  <2> QED BY <2>1, <2>2
<1> QED BY <1>4, <1>5, <1>6, <1>7

LEMMA IntactInit == Init => IntactInv
<1> SUFFICES ASSUME Init PROVE IntactInv
  OBVIOUS
<1>1. OneAtATime /\ Flight /\ InFlight /\ Counted
  BY ThreadNames DEF Init, OneAtATime, Flight, FlightOf, InFlight, Counted
<1>2. Intact
  <2> SUFFICES ASSUME NEW q \in Queues PROVE taken[q] \o InRing(q) = accepted[q]
    BY DEF Intact
  <2>1. head[q] = 0 /\ tail[q] = 0 /\ taken[q] = << >> /\ accepted[q] = << >>
    BY DEF Init
  <2>2. Between(0, 0) = 0
    BY Sizes, TailSlot
  <2>3. InRing(q) = << >>
    BY <2>1, <2>2, InRingIs
  <2> QED BY <2>1, <2>3
<1> QED BY <1>1, <1>2, TypesInit, JobsInit DEF IntactInv

LEMMA IntactStep == Alone /\ Quiet /\ IntactInv /\ [Next]_vars => IntactInv'
<1> SUFFICES ASSUME Alone, Quiet, IntactInv, [Next]_vars PROVE IntactInv'
  OBVIOUS
<1>1. Types' /\ Jobs' /\ Types
  BY TypesStep, JobsStep DEF IntactInv
<1> DEFINE Kept == OneAtATime' /\ Flight' /\ InFlight' /\ Counted' /\ Intact'
<1>2. ASSUME UNCHANGED <<on, head, tail, ring, threads, sent, made, kind, accepted, taken>>
      PROVE  Kept
  <2>1. Intact'
    BY <1>1, <1>2, IntactSame DEF IntactInv
  <2> QED BY <1>2, <2>1 DEF threads, IntactInv, OneAtATime, Flight, FlightOf, RecordOf, InFlight,
                           Counted
<1>3. ASSUME NEW c \in Cpus, NEW q \in Queues, Acknowledge(c, q) PROVE Kept
  BY <1>3, DriverStarts, Sizes
<1>4. ASSUME NEW c \in Cpus, NEW v \in Vectors, Unmask(c, v) PROVE Kept
  BY <1>4, DriverStarts, ThreadNames
<1>5. \/ UNCHANGED <<on, head, tail, ring, threads, sent, made, kind, accepted, taken>>
      \/ Fault \/ (\E k \in RequestKinds : PageRequest(k)) \/ Memory
      \/ (\E t \in Threads : Continue(t))
      \/ (\E c \in Cpus, v \in Vectors : Unmask(c, v))
      \/ (\E c \in Cpus, q \in Queues : Acknowledge(c, q))
      \/ (\E c \in Cpus, q \in Queues : Drain(c, q))
      \/ (\E q \in Queues : Disable(q)) \/ (\E q \in Queues : Enable(q))
  BY Steps DEF vars, registers, history, TakeInterrupt, Clear, Mask
<1>6. Kept
  BY <1>2, <1>3, <1>4, <1>5, FaultIntact, PageRequestIntact, MemoryIntact, ContinueIntact,
     DrainIntact, OffIntact, EnableIntact
<1> QED BY <1>1, <1>6 DEF IntactInv

\* As many answers as requests at most: their numbers differ.
LEMMA AnswersCounted == PageInv => Len(answers) <= Len(kind)
<1> SUFFICES ASSUME PageInv PROVE Len(answers) <= Len(kind)
  OBVIOUS
<1> DEFINE l == Len(answers)
           m == Len(kind)
           f == [i \in 1 .. l |-> answers[i].pr]
<1>1. l \in Nat /\ m \in Nat /\ DOMAIN answers = 1 .. l
  BY DEF PageInv, Types, RequestsTyped
<1>2. \A i \in 1 .. l : answers[i].pr \in 1 .. m
  BY <1>1 DEF PageInv, Numbered, Answered, Latest
<1>3. \A i, j \in 1 .. l : answers[i].pr = answers[j].pr => i = j
  BY <1>1 DEF PageInv, Once
<1> HIDE DEF l, m
<1>4. f \in Injection(1 .. l, 1 .. m)
  <2>1. f \in [1 .. l -> 1 .. m]
    BY <1>2
  <2>2. \A i, j \in 1 .. l : f[i] = f[j] => i = j
    BY <1>3
  <2> HIDE DEF f
  <2>3. DOMAIN f = 1 .. l
    BY <2>1
  <2> QED BY <2>1, <2>2, <2>3 DEF Injection, IsInjective
<1>5. /\ IsFiniteSet(1 .. m) /\ Cardinality(1 .. m) = m
      /\ IsFiniteSet(1 .. l) /\ Cardinality(1 .. l) = l
  BY <1>1, FS_Interval
<1>6. l <= m
  BY <1>4, <1>5, FS_Injection
<1> QED BY <1>6 DEF l, m

LEMMA IntactEnough == IntactInv /\ PageInv => RecordsIntact
<1> SUFFICES ASSUME IntactInv, PageInv PROVE RecordsIntact
  OBVIOUS
<1>1. Types
  BY DEF IntactInv
<1>2. {on, of, ip} \subseteq [Queues -> BOOLEAN] /\ {head, tail} \subseteq [Queues -> Slots]
  BY <1>1 DEF Types, QueuesTyped, InterruptsTyped
<1>3. ring \in [Queues -> [Slots -> 0 .. MaxRecords]]
  BY <1>1 DEF Types, QueuesTyped, Numbers
<1>4. {masked, msi_pending} \subseteq [Vectors -> BOOLEAN] /\ irq \subseteq Vectors
  BY <1>1 DEF Types, InterruptsTyped
<1>5. /\ at \in [Threads -> {"idle", "record", "msi"}]
      /\ woken \subseteq {t \in Threads : at[t] # "idle"}
  BY <1>1 DEF Types, ThreadsTyped
<1>6. made \in [Queues -> 0 .. MaxRecords] /\ Len(answers) <= Len(kind)
  BY <1>1, AnswersCounted DEF Types, RequestsTyped, Numbers
<1>7. \A q \in Queues : Len(accepted[q]) <= made[q]
  BY DEF IntactInv, Counted
<1>8. TypeOK
  BY <1>2, <1>3, <1>4, <1>5, <1>6, <1>7 DEF TypeOK
<1> QED BY <1>8 DEF RecordsIntact, IntactInv, Intact

\* What the driver has read and what lies between head and tail is what the IOMMU
\* moved the tail over: a record of a fault or page request is in memory before the
\* driver can read it, is read once, and is not overwritten before (report_fault,
\* handle_page_request, the writes of the queues' registers).  With two threads on
\* the control path, the answer to one wakes the other before its record is written;
\* with a queue disabled under a record, its slot outlives the restart.
THEOREM RecordsReachMemory ==
  ASSUME Alone, Quiet PROVE Spec => []RecordsIntact
<1>1. Init => IntactInv /\ PageInv
  BY IntactInit, PageInit
<1>2. IntactInv /\ PageInv /\ [Next]_vars => (IntactInv /\ PageInv)'
  BY IntactStep, PageStep
<1> QED BY <1>1, <1>2, IntactEnough, PTL DEF Spec
=============================================================================
